# BIQT in TLA+

BIQT runs biometric quality *providers* (plug-ins, native or Java) on image
files. This directory specifies how BIQT finds, loads, runs and unloads them:
TLA+ modules translated from the source, TLC runs on small instances, and
TLAPS proofs for instances of any size.

## The system

| Component | State it keeps | Operations | Hard behaviour | What makes it correct |
|---|---|---|---|---|
| Registry: class `BIQT`, `ProviderInfo` (`cxx/BIQT.cpp`, `BIQT.h`) | `modulePath`, the vector `providers`, one `dlopen` handle per provider, `BIQT_HOME` | constructor, `getProviders`, `providerLibs`, `ProviderInfo`'s constructor and destructor, `~BIQT` | threads on an unlocked vector, lazy rescans, an installation that changes, one directory of several failing, handles shared between objects of a process | no evaluator into an unloaded library, no handle closed twice, a list that is complete, ordered and settled once, no race where the program may rely on none |
| Evaluation: `runProvider`, `runModality`, `deserializeResult`, `freeResult` (`BIQT.cpp`, `ProviderInterface.h`) | the string a provider returned, the result, the map of results | by name, by modality | a provider that throws, returns null or returns text that throws while it is parsed; two providers of one name | one release of every string by the right deallocator, no failure reported as success, the first success of every name |
| Java bridge: `java_provider_eval`, `jnihelper` (`java/src/c`) | the Java virtual machine of the process, pending exceptions | create, look up, call, copy, destroy | no lock, one machine per process, ten failing stages, waiting for Java threads | one thread inside, the machine of a Java host left alone, no text without an answer |
| Process: native and Java providers run by one process (`BIQT.cpp`, `BIQT-cli.cpp`, `java_provider.cpp`) | what the evaluation and the bridge keep | request after request | providers that share the only machine of the process, providers that crash or never answer | the order of registry and requests decides which Java provider answers, Java code outlives its evaluation only when the provider's class was not found, every request returns |
| Java binding: native methods and class `BIQT` | `biqt_ptr` in the Java object | initialize, getProviders, runProvider, runModality, cleanup | destroy by two threads at once, initialize once more, a pointer that does not fit its field, a scan that throws, a pending exception, several results in one text | every answer reaches the caller, no use of a deleted object, none deleted twice by one `destroy` after another, none lost but those replaced or cut off |
| Command line: `biqt` (`cxx/BIQT-cli.cpp`) | options, the output file | option loop, list of files, output | options in any order, error codes that are dropped, an output that does not open | a command line of the documented form evaluates what it names, whatever the order of its options; what is written is what succeeded; the process ends |
| Option parser: `getopt_long` of the Windows build (`cxx/windows/getopt.h`) | `argv`, `optind`, the block of operands skipped | next option, long options, permutation | operands and options mixed in any order, several letters in one token, abbreviations, missing arguments, `POSIXLY_CORRECT` | options first, operands last, each in the order they were typed; every option with its own argument |
| Result codec: `serializeResult`, `deserializeResult` (`ProviderInterface.h`), `evaluate` of the provider template and of `Provider.java` | the text and the result on their way | write, read, name, write again | a text that is refused half-way, members that are absent, empty maps, numbers that JSON or a float cannot hold | every detection arrives in its place, a refused text leaves nothing, C++ and Java callers are told the same |

How they interact. The command line and the Java binding own `BIQT` objects
and call the registry and the evaluation. The evaluation calls a native
provider through the function pointer the registry found in its library, and a
Java provider through the bridge. The registry and the bridge share state
beyond one object: the loader's references on libraries, the environment
variable `BIQT_HOME`, and the one virtual machine of the process. There are no
locks and no callbacks.

`PROJECT.json` lists the hazards at their lines.

## Modules

| Module | Models |
|---|---|
| `Registry` | the registry, from any number of threads and objects |
| `Catalogue` | abstract: what a `BIQT` object promises about its list |
| `Evaluation` | one call of `runProvider` or `runModality` after another |
| `JvmBridge` | `java_provider_eval` from any number of threads |
| `Process` | a process that runs native and Java providers: `Evaluation` composed with `JvmBridge` |
| `JavaBinding` | the Java class `BIQT` and its native methods, used by threads |
| `Getopt` | `getopt_long` as `main` calls it |
| `Cli` | `main` of the command line, on top of `Getopt` |
| `ResultCodec` | the way of a result from a provider to a Java program |
| `MC...` | values of the constants for TLC |
| `RegistryProofs`, `EvaluationProofs`, `JvmBridgeProofs`, `ProcessProofs`, `JavaBindingProofs`, `ResultCodecProofs`, `GetoptProofs`, `CliProofs` | theorems |

In every module the definitions marked "Mutant of ..." are versions of the
definition they name with a plausible mistake. No specification uses them: they
show that a property is able to fail.

### Registry

`disk[l]` is directory `l` under `<modulePath>/providers`, abstracted to what
`ProviderInfo`'s constructor can tell apart: whether the shared object is
missing, refused by `dlopen` or fine, how the descriptor parses, and whether
`provider_eval` is exported. Numbers stand for names, in the order
`std::set<std::string>` iterates. `handles` is the history of `dlopen`
references; a provider holds the index of its own. `call[t]` is the call a
thread is in, with a program counter and the names it has not visited yet.

| Action | Code |
|---|---|
| `Construct`, `SetHome` | `BIQT::BIQT` up to `getProviders`, with the gap between `getenv` and `setenv` |
| `CopyList`, `Rescan` | the two ways into `getProviders`: list there, list empty |
| `Scan` | `providerLibs`, the only time directory names are read |
| `Push`, `Skip`, `Throw` | one iteration of the loop: loaded; `std::runtime_error`; any other exception |
| `Finish` | the return of `getProviders` or of the constructor |
| `Catch` | the host goes on after an exception |
| `Destroy` | `~BIQT` and the destructors of its `ProviderInfo`s |
| `Reinstall` | external: somebody changes a directory |

`Throw` loses the list of an object under construction, since an exception in a
constructor destroys the vector but not what its pointers point to, and keeps
the list of a live one. `Opened` adds a reference whenever `dlopen` succeeds,
also when the constructor fails later: nothing closes that one.

Two accesses to one vector by threads in the loop of `getProviders` are a data
race. The step then chooses between the sequential outcome and marking the
object in `raced`; afterwards nothing is said of the process, which has no
defined behaviour.

Decisions that a reader of the code may question. `dlopen` and the read of
the descriptor are one step (an entry replaced between the two is an entry
that mixes both, and `registry_shared` takes all entries); the environment is
read and written atomically; the host does not write `BIQT_HOME` itself;
it destroys only objects it is not using.

`Registry` implements `Catalogue` (property `IsCatalogue`): an object shows
nothing until its constructor has returned, `getProviders` answers with the
list it shows, and a list that is not empty never changes. While a call scans,
the abstract list is what it was before, which is empty.

### Evaluation

`registry` is a constant of a behaviour: theorem `ListFrozen` shows that the
list of an object that shows a provider does not change. Calls of several
threads share nothing but that list and, for Java providers, the virtual
machine, so one caller is modelled. Any outcome of a provider is possible here;
`Process` says which one a Java provider has.

What a provider computes is abstracted to how its text parses: `Malformed` (no
JSON), `IllTyped` (an accessor of jsoncpp throws), `NoCode` (no `errorCode`:
JSON null, which `asInt` makes 0), `WithCode(k)`, or a null pointer. `heap` has
the strings returned during the call and how each was released.

| Action | Code |
|---|---|
| `RunModality`, `RunProvider`, `RunUnknown` | the entry points; an unknown name leaves `errorCode` unassigned, hence a choice over `Garbage` |
| `Consider` | the head of `runModality`'s loop |
| `Evaluate`, `EvaluateNull`, `EvaluateThrows` | `ProviderInfo::evaluate` |
| `Deserialize`, `DeserializeThrows` | `deserializeResult` and the catch block |
| `Release` | `freeResult` |
| `Collect`, `Deliver`, `Return` | `results.insert`, and the returns |

`WellBehaved` is the contract on providers: one that does not use `new char[]`
exports `provider_free`; a Java provider's text is `new char[]`, which
`JvmBridge` shows (`Copy`). Its shared object, if it has one, may export
`provider_free` too.

### JvmBridge

A Java provider is abstracted to the first stage of `java_provider_eval` that
fails for it, and to the stages at which its code starts a thread (`RunsJava`:
`FindClass` runs static initialisers, `NewObject` the constructor, and
`evaluate` and `toString` are called), whether that stage then succeeds or not
(`MaySpawn`). `Create` and
`CreateRefused` are `JNI_CreateJavaVM`, `Obtain` a stage that succeeds, the
other actions its failures, each with its own way out: `ClassMissing` returns
without destroying the machine, because `init_jvm` has failed, and so without
waiting for what a static initialiser has started; `ObjectFails` is
not noticed, so the next call is made on a null object with an exception
pending (`AnswerUndefined`); `MethodMissing` throws a second exception while
the first is pending. JNI leaves both undefined: the call comes back, or the
process ends (`jvm = "crashed"`).

The machine itself is external: one per process, none after it was destroyed,
and `DestroyJavaVM` waits for threads that Java code started. The process may
be a Java program (`jvm = "host"`).

Not modelled: line 158 of `java_provider.cpp` passes a null pointer to
`ReleaseStringUTFChars`, so the characters are not released.

### Process

`ProviderInfo::evaluate` either calls a function of a library or
`java_provider_eval`. `Process` is the product of an instance of `Evaluation`
and an instance of `JvmBridge` for one thread, joined at that place. By the shape
of its actions each step is one of `Evaluation` or leaves its variables alone, so
what is proved of `Evaluation` for any outcome of a Java provider holds here; the
properties of `Process` are about what the bridge adds.

| Action | Code |
|---|---|
| `Request` | the next call of `runProvider` or `runModality`: the next file of `biqt`'s list, the next call of a Java program |
| `NativeStep` | any step of `Evaluation`, except the evaluation of a Java provider |
| `EnterJava`, `InJava` | `evaluate` enters `java_provider_eval`, and a step of it that does not return |
| `JavaReturns` | the step that returns: a text becomes `Evaluation`'s `Evaluate`, a null pointer `EvaluateNull` |
| `JavaThreadEnds` | external: a thread a Java provider has started ends |

`PluginOf` gives, for every name, how its Java provider goes when it gets a
machine. `past` is a history of who was evaluated and who answered.

### JavaBinding

One Java object, whose constructor has run `initialize`, and the threads that
share it. `ptr` is its field `biqt_ptr`; the C++ objects it may point to are
numbered, since `initialize` is public and overwrites the pointer when it is
called again. Every other native method starts with `jni_get_pointer`
(`EnterNative`) and works on what that returned.

| Action | Code |
|---|---|
| `Initialize`, `Construct`, `Store` | `initialize`: `new BIQT()`, then `jni_set_pointer` |
| `GetProviders`, `RunList`, `Destroy` | the methods of `BIQT.java` up to their native method |
| `ScanThrows` | the constructor, or the scan of an empty registry in `getProviders` and `runModality`, throws; nothing catches it and the Java program ends |
| `RunNative` | the native `runProvider`, `runModality`: a text made of so many JSON objects |
| `Parse`, `ReturnList` | the loop over the input files, which logs a `ParseException` and goes on |
| `LookUp`, `ClassMissing`, `MethodMissing`, `FillList` | the native `getProviders`: five lookups, then the loop |
| `LookUpLate` | a call of JNI while an exception is pending does not come back: by a lookup after `jni_get_class` has thrown, or by `jni_throw_exception`, which calls `FindClass` and `ThrowNew` after a lookup that failed |
| `Delete`, `Clear` | `cleanup`: `delete`, then `jni_set_pointer` of null |
| `DeleteAgain` | `cleanup` deletes what another thread has deleted |
| `ReadWild` | a native method works on a pointer that is none |

The program is assumed to follow the documentation of `destroy`: no thread is
in another method when it is called, nor enters one afterwards. `destroy` itself
may be called again, later or by other threads at the same time: the program
calls it, and a container does (`@PreDestroy`); `together` records that it was.
`jni_set_pointer` casts the pointer to `long`, which on 64-bit Windows does not
hold it: `Kept(o)` is what may be stored for object `o`, the address or, where
a `long` is not wide (`WideLong`), `Wild`.
JNI says nothing of a call made while an exception is pending: it may come back,
with what it was to find or without, or not. The model records the end of the
program, undefined behaviour and a second `delete` in `java`, and stops.

### Getopt and Cli

`Cli` extends `Getopt`, whose variables are `argv`, `optind`, the position
`place` in a token of several letters, the two indices `nonopt_start` and
`nonopt_end` of the operands skipped so far, and, as history, the line as it
was typed (`given`). A token is given by its letters and the argument attached
to it (`Shorts`), or by the name typed and the names of the table it begins
(`Longs`).

| Action or operator | Code |
|---|---|
| `SkipOperand` (`Operand` of `Cli`) | `getopt_internal` passes over an operand and moves the options behind the earlier ones in front of them |
| `PermuteArgs`, `Gcd` | `permute_args` and `gcd`, exchange by exchange |
| `Scanned`, `Matches`, `LongLetter` | `parse_long_options`: the search of the table, where an exact name beats the entries it only begins and an ambiguous one is refused |
| `ReturnsOption`, `ReturnsError` | it returns an option with `optarg`, or `?`; `optind` moves on behind the last letter of a token |
| `NoMoreOptions` | it returns -1: end of `argv`, `--`, or an operand under `POSIXLY_CORRECT` |
| `SetFormat`, `SetOutput`, `SetList`, `Command`, `ListProviders`, `HelpOrVersion`, `BadOption`, `NoArguments` | the cases of `main`'s loop, together with the call of `getopt_long` that leads to them |
| `Choose` | what comes after the loop |
| `RunProvider`, `RunThrows`, `Finish` | `run_provider` for the next file; the rescan of an empty registry that throws out of `main`; the end |

The reference for all of it (`Meant`, `Role`, `Typed`, `Operands`) is stated
over the line as it was typed, without `argv`, from what getopt(3) promises.
Systems with a `getopt_long` of their own are assumed to have one that does the
same. What is written is abstracted to the evaluation it comes from, the format
and the output. `to_text` and its three likes do not test whether their stream
has opened (`Opens`, `Unopenable`): what is written to one that has not is lost,
and `main` goes on.

### ResultCodec

A JSON text is abstracted to what the accessors of jsoncpp make of each member:
absent (or null), a value, or refused with an exception. `EvaluateNative` is
the template's `evaluate` and `provider_eval`, which serialise any result, with
any code, since nothing assigns `errorCode`; `EvaluateJava` is
`Provider.evaluate`, with one detection under the provider's name;
`EvaluateOther` is any other text. `RunProvider` reads it (all or nothing: the
result is assigned after the last member was read), `Relay` writes it for the
Java caller.

Metrics are doubles in a text and floats in a result. `ToFloat` is that
conversion: idempotent, and infinite for a number beyond the range of a float.
What jsoncpp does to numbers that JSON does not have is external: its writer
writes NaN as null, which `asFloat` reads as 0, and an infinite number as
1e+9999. Versions of its reader disagree on that token, so `wide` says whether
the reader at hand takes it; one that does not takes the whole text for
malformed (`Parsed`). json-simple writes null for both. The digits of a number
are not modelled.

## Runs

Runs that show a violation are in italics.

| Run | Question | Bounds | Distinct states |
|---|---|---|---|
| `registry_shared` | What do construction, scans, failed loads and destruction of two objects by two threads do to lists and references, and is each object a catalogue? | every pair of 11 entries, one for every way through `ProviderInfo`'s constructor; 4 references | 136,928 |
| `registry_upgrade` | Does an object that loaded a provider race or change while the installation does, and do calls end? | 2 threads, 1 object, 2 directories that may be absent, good or malformed | 44,130 |
| *`registry_throws`* | Does `getProviders` return? No. | 1 directory | |
| `evaluation_calls` | Are strings released and answers right after every sequence of outcomes? | 4 registries, with one provider of each kind and duplicate names within and across modalities; codes -1, 0 and 7 | 2,945 |
| *`evaluation_unknown`* | Is an unknown name an error? Not always. | the same | |
| `jvm_eval` | What do two threads and providers that fail anywhere do to the machine and to the answers? | 22 providers: each stage that may fail, or none, and threads started nowhere or wherever the provider's code runs; native and Java host, calls begin until 2 have returned | 585,448 |
| `process_runs` | Which Java providers answer in one process, when does Java code outlive its evaluation, and does every request return? | 5 registries of up to 3 providers that mix native ones with Java ones that work, throw, start threads in the constructor, in `evaluate` or in a static initialiser that then throws, or fail at the class path, the class or the object; native and Java host; requests begin while 6 evaluations suffice | 119,375 |
| *`process_second`* | Does a good Java provider answer for every file? No. | 1 native and 1 Java provider, 4 evaluations | |
| `cli_runs` | Is `argv` rearranged as `main` relies on, does a command line of the documented form evaluate and write what it names, does `-P` list what it names, and does the process end? | every line of up to 2 tokens, of up to 3 with one letter in each, of up to 4 and 5 made of fewer options and operands, with and without `POSIXLY_CORRECT`; tokens of two letters, attached arguments, exact, abbreviated, ambiguous and unknown long names; a list with an empty line and a repeated file; outputs of which one does not open | 224,762 |
| `binding_calls` | Do two threads use a C++ object only while it lives, what is left behind, does the list of results follow the files, and do methods return? | 2 threads, 2 C++ objects, 2 files, up to 2 results for a file, every set of three failing lookups, pointers that may be cut off | 506,716 |
| *`binding_results`* | Does every file with a result have it in the list? No. | 1 thread, 1 file, 2 results | |
| `codec_path` | Does a result arrive as it was made, for a C++ and a Java caller? | 1 name; a number that is rounded, one beyond a float, one infinite, NaN; up to 2 detections; every fault of every member; both kinds of reader | 863,432 |

Why the bounds are enough. Races need two threads; closing a reference too
early needs two objects with one library; order and a hidden neighbour need two
directories, of which one may be first or last. `MaxOpens` only stops new
calls, after as many references as two objects with two directories hold, so
that rescans and reloads happen. An installation that changes is left to
`registry_upgrade`: `IsCatalogue` is checked for an unchanged one, and what
it says of a list that is not empty is `FrozenOnceLoaded` there. A call of
`runModality` keeps nothing but the map, so two providers of a name and a third
of another show every interaction; `Evaluation` repeats calls without a bound.
In `JvmBridge` the machine is usable once, so a third call adds nothing; in
`Process` six evaluations are a second request behind one of three providers,
and more than a machine can answer.
A documented command line with one option that takes an argument has five
tokens (`-m`, modality, `-f`, format, file), in any order; two operands around
two options are the first blocks that take more than one cycle to exchange. A
token of two letters has a first and a last one; the table of long options has
one name that begins another, and two that begin alike. In `JavaBinding` two
C++ objects are one in use and one replaced, a third would be replaced
likewise, and two threads in `destroy` are the least that overlap; two files tell order and loss apart; a text of two objects stands for
any that json-simple refuses; and of the five lookups the three that may fail
are the two classes and a method, whose failures have one way out for each
kind. In `ResultCodec` detections meet only in the list, so two show a mix-up,
and names only as members of one map.

Fairness. `CallReturns`, `EvalReturns`, `RequestReturns` and `MethodReturns`
assume that a thread in a call is scheduled again (weak fairness of the thread's
own steps), that the evaluation of a native provider ends, and, in `JvmBridge`
and `Process`, that the threads a Java provider starts end. `ProcessEnds` assumes
that the only thread of the command line runs (weak fairness of `Next`) and that
evaluations end. The code waits for all of these without a timeout. `CallReturns`
of `Registry` needs no fairness of the installer, which may go on for ever:
names are read once. No fairness makes a program call a method. Deadlock
checking is off where a bound, a race, a crash or the end of the process stops
the model.

### What the violations show

* `registry_throws`: `getProviders` catches `std::runtime_error` only; what
  jsoncpp throws for a malformed or ill-typed descriptor leaves it and the
  constructor, and hides the good providers.
* `evaluation_unknown`: the result for an unknown name has an unassigned error
  code.
* `process_second`: a virtual machine per evaluation, and one machine per
  process: only the first evaluation of a Java provider can succeed. With a list
  of files, every file but the first goes without.
* `binding_results`: several results for a file are joined without brackets,
  do not parse, and are dropped.

Eight more things the models show without a run of their own. `cleanup` reads,
deletes and clears `biqt_ptr` without a lock, so two threads in `destroy` at
once delete the C++ object twice (`DeleteAgain`; `ObjectLives` says that it takes
such an overlap). On 64-bit Windows the cast to `long` may cut off the address
of the object, and the next native method works on what is none (`ReadWild`).
The native `getProviders` goes on to further JNI calls after `jni_get_class` has
thrown (`LookUpLate`), against the advice in `jnihelper.c`. A static
initialiser that starts a thread and then throws leaves that thread and its
machine running (`OnlyMissedOutlast` says that nothing else does). An output
file that does not open loses everything, and `biqt` exits with 0 (`AsAsked`). A
second `initialize` leaves the first C++ object behind, with its libraries loaded
(`OnlyReplacedLeak` says that nothing else is, but for an object whose address was
cut off). A descriptor that does not parse
ends a Java program (`ScanThrows`). And a provider built from the template
reports an unassigned error code, so `ResultCodec` lets a native provider return
any.

## Theorems

All are for every value of the constants, under the assumptions named in the
modules: `NoObject` and `NoThread` are no object and no thread, `Entries` are
entries, bounds are natural numbers, registries hold well-behaved providers.
The bounds are arbitrary, so they do not weaken the theorems.

`RegistryProofs`
* `TypeCorrect`: `[]TypeOK`.
* `SearchesHome`: `[]PathIsHome`. By itself it is not inductive: a constructor
  that is about to call `setenv` needs the variable to be unset or already
  `"."`, which `HomeInv` adds. `getClassPath`'s unchecked `getenv` is safe
  because of this.
* `EvaluatorsStayLoaded`: `[](NoDanglingEvaluator /\ SoleOwner)`. The two are
  inductive together: a destructor closes only its own references because no
  other provider holds them, and a new reference is new because it is the
  length of the history plus one. `OneOwner` is `[]SoleOwner` by itself.
* `SharedWithoutRace`: `[]RaceFreeOnceLoaded`, from `RaceInv`: an object under
  construction belongs to one thread, and nobody is in the loop of an object
  that was born with a provider, since a list that is not empty is never
  scanned again.
* `ListFrozen`: `FrozenOnceLoaded`, an action property, from the same invariant.
* `OwnerCloses`: `ClosedByOwner`, step by step from the types.

In the same module, of what the registry lists:
* `ListsOrdered`: `[]OrderedOnceLoaded`, from `OrderInv`: nobody else touches
  the list of a constructor (`RaceInv`), and what it has still to load comes
  behind what it has loaded. It holds while the installation changes.
* `ListsComplete`: `[]CompleteWhenQuiet`, from `CompleteInv`: of the names a scan
  has read, those behind the loop are listed if they are usable, and none of
  them was one that ends a constructor. A second scan works on an object that
  has nothing to list, in the same installation, so it finds nothing.
* `LeaksExplained`: `[]OnlyFailuresLeak`, from `CompleteInv` and the ownership of
  references: a reference loses its owner only when an exception ends the
  constructor of the list it is in, which is at a name behind its own.
* `RegistryImplementsCatalogue`: `IsCatalogue`, for programs that meet
  `NobodyDisturbs`: an installation nobody changes, or one thread in an
  installation that changes. Two threads that scan one object while the
  installation changes may see different answers, which is why the hypothesis
  is there. The proof maps every action to a step of `Catalogue` or to a
  stutter; `RaceInv` says that an object in a loop is empty for the catalogue.

`EvaluationProofs`
* `TypeCorrect`: `[]TypeOK`.
* `StringsReleased`: `[]EveryStringFreedOnce`, from `StringInv`: while a call
  holds a text, the last string is live and was returned by the provider the
  call is at; all others are freed. The assumption on providers is used where
  the deallocator is chosen.
* `CodesAreRight`: `[]CodeTellsSuccess`, from `CodeInv`, which says what is
  known of the code before it is recorded.
* `AllEvaluated`, `FirstSuccessKept`: `[]EachProviderOnce` and
  `[]FirstSuccessWins`, from `LoopInv`, which says where `runModality`'s loop is
  (`PlaceInv`), that the log has the providers of the modality the loop has
  reached, in order (`LogInv`), and that the map has the first success of each
  name among those it has collected (`MapInv`). The properties themselves speak
  of the end of a call only, so they are not inductive.

`JvmBridgeProofs`
* `TypeCorrect`: `[]TypeOK`.
* `CreatorAlone`, `OneAnswer`: `[]OnlyCreatorInside` and `[]AnswersOnce`, from
  `OnceInv`: once an answer is out, the machine is not absent and nobody is
  inside, so nobody gets in again. The proof sorts the steps of a thread into
  four kinds (creates, refused, moves inside, leaves) and shows the invariant
  for the kinds.
* `HostSurvives`: `HostJvmStays`, since nobody is inside a host's machine.
* `NothingElseLeft`: `[]NoJvmLeftBehind`. It is inductive as it stands: the one
  way out that leaves the machine running is that of a class that is not found,
  and it records that; every other one destroys the machine.

`ProcessProofs`
* `JavaInside`: `[]OnlyMissedOutlast`, from `InsideInv`: the thread is inside the
  bridge only while the request is at a Java provider, and a Java thread exists
  only between the provider's first Java code and the destruction of the machine,
  which waits for it, unless some evaluation has missed its class and so left
  both behind.
* `OneMachineOneAnswer`: `[]FirstMachineAnswers`, from `MachineInv`: as long as no
  machine was created, and while the evaluation that created it is inside, no
  Java provider has answered and all were refused; afterwards one has answered
  at most. It speaks of `Ended`, the evaluations that have ended, which is the
  history plus the one whose text is still being parsed: the machine is spent
  before the evaluation is recorded.

`JavaBindingProofs`
* `TypeCorrect`: `[]TypeOK`.
* `DeletedInTurn`: `[]ObjectLives`, from `LifeInv`. A native method other than
  `cleanup` holds an object that lives, since the program has not finished with
  it. After that only `cleanup` runs: as long as no two threads were in `destroy`
  at once, the one that is there alone may change the pointer, and the next one
  deletes null; once two were, the pointer still dangles only while one of them is
  about to clear it. The proof sorts the steps into kinds and shows the
  invariant for the kinds.
* `CleanupFreesTheRest`: `[]OnlyReplacedLeak`, from `LeakInv`, which accounts for
  every C++ object (pointed to, replaced or cut off, about to be stored, or deleted) and
  says that two threads in `initialize` hold different ones.
* `ResultsInOrder`: `[]ListFollowsFiles`, from `ListInv`: while a call is in the
  loop over the files its results are of files before the current one, and the
  text of `runProvider` is one object, which parses.

`ResultCodecProofs`
* `TypeCorrect`: `[]TypeOK`, which includes that a result holds floats.
* `AllArrives`, `NoHalfResults`, `JavaIsTold`: `[]DetectionsArrive`,
  `[]AllOrNothing` and `[]RelayedFaithfully`, from `CodecInv`, which says at
  each point what the text and the result are made of. `AllArrives` rests on
  the lemma that reading what was written rounds and changes nothing else;
  `JavaIsTold` applies it once more to a result that is already rounded, which
  is why `ToFloat` has to be idempotent.

`GetoptProofs`
* `PermuteSwaps`: `permute_args` exchanges two neighbouring blocks of any
  lengths. A cycle of exchanges advances by the length of the second block,
  round both; `CycleLength` says that it comes back after `cyclelen` advances, the
  sum of the lengths divided by their greatest common divisor, and not before,
  so that the cycles are disjoint (`StopsDiffer`) and reach every place (`StopsCover`).
  `Rotated` is the invariant of the exchanges.
* `SpelledIsMeant`: what the search of the table of long options returns is what
  `getopt(3)` says of exact names and abbreviations. It needs that a name begins
  itself, which `LongsAssumption` says.
* `StopArranges`: when `getopt_long` returns -1, the operands are last. `Scanning`
  is the invariant: the tokens `getopt_long` is done with are laid out with the
  operands skipped so far in one block, from `nonopt_start` on if there is one,
  and options and arguments around it, all in their order, and the others are
  where they were typed. Orders are expressed by `Rank`, the number of options
  (or operands) up to a token.

`CliProofs`
* `OperandsAreLast`, `ProvidersListed`: `[]OperandsLast` and `[]ListedAsAsked`,
  from `LineInv`, which has `Scanning` while main is in the loop and says that no
  token before the one it is at has listed the providers.
* `AnswersAsAsked`: `[]AsAsked`, from `LineInv` and `AskInv`: in the loop, main's
  variables hold what the options returned so far were for (`OptIs`, of the
  options in `Seen`, which `getopt_long` returns in the order they were typed);
  after it, the evaluations made and the files left are what is wanted, and what
  has been written is what succeeded, if the output opens. On a line of the documented form no option
  is refused, none ends the process, and the last token of `argv` is the operand.

The lines are arbitrary, and so are lengths: where a proof needs induction, over
the exchanges of `permute_args` or the tokens of a line, it is over a set of
natural numbers, by `LeastOf`, which rests on the cardinality of intervals. The
recursive functions `PermuteArgs` and `Roles` are defined everywhere by
`Recursion`.

Only model-checked: the liveness properties, `CallReturns`, `EvalReturns`,
`RequestReturns`, `MethodReturns` and `ProcessEnds`, since the prover has neither
fairness nor `ENABLED`, and the four properties that runs show to be violated.
Every other property of a run is a theorem.

## Not modelled

Of the option parser: the entry points and option strings BIQT does not use
(`getopt`, `getopt_long_only`, `-W`, a leading `-` or `+`), and a `-` behind a
letter in one token. Of the Java binding: null arguments, and `NewStringUTF` and
`NewObject` that run out of memory. Of the command line: a write that fails
half-way, on a full disk for instance; an output file either opens or does not.
Left out for good: the Windows replacements
of `dirent` and `libgen`, which pass on what the system returns; `NativeUtils`,
which copies a file; the set-up script for providers; the accessors of class
`Provider` that nothing calls; build and container files. File names, messages
and logging are abstracted away everywhere; values of metrics everywhere but in
`ResultCodec`. Running out of memory is modelled only where the code tests for
it. Nothing of the program is persistent and it sends no messages, so there is
no restart and no lost or reordered message to model.

Two hazards have no property. The native `getProviders` calls JNI while an
exception is pending: JNI leaves open what comes of that, so a property could
only repeat it. And the template's `evaluate` returns a result whose
code nothing has assigned: what a provider's author makes of the template is not
in this code, and the model lets a native provider return any code.

With both `-m` and `-p` on one line, or without a file, nothing says what `biqt`
ought to do: the model does what `main` does, and `AsAsked` is silent. A thread of
a Java provider that never ends holds its evaluation up for ever; the liveness
properties assume that those threads end.

## Plan

Done: `Registry` with `Catalogue`, `Evaluation`, `JvmBridge`, `Process`,
`JavaBinding`, `Cli` with `Getopt`, `ResultCodec`, and proofs of every property that
is not a liveness property. The order was that of dependence: everything else
rests on the list of providers and on what an evaluation returns.

