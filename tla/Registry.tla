------------------------------ MODULE Registry -------------------------------
(***************************************************************************)
(* The provider registry of BIQT objects: construction, the directory scan, *)
(* loading a provider (ProviderInfo's constructor), what each failure of it *)
(* leaves behind, getProviders from several threads and the destructor.     *)
(* Source: src/cxx/BIQT.cpp, src/cxx/BIQT.h.                                *)
(*                                                                          *)
(* What is abstracted: a provider is the number of its directory in the     *)
(* order std::set<std::string> iterates; a directory is what loading it can *)
(* tell apart (an entry record); a dlopen reference is an index of the      *)
(* sequence "handles", and dlclose marks it closed.                         *)
(***************************************************************************)
EXTENDS Integers, Sequences, FiniteSets

CONSTANTS
    Threads,        \* threads of the host program
    Objects,        \* identities of BIQT objects
    NoObject,       \* not an object
    NumLibs,        \* directories under <modulePath>/providers
    Entries,        \* what such a directory may hold, see EntryType
    JavaSupport,    \* built with BIQT_JAVA_SUPPORT?
    DiskChanges,    \* may an installation be changed under a running program?
    MaxOpens        \* bound: no call starts once this many dlopens were made

Libs == 1..NumLibs

(* dir: readdir lists it; so: the shared object is missing, there but       *)
(* refused by dlopen, or fine; desc: the descriptor cannot be opened, is    *)
(* not JSON, is JSON but no object, has a field asString refuses, or names  *)
(* a native or a Java provider; eval: the object exports provider_eval.     *)
EntryType ==
    [dir : BOOLEAN,
     so : {"none", "broken", "ok"},
     desc : {"missing", "malformed", "notObject", "illTyped", "native", "java"},
     eval : BOOLEAN]

ASSUME LibsAssumption == NumLibs \in Nat
ASSUME NoObjectAssumption == NoObject \notin Objects
ASSUME FlagsAssumption == JavaSupport \in BOOLEAN /\ DiskChanges \in BOOLEAN
ASSUME BoundAssumption == MaxOpens \in Nat
ASSUME EntriesAssumption ==
    /\ Entries \subseteq EntryType
    /\ \A e \in Entries : ~e.dir => e.so = "none" /\ e.desc = "missing"

VARIABLES
    disk,           \* disk[l]: the entry of directory l
    home,           \* environment variable BIQT_HOME
    allowLocal,     \* is BIQT_ALLOW_LOCAL_PROVIDERS set?
    phase,          \* phase[o]: "none", "building", "live" or "dead"
    path,           \* path[o]: the field modulePath
    providers,      \* providers[o]: the field providers
    handles,        \* every dlopen reference obtained so far
    call,           \* call[t]: the constructor or getProviders t is in
    answer,         \* answer[t]: what t's last getProviders returned
    raced,          \* objects whose vector two threads touched unsynchronised
    born            \* history: objects whose constructor loaded a provider

vars == <<disk, home, allowLocal, phase, path, providers, handles, call,
          answer, raced, born>>

(* BIQT_HOME: not set, set to "", "." or a directory.                       *)
Unset == "unset"
Empty == ""
Homes == {Unset, Empty, ".", "/opt/biqt"}

(* handle = 0 is the null handle of a Java provider without shared object.  *)
ProviderType == [lib : Libs, handle : Nat]
HandleType == [lib : Libs, open : BOOLEAN]
CallRecord == [pc : {"idle", "sethome", "scan", "load", "threw"},
               obj : Objects \cup {NoObject},
               todo : SUBSET Libs]
CallType == {c \in CallRecord : c.pc # "idle" => c.obj \in Objects}

Idle == [pc |-> "idle", obj |-> NoObject, todo |-> {}]
LibsOf(s) == {s[i].lib : i \in DOMAIN s}

(* Another thread is between the emptiness test and the end of the loop of  *)
(* getProviders on the same object.                                         *)
InLoop(t, o) == call[t].obj = o /\ call[t].pc \in {"scan", "load"}
Contended(t, o) == \E u \in Threads \ {t} : InLoop(u, o)

-----------------------------------------------------------------------------
(* What ProviderInfo's constructor makes of an entry.                       *)

IsJava(e) == JavaSupport /\ e.desc = "java"

(* Mutant of Loads: the test of dlsym's result is forgotten.                *)
LoadsWithoutEvaluator(e) ==
    /\ e.so # "broken"
    /\ \/ IsJava(e) /\ home # Unset
       \/ ~IsJava(e) /\ e.desc \in {"native", "java"} /\ e.so = "ok"

(* The constructor completes and the provider is registered.                *)
Loads(e) ==
    /\ e.so # "broken"
    /\ \/ IsJava(e) /\ home # Unset
       \/ ~IsJava(e) /\ e.desc \in {"native", "java"} /\ e.so = "ok" /\ e.eval

(* An exception that is no std::runtime_error: jsoncpp's, for a descriptor  *)
(* that is not JSON or has an ill-typed field, and std::logic_error from    *)
(* getClassPath's std::string(getenv("BIQT_HOME")) on a null pointer.       *)
Throws(e) ==
    /\ e.so # "broken"
    /\ \/ e.desc \in {"malformed", "illTyped"}
       \/ IsJava(e) /\ home = Unset

(* A std::runtime_error, which the loop catches, prints and steps over.     *)
Rejected(e) == ~Loads(e) /\ ~Throws(e)

(* Mutant of Opened: a library that is loaded already is not opened again.  *)
OpenedOnce(l) ==
    IF /\ disk[l].so = "ok"
       /\ \A h \in DOMAIN handles : handles[h] # [lib |-> l, open |-> TRUE]
    THEN Append(handles, [lib |-> l, open |-> TRUE])
    ELSE handles

(* The reference dlopen adds when it succeeds, which is before anything     *)
(* else can fail.  Nothing closes it when the constructor throws later on.  *)
Opened(l) ==
    IF disk[l].so = "ok"
    THEN Append(handles, [lib |-> l, open |-> TRUE])
    ELSE handles

-----------------------------------------------------------------------------
Init ==
    /\ disk \in [Libs -> Entries]
    /\ home \in Homes
    /\ allowLocal \in BOOLEAN
    /\ phase = [o \in Objects |-> "none"]
    /\ path = [o \in Objects |-> Empty]
    /\ providers = [o \in Objects |-> <<>>]
    /\ handles = <<>>
    /\ call = [t \in Threads |-> Idle]
    /\ answer = [t \in Threads |-> [obj |-> NoObject, libs |-> {}]]
    /\ raced = {}
    /\ born = {}

(* Mutant of Construct: BIQT_ALLOW_LOCAL_PROVIDERS is tested first.         *)
ConstructLocalFirst(t, o) ==
    /\ call[t].pc = "idle"
    /\ phase[o] = "none"
    /\ Len(handles) < MaxOpens
    /\ phase' = [phase EXCEPT ![o] = "building"]
    /\ path' = [path EXCEPT ![o] =
          IF allowLocal THEN "." ELSE IF home = Unset THEN Empty ELSE home]
    /\ call' = [call EXCEPT ![t] =
          [pc |-> IF home = Unset /\ allowLocal THEN "sethome" ELSE "scan",
           obj |-> o, todo |-> {}]]
    /\ UNCHANGED <<disk, home, allowLocal, providers, handles, answer, raced,
                   born>>

(* BIQT::BIQT up to its call of getProviders; the vector is empty.          *)
Construct(t, o) ==
    /\ call[t].pc = "idle"
    /\ phase[o] = "none"
    /\ Len(handles) < MaxOpens
    /\ phase' = [phase EXCEPT ![o] = "building"]
    /\ path' = [path EXCEPT ![o] = IF home = Unset THEN Empty ELSE home]
    /\ call' = [call EXCEPT ![t] =
          [pc |-> IF home = Unset /\ allowLocal THEN "sethome" ELSE "scan",
           obj |-> o, todo |-> {}]]
    /\ UNCHANGED <<disk, home, allowLocal, providers, handles, answer, raced,
                   born>>

(* setenv("BIQT_HOME", ".", 1), after getenv found it unset: another thread *)
(* may have constructed its object in between.                              *)
SetHome(t) ==
    /\ call[t].pc = "sethome"
    /\ home' = "."
    /\ path' = [path EXCEPT ![call[t].obj] = "."]
    /\ call' = [call EXCEPT ![t].pc = "scan"]
    /\ UNCHANGED <<disk, allowLocal, phase, providers, handles, answer, raced,
                   born>>

(* getProviders on a registry that is not empty: a copy of the vector.      *)
CopyList(t, o) ==
    /\ call[t].pc = "idle"
    /\ phase[o] = "live"
    /\ providers[o] # <<>>
    /\ \/ raced' = raced
       \/ Contended(t, o) /\ raced' = raced \cup {o}
    /\ answer' = [answer EXCEPT ![t] =
          [obj |-> o, libs |-> LibsOf(providers[o])]]
    /\ UNCHANGED <<disk, home, allowLocal, phase, path, providers, handles,
                   call, born>>

(* Mutant of Rescan: the early return of a non-empty registry is dropped.   *)
RescanAlways(t, o) ==
    /\ call[t].pc = "idle"
    /\ phase[o] = "live"
    /\ Len(handles) < MaxOpens
    /\ call' = [call EXCEPT ![t] = [pc |-> "scan", obj |-> o, todo |-> {}]]
    /\ UNCHANGED <<disk, home, allowLocal, phase, path, providers, handles,
                   answer, raced, born>>

(* getProviders on an empty registry: scan again.                           *)
Rescan(t, o) ==
    /\ call[t].pc = "idle"
    /\ phase[o] = "live"
    /\ providers[o] = <<>>
    /\ Len(handles) < MaxOpens
    /\ call' = [call EXCEPT ![t] = [pc |-> "scan", obj |-> o, todo |-> {}]]
    /\ UNCHANGED <<disk, home, allowLocal, phase, path, providers, handles,
                   answer, raced, born>>

(* Mutant of Scan: "." and ".." (here 0) are taken for providers as well.   *)
ScanDotEntries(t) ==
    /\ call[t].pc = "scan"
    /\ call' = [call EXCEPT
          ![t].pc = "load",
          ![t].todo = IF path[call[t].obj] = Empty THEN {}
                      ELSE {0} \cup {l \in Libs : disk[l].dir}]
    /\ UNCHANGED <<disk, home, allowLocal, phase, path, providers, handles,
                   answer, raced, born>>

(* providerLibs: the names are read once, their contents one by one later.  *)
Scan(t) ==
    /\ call[t].pc = "scan"
    /\ call' = [call EXCEPT
          ![t].pc = "load",
          ![t].todo = IF path[call[t].obj] = Empty THEN {}
                      ELSE {l \in Libs : disk[l].dir}]
    /\ UNCHANGED <<disk, home, allowLocal, phase, path, providers, handles,
                   answer, raced, born>>

(* Mutant of Iteration: the libraries come in any order.                    *)
IterationUnordered(t, l) == call[t].pc = "load" /\ l \in call[t].todo

(* The iteration of the loop for library l, the smallest of the set.        *)
Iteration(t, l) ==
    /\ call[t].pc = "load"
    /\ l \in call[t].todo
    /\ \A m \in call[t].todo : l <= m

(* The provider is loaded and pushed.  When another thread is in the loop   *)
(* on the same vector the two push_backs are a data race: they may come out *)
(* one after the other, or corrupt the vector.                              *)
Push(t, l) ==
    LET o == call[t].obj
    IN  /\ Iteration(t, l)
        /\ Loads(disk[l])
        /\ \/ raced' = raced
           \/ Contended(t, o) /\ raced' = raced \cup {o}
        /\ handles' = Opened(l)
        /\ providers' = [providers EXCEPT ![o] = Append(@,
              [lib |-> l,
               handle |-> IF disk[l].so = "ok" THEN Len(handles) + 1 ELSE 0])]
        /\ call' = [call EXCEPT ![t].todo = @ \ {l}]
        /\ UNCHANGED <<disk, home, allowLocal, phase, path, answer, born>>

(* Mutants of Skip: the catch is around the whole loop; the provider is     *)
(* tried again.                                                             *)
SkipTheRest(t, l) ==
    /\ Iteration(t, l)
    /\ Rejected(disk[l])
    /\ handles' = Opened(l)
    /\ call' = [call EXCEPT ![t].todo = {}]
    /\ UNCHANGED <<disk, home, allowLocal, phase, path, providers, answer,
                   raced, born>>

SkipRetries(t, l) ==
    /\ Iteration(t, l)
    /\ Rejected(disk[l])
    /\ handles' = handles
    /\ call' = [call EXCEPT ![t].pc = "scan"]
    /\ UNCHANGED <<disk, home, allowLocal, phase, path, providers, answer,
                   raced, born>>

(* catch (std::runtime_error e): the provider is skipped.                   *)
Skip(t, l) ==
    /\ Iteration(t, l)
    /\ Rejected(disk[l])
    /\ handles' = Opened(l)
    /\ call' = [call EXCEPT ![t].todo = @ \ {l}]
    /\ UNCHANGED <<disk, home, allowLocal, phase, path, providers, answer,
                   raced, born>>

(* Any other exception leaves getProviders.  Leaving BIQT's constructor it  *)
(* destroys the vector, but not the ProviderInfo objects it points to.      *)
Throw(t, l) ==
    LET o == call[t].obj
    IN  /\ Iteration(t, l)
        /\ Throws(disk[l])
        /\ handles' = Opened(l)
        /\ IF phase[o] = "building"
           THEN /\ phase' = [phase EXCEPT ![o] = "dead"]
                /\ providers' = [providers EXCEPT ![o] = <<>>]
           ELSE UNCHANGED <<phase, providers>>
        /\ call' = [call EXCEPT ![t].pc = "threw", ![t].todo = {}]
        /\ UNCHANGED <<disk, home, allowLocal, path, answer, raced, born>>

(* The host catches it and goes on.                                         *)
Catch(t) ==
    /\ call[t].pc = "threw"
    /\ call' = [call EXCEPT ![t] = Idle]
    /\ UNCHANGED <<disk, home, allowLocal, phase, path, providers, handles,
                   answer, raced, born>>

(* The loop is over: the constructor has its object, getProviders returns.  *)
Finish(t) ==
    LET o == call[t].obj
    IN  /\ call[t].pc = "load"
        /\ call[t].todo = {}
        /\ IF phase[o] = "building"
           THEN /\ phase' = [phase EXCEPT ![o] = "live"]
                /\ born' = IF providers[o] # <<>> THEN born \cup {o} ELSE born
                /\ UNCHANGED answer
           ELSE /\ answer' = [answer EXCEPT ![t] =
                      [obj |-> o, libs |-> LibsOf(providers[o])]]
                /\ UNCHANGED <<phase, born>>
        /\ call' = [call EXCEPT ![t] = Idle]
        /\ UNCHANGED <<disk, home, allowLocal, path, providers, handles,
                       raced>>

(* Mutants of Destroy: everything loaded from the object's libraries is     *)
(* closed; nothing is closed.                                               *)
DestroyByLibrary(t, o) ==
    /\ call[t].pc = "idle"
    /\ phase[o] = "live"
    /\ ~Contended(t, o)
    /\ phase' = [phase EXCEPT ![o] = "dead"]
    /\ providers' = [providers EXCEPT ![o] = <<>>]
    /\ handles' = [h \in DOMAIN handles |->
          IF handles[h].lib \in LibsOf(providers[o])
          THEN [handles[h] EXCEPT !.open = FALSE]
          ELSE handles[h]]
    /\ UNCHANGED <<disk, home, allowLocal, path, call, answer, raced, born>>

DestroyKeepsHandles(t, o) ==
    /\ call[t].pc = "idle"
    /\ phase[o] = "live"
    /\ ~Contended(t, o)
    /\ phase' = [phase EXCEPT ![o] = "dead"]
    /\ providers' = [providers EXCEPT ![o] = <<>>]
    /\ UNCHANGED <<disk, home, allowLocal, path, handles, call, answer, raced,
                   born>>

(* BIQT::~BIQT deletes every ProviderInfo, which closes its handle.  The    *)
(* owner does so only when no call on the object is in progress.            *)
Destroy(t, o) ==
    /\ call[t].pc = "idle"
    /\ phase[o] = "live"
    /\ ~Contended(t, o)
    /\ phase' = [phase EXCEPT ![o] = "dead"]
    /\ providers' = [providers EXCEPT ![o] = <<>>]
    /\ handles' = [h \in DOMAIN handles |->
          IF \E i \in DOMAIN providers[o] : providers[o][i].handle = h
          THEN [handles[h] EXCEPT !.open = FALSE]
          ELSE handles[h]]
    /\ UNCHANGED <<disk, home, allowLocal, path, call, answer, raced, born>>

(* Somebody installs, breaks, mends or removes a provider.                  *)
Reinstall(l, e) ==
    /\ DiskChanges
    /\ disk' = [disk EXCEPT ![l] = e]
    /\ UNCHANGED <<home, allowLocal, phase, path, providers, handles, call,
                   answer, raced, born>>

(* What a call in progress does next.                                       *)
Step(t) ==
    \/ SetHome(t)
    \/ Scan(t)
    \/ \E l \in Libs : Push(t, l) \/ Skip(t, l) \/ Throw(t, l)
    \/ Finish(t)

(* After a data race anything may happen, so nothing is said of it.         *)
Next ==
    /\ raced = {}
    /\ \/ \E t \in Threads :
             \/ Step(t)
             \/ Catch(t)
             \/ \E o \in Objects :
                   Construct(t, o) \/ CopyList(t, o) \/ Rescan(t, o)
                       \/ Destroy(t, o)
       \/ \E l \in Libs, e \in Entries : Reinstall(l, e)

Spec == Init /\ [][Next]_vars

(* A thread that is in a call is scheduled again and again.                 *)
FairSpec == Spec /\ \A t \in Threads : WF_vars(raced = {} /\ Step(t))

-----------------------------------------------------------------------------
(* Properties.                                                              *)

(* Every variable keeps its type.                                           *)
TypeOK ==
    /\ disk \in [Libs -> EntryType]
    /\ home \in Homes
    /\ allowLocal \in BOOLEAN
    /\ phase \in [Objects -> {"none", "building", "live", "dead"}]
    /\ path \in [Objects -> Homes]
    /\ providers \in [Objects -> Seq(ProviderType)]
    /\ handles \in Seq(HandleType)
    /\ call \in [Threads -> CallType]
    /\ answer \in [Threads -> [obj : Objects \cup {NoObject},
                               libs : SUBSET Libs]]
    /\ raced \subseteq Objects
    /\ born \subseteq Objects

(* A provider in the registry of an object holds an open reference to its   *)
(* own library: no rescan, failed load or destruction of another object of  *)
(* the process unloads the code its evaluator points into.                  *)
NoDanglingEvaluator ==
    \A o \in Objects : \A i \in DOMAIN providers[o] :
        LET p == providers[o][i]
        IN  p.handle # 0 =>
                /\ p.handle \in DOMAIN handles
                /\ handles[p.handle] = [lib |-> p.lib, open |-> TRUE]

(* No two registered providers, of one object or of two, hold the same      *)
(* reference: the destructors never dlclose one reference twice.            *)
SoleOwner ==
    \A o1, o2 \in Objects :
        \A i \in DOMAIN providers[o1], j \in DOMAIN providers[o2] :
            /\ providers[o1][i].handle = providers[o2][j].handle
            /\ providers[o1][i].handle # 0
            => o1 = o2 /\ i = j

(* An object that searches a directory searches the one BIQT_HOME names at  *)
(* that time, although the constructor reads the variable, may set it and   *)
(* scans in separate steps that other constructors interleave with.         *)
(* getClassPath relies on it: it reads BIQT_HOME again, and makes a string  *)
(* of the result without testing it for null.                               *)
PathIsHome ==
    \A o \in Objects : path[o] # Empty => path[o] = home /\ home # Unset

(* Threads may share an object whose constructor loaded a provider: no      *)
(* interleaving of their calls races on its vector.                         *)
RaceFreeOnceLoaded == raced \cap born = {}

(* A registry lists providers in directory order and each one once, also    *)
(* when calls that found it empty scanned again.                            *)
Ordered(s) == \A i, j \in DOMAIN s : i < j => s[i].lib < s[j].lib
OrderedOnceLoaded == \A o \in born : Ordered(providers[o])

(* With an installation nobody changes, an object that no call is working   *)
(* on lists exactly the providers that are usable, whatever was wrong with  *)
(* their neighbours and whoever asked before.                               *)
Usable(e) ==
    /\ e.dir
    /\ IF JavaSupport /\ e.desc = "java"
       THEN e.so # "broken"
       ELSE e.desc \in {"native", "java"} /\ e.so = "ok" /\ e.eval

Quiet(o) == \A t \in Threads : ~InLoop(t, o)

CompleteWhenQuiet ==
    ~DiskChanges =>
        \A o \in Objects :
            phase[o] = "live" /\ path[o] # Empty /\ Quiet(o) =>
                LibsOf(providers[o]) = {l \in Libs : Usable(disk[l])}

(* References nobody owns.  In an installation nobody changes they come     *)
(* from failed loads alone: of a library that is itself not usable, or,     *)
(* when an exception ended a constructor, of a library before the one whose *)
(* descriptor threw.                                                        *)
Owned(h) == \E o \in Objects : \E i \in DOMAIN providers[o] :
                providers[o][i].handle = h
Orphaned(h) == handles[h].open /\ ~Owned(h)
OnlyFailuresLeak ==
    ~DiskChanges =>
        \A h \in DOMAIN handles : Orphaned(h) =>
            \/ ~Usable(disk[handles[h].lib])
            \/ \E l \in Libs : /\ l > handles[h].lib
                              /\ disk[l].desc \in {"malformed", "illTyped"}

(* A reference is closed only by the destructor of the object that owns it: *)
(* a step that closes it takes the owner from live to dead.                 *)
ClosedByOwner ==
    [][\A h \in DOMAIN handles :
          handles[h].open /\ ~handles'[h].open =>
              \E o \in Objects :
                  /\ \E i \in DOMAIN providers[o] : providers[o][i].handle = h
                  /\ phase[o] = "live" /\ phase'[o] = "dead"]_vars

(* Once a constructor loaded something, the list is frozen until the object *)
(* is destroyed: installing or removing providers changes no running object.*)
FrozenOnceLoaded ==
    [][\A o \in born : phase'[o] = "live" => providers'[o] = providers[o]]_vars

(* A constructor or getProviders that began ends, normally or with an       *)
(* exception, although other threads may change the installation meanwhile. *)
CallReturns ==
    \A t \in Threads :
        call[t].pc \in {"sethome", "scan", "load"}
            ~> call[t].pc \in {"idle", "threw"} \/ raced # {}

(* "Creates a vector of application providers and stores it in the object.  *)
(* @return The newly created vector" (BIQT.cpp): getProviders, and the      *)
(* constructor that calls it, return.                                       *)
GetProvidersReturns == \A t \in Threads : call[t].pc # "threw"

-----------------------------------------------------------------------------
(* Strengthenings: what makes the invariants above inductive.  RegistryProofs *)
(* proves them for every value of the constants.                            *)

Busy(t) == call[t].pc \in {"sethome", "scan", "load"}

(* Why no constructor sees another directory than BIQT_HOME: the variable   *)
(* is written only while it is unset or was just written by another         *)
(* constructor with the same value.                                         *)
HomeInv ==
    /\ PathIsHome
    /\ \A t \in Threads : call[t].pc = "sethome" => home \in {Unset, "."}

(* Why there is no race: an object under construction belongs to the thread *)
(* that constructs it, and nobody loops over an object that was born with   *)
(* providers.                                                               *)
RaceInv ==
    /\ \A t \in Threads : Busy(t) =>
          /\ call[t].obj \in Objects
          /\ phase[call[t].obj] \in {"building", "live"}
    /\ \A t, u \in Threads :
          t # u /\ Busy(t) /\ Busy(u) /\ call[t].obj = call[u].obj =>
              phase[call[t].obj] = "live"
    /\ \A t \in Threads : call[t].pc = "sethome" =>
          phase[call[t].obj] = "building"
    /\ \A o \in born :
          /\ phase[o] \in {"live", "dead"}
          /\ phase[o] = "live" => providers[o] # <<>>
          /\ \A t \in Threads : Busy(t) => call[t].obj # o
    /\ RaceFreeOnceLoaded

(* Why a list is in directory order: a constructor appends to a list that   *)
(* nobody else touches, and what it has still to load comes after it.       *)
OrderInv ==
    /\ \A o \in Objects : phase[o] = "none" => providers[o] = <<>>
    /\ \A t \in Threads :
          LET o == call[t].obj
          IN  Busy(t) /\ phase[o] = "building" =>
                 IF call[t].pc = "load"
                 THEN /\ Ordered(providers[o])
                      /\ \A l \in LibsOf(providers[o]), m \in call[t].todo : l < m
                 ELSE providers[o] = <<>>
    /\ OrderedOnceLoaded

(* Why a list is complete: of the names a scan read, those behind the loop  *)
(* are listed if they are usable and did not end the constructor; a second  *)
(* scan meets the same installation and so finds nothing.                   *)
UsableLibs == {l \in Libs : Usable(disk[l])}
Passed(o, todo) ==
    \A l \in Libs \ todo : disk[l].dir =>
        /\ Usable(disk[l]) => l \in LibsOf(providers[o])
        /\ disk[l].so = "broken" \/ disk[l].desc \notin {"malformed", "illTyped"}

ListComplete(o) ==
    /\ LibsOf(providers[o]) \subseteq UsableLibs
    /\ path[o] = Empty => providers[o] = <<>>
    /\ phase[o] = "live" /\ path[o] # Empty => Passed(o, {})

CallComplete(t) ==
    LET o == call[t].obj
    IN  Busy(t) =>
           /\ phase[o] = "live" => providers[o] = <<>>
           /\ call[t].pc = "load" =>
                 /\ \A l \in call[t].todo : disk[l].dir /\ path[o] # Empty
                 /\ path[o] # Empty => Passed(o, call[t].todo)

CompleteInv ==
    ~DiskChanges => /\ \A o \in Objects : ListComplete(o)
                    /\ \A t \in Threads : CallComplete(t)

-----------------------------------------------------------------------------
(* The registry implements the catalogue.  An object is born for the        *)
(* catalogue when its constructor has returned, and while a call scans for  *)
(* an object the list is what it was when the scan began, which is empty.   *)

AbsState ==
    [o \in Objects |->
        IF phase[o] = "live" THEN "live"
        ELSE IF phase[o] = "dead" THEN "gone" ELSE "unborn"]

AbsListed ==
    [o \in Objects |->
        IF phase[o] = "live" /\ Quiet(o) THEN LibsOf(providers[o]) ELSE {}]

Cat == INSTANCE Catalogue WITH state <- AbsState, listed <- AbsListed

(* An object used by one thread, or in an installation nobody changes, is a *)
(* catalogue: what getProviders answers is settled once, although loading   *)
(* takes many steps that may fail and other objects come and go.            *)
IsCatalogue == Cat!Spec
=============================================================================
