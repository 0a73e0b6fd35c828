--------------------------- MODULE RegistryProofs ----------------------------
(***************************************************************************)
(* Proofs about Registry, for any number of threads, objects and libraries, *)
(* any contents of the directories and with or without changes to them, and *)
(* that it implements Catalogue.                                            *)
(***************************************************************************)
EXTENDS Registry, TLAPS

(* What a load does to the references: it adds an open one or none.         *)
LEMMA OpenedType ==
    ASSUME TypeOK, NEW l \in Libs
    PROVE  /\ Opened(l) \in Seq(HandleType)
           /\ Len(Opened(l)) >= Len(handles)
           /\ DOMAIN handles \subseteq DOMAIN Opened(l)
           /\ \A h \in DOMAIN handles : Opened(l)[h] = handles[h]
           /\ disk[l].so = "ok" =>
                 /\ Len(handles) + 1 \in DOMAIN Opened(l)
                 /\ Opened(l)[Len(handles) + 1] = [lib |-> l, open |-> TRUE]
<1> DEFINE new == [lib |-> l, open |-> TRUE]
<1>1. handles \in Seq(HandleType) /\ new \in HandleType
      BY DEF TypeOK, HandleType
<1>2. /\ Append(handles, new) \in Seq(HandleType)
      /\ Len(Append(handles, new)) = Len(handles) + 1
      /\ \A h \in DOMAIN handles : Append(handles, new)[h] = handles[h]
      /\ Append(handles, new)[Len(handles) + 1] = new
  <2> HIDE DEF new
  <2> QED BY <1>1
<1>3. Opened(l) = IF disk[l].so = "ok" THEN Append(handles, new) ELSE handles
      BY DEF Opened
<1> HIDE DEF new
<1>4. DOMAIN handles = 1..Len(handles) /\ Len(handles) \in Nat
      BY <1>1
<1>5. DOMAIN Append(handles, new) = 1..(Len(handles) + 1)
      BY <1>1, <1>2
<1>6. CASE disk[l].so = "ok"
      BY <1>2, <1>3, <1>4, <1>5, <1>6 DEF new
<1>7. CASE disk[l].so # "ok"
      BY <1>1, <1>3, <1>4, <1>7
<1> QED BY <1>6, <1>7

(* The variables keep their types.                                          *)
LEMMA TypeInit == Init => TypeOK
<1> SUFFICES ASSUME Init PROVE TypeOK
    OBVIOUS
<1>1. disk \in [Libs -> EntryType]
      BY EntriesAssumption DEF Init
<1>2. call \in [Threads -> CallType]
      BY DEF Init, CallType, CallRecord, Idle
<1>3. path \in [Objects -> Homes] /\ home \in Homes
      BY DEF Init, Homes, Empty
<1>4. answer \in [Threads -> [obj : Objects \cup {NoObject},
                             libs : SUBSET Libs]]
      BY DEF Init
<1>5. handles \in Seq(HandleType) /\ providers \in [Objects -> Seq(ProviderType)]
      BY DEF Init
<1> QED BY <1>1, <1>2, <1>3, <1>4, <1>5 DEF Init, TypeOK

(* What the steps of a call do to its record keeps the type of call.        *)
LEMMA CallType1 == TypeOK => call \in [Threads -> CallType]
BY DEF TypeOK

LEMMA CallUpdate ==
    ASSUME call \in [Threads -> CallType], NEW t \in Threads, NEW c \in CallType,
           call' = [call EXCEPT ![t] = c]
    PROVE  call' \in [Threads -> CallType]
OBVIOUS

LEMMA CallFields ==
    ASSUME call \in [Threads -> CallType], NEW t \in Threads,
           call[t].pc # "idle",
           NEW ls \in SUBSET Libs,
           NEW pc \in {"sethome", "scan", "load", "threw"},
           \/ call' = [call EXCEPT ![t].pc = pc]
           \/ call' = [call EXCEPT ![t].pc = pc, ![t].todo = ls]
    PROVE  call' \in [Threads -> CallType]
BY DEF CallType, CallRecord

(* Nobody else's record changes, and the fields not named keep their value. *)
LEMMA CallFrame ==
    ASSUME call \in [Threads -> CallType], NEW t \in Threads, NEW pc, NEW ls,
           \/ call' = [call EXCEPT ![t].pc = pc]
           \/ call' = [call EXCEPT ![t].todo = ls]
           \/ call' = [call EXCEPT ![t].pc = pc, ![t].todo = ls]
    PROVE  /\ \A u \in Threads : u # t => call'[u] = call[u]
           /\ call'[t].obj = call[t].obj
           /\ call'[t].pc \in {pc, call[t].pc}
<1>1. call[t] \in CallRecord
      BY DEF CallType
<1> QED BY <1>1 DEF CallRecord

LEMMA CallTodo ==
    ASSUME call \in [Threads -> CallType], NEW t \in Threads, NEW l,
           call' = [call EXCEPT ![t].todo = @ \ {l}]
    PROVE  call' \in [Threads -> CallType]
BY DEF CallType, CallRecord

LEMMA CallObject ==
    ASSUME TypeOK, NEW t \in Threads, call[t].pc # "idle"
    PROVE  call[t].obj \in Objects
BY CallType1 DEF CallType

LEMMA IdleType == Idle \in CallType
BY DEF Idle, CallType, CallRecord

LEMMA LibsOfType ==
    ASSUME NEW s \in Seq(ProviderType)
    PROVE  LibsOf(s) \subseteq Libs
<1>1. \A i \in DOMAIN s : s[i] \in ProviderType
      OBVIOUS
<1>2. \A p \in ProviderType : p.lib \in Libs
      BY DEF ProviderType
<1> QED BY <1>1, <1>2 DEF LibsOf

LEMMA TypeStep == TypeOK /\ [Next]_vars => TypeOK'
<1> SUFFICES ASSUME TypeOK, [Next]_vars PROVE TypeOK'
    OBVIOUS
<1>1. ASSUME NEW t \in Threads, NEW o \in Objects, Construct(t, o)
      PROVE  TypeOK'
  <2> DEFINE c == [pc |-> IF home = Unset /\ allowLocal THEN "sethome" ELSE "scan",
                   obj |-> o, todo |-> {}]
  <2>1. c \in CallType /\ call' = [call EXCEPT ![t] = c]
        BY <1>1 DEF Construct, CallType, CallRecord
  <2> HIDE DEF c
  <2>2. call' \in [Threads -> CallType]
        BY <2>1, CallUpdate, CallType1
  <2>3. path' \in [Objects -> Homes]
        BY <1>1 DEF TypeOK, Construct, Homes, Empty
  <2> QED BY <1>1, <2>2, <2>3 DEF TypeOK, Construct
<1>2. ASSUME NEW t \in Threads, SetHome(t) PROVE TypeOK'
  <2>1. call' \in [Threads -> CallType]
        BY <1>2, CallFields, CallType1 DEF SetHome
  <2>2. path' \in [Objects -> Homes] /\ home' \in Homes
        BY <1>2 DEF TypeOK, SetHome, Homes
  <2> QED BY <1>2, <2>1, <2>2 DEF TypeOK, SetHome
<1>3. ASSUME NEW t \in Threads, NEW o \in Objects, CopyList(t, o)
      PROVE  TypeOK'
  <2>1. LibsOf(providers[o]) \subseteq Libs
        BY LibsOfType DEF TypeOK
  <2>2. raced' \subseteq Objects
        BY <1>3 DEF TypeOK, CopyList
  <2> QED BY <1>3, <2>1, <2>2 DEF TypeOK, CopyList
<1>4. ASSUME NEW t \in Threads, NEW o \in Objects, Rescan(t, o)
      PROVE  TypeOK'
  <2> DEFINE c == [pc |-> "scan", obj |-> o, todo |-> {}]
  <2>1. c \in CallType /\ call' = [call EXCEPT ![t] = c]
        BY <1>4 DEF Rescan, CallType, CallRecord
  <2> HIDE DEF c
  <2>2. call' \in [Threads -> CallType]
        BY <2>1, CallUpdate, CallType1
  <2> QED BY <1>4, <2>2 DEF TypeOK, Rescan
<1>5. ASSUME NEW t \in Threads, Scan(t) PROVE TypeOK'
  <2> DEFINE ls == IF path[call[t].obj] = Empty THEN {}
                   ELSE {l \in Libs : disk[l].dir}
  <2>1. ls \in SUBSET Libs
        OBVIOUS
  <2>2. /\ call[t].pc # "idle"
        /\ call' = [call EXCEPT ![t].pc = "load", ![t].todo = ls]
        BY <1>5 DEF Scan
  <2> HIDE DEF ls
  <2>3. call' \in [Threads -> CallType]
        BY <2>1, <2>2, CallFields, CallType1
  <2> QED BY <1>5, <2>3 DEF TypeOK, Scan
<1>6. ASSUME NEW t \in Threads, NEW l \in Libs, Push(t, l) PROVE TypeOK'
  <2> DEFINE o == call[t].obj
             p == [lib |-> l, handle |-> IF disk[l].so = "ok"
                                         THEN Len(handles) + 1 ELSE 0]
  <2>1. p \in ProviderType
        BY DEF TypeOK, ProviderType
  <2>2. providers' \in [Objects -> Seq(ProviderType)]
    <3>1. providers' = [providers EXCEPT ![o] = Append(@, p)]
          BY <1>6 DEF Push
    <3> HIDE DEF p, o
    <3>2. o \in Objects => Append(providers[o], p) \in Seq(ProviderType)
          BY <2>1 DEF TypeOK
    <3> QED BY <3>1, <3>2 DEF TypeOK
  <2>3. call' \in [Threads -> CallType]
        BY <1>6, CallTodo, CallType1 DEF Push
  <2>4. handles' \in Seq(HandleType)
        BY <1>6, OpenedType DEF Push
  <2>5. raced' \subseteq Objects
    <3>1. o \in Objects
          BY <1>6, CallObject DEF Push, Iteration
    <3>2. raced' = raced \/ raced' = raced \cup {o}
          BY <1>6 DEF Push
    <3> QED BY <3>1, <3>2 DEF TypeOK
  <2> QED BY <1>6, <2>2, <2>3, <2>4, <2>5 DEF TypeOK, Push
<1>7. ASSUME NEW t \in Threads, NEW l \in Libs, Skip(t, l) PROVE TypeOK'
  <2>1. call' \in [Threads -> CallType]
        BY <1>7, CallTodo, CallType1 DEF Skip
  <2>2. handles' \in Seq(HandleType)
        BY <1>7, OpenedType DEF Skip
  <2> QED BY <1>7, <2>1, <2>2 DEF TypeOK, Skip
<1>8. ASSUME NEW t \in Threads, NEW l \in Libs, Throw(t, l) PROVE TypeOK'
  <2>1. call' \in [Threads -> CallType]
        BY <1>8, CallFields, CallType1 DEF Throw, Iteration
  <2>2. handles' \in Seq(HandleType)
        BY <1>8, OpenedType DEF Throw
  <2>3. /\ phase' \in [Objects -> {"none", "building", "live", "dead"}]
        /\ providers' \in [Objects -> Seq(ProviderType)]
    <3>1. call[t].obj \in Objects
          BY <1>8, CallObject DEF Throw, Iteration
    <3>2. /\ phase' = phase
             \/ phase' = [phase EXCEPT ![call[t].obj] = "dead"]
          /\ providers' = providers
             \/ providers' = [providers EXCEPT ![call[t].obj] = <<>>]
          BY <1>8 DEF Throw
    <3>3. /\ phase \in [Objects -> {"none", "building", "live", "dead"}]
          /\ providers \in [Objects -> Seq(ProviderType)]
          BY DEF TypeOK
    <3>4. <<>> \in Seq(ProviderType)
          OBVIOUS
    <3>5. phase' \in [Objects -> {"none", "building", "live", "dead"}]
          BY <3>2, <3>3
    <3>6. providers' \in [Objects -> Seq(ProviderType)]
          BY <3>2, <3>3, <3>4
    <3> QED BY <3>5, <3>6
  <2> QED BY <1>8, <2>1, <2>2, <2>3 DEF TypeOK, Throw
<1>9. ASSUME NEW t \in Threads, Catch(t) PROVE TypeOK'
  <2>1. call' \in [Threads -> CallType]
        BY <1>9, IdleType, CallUpdate, CallType1 DEF Catch
  <2> QED BY <1>9, <2>1 DEF TypeOK, Catch
<1>10. ASSUME NEW t \in Threads, Finish(t) PROVE TypeOK'
  <2> DEFINE o == call[t].obj
  <2>1. o \in Objects
        BY <1>10, CallObject DEF Finish
  <2>2. call' \in [Threads -> CallType]
        BY <1>10, IdleType, CallUpdate, CallType1 DEF Finish
  <2>3. LibsOf(providers[o]) \subseteq Libs
        BY <2>1, LibsOfType DEF TypeOK
  <2>4. /\ phase' \in [Objects -> {"none", "building", "live", "dead"}]
        /\ born' \subseteq Objects
        BY <1>10, <2>1 DEF TypeOK, Finish
  <2>5. answer' \in [Threads -> [obj : Objects \cup {NoObject},
                               libs : SUBSET Libs]]
    <3> DEFINE a == [obj |-> o, libs |-> LibsOf(providers[o])]
    <3>1. a \in [obj : Objects \cup {NoObject}, libs : SUBSET Libs]
          BY <2>1, <2>3
    <3>2. answer' = answer \/ answer' = [answer EXCEPT ![t] = a]
          BY <1>10 DEF Finish
    <3> HIDE DEF a
    <3> QED BY <3>1, <3>2 DEF TypeOK
  <2> QED BY <1>10, <2>2, <2>4, <2>5 DEF TypeOK, Finish
<1>11. ASSUME NEW t \in Threads, NEW o \in Objects, Destroy(t, o)
       PROVE  TypeOK'
  <2>1. handles' \in Seq(HandleType)
    <3>1. handles \in Seq(HandleType)
          BY DEF TypeOK
    <3>2. /\ DOMAIN handles = 1..Len(handles)
          /\ Len(handles) \in Nat
          /\ \A h \in DOMAIN handles :
                /\ handles[h] \in HandleType
                /\ [handles[h] EXCEPT !.open = FALSE] \in HandleType
      <4>1. \A r \in HandleType : [r EXCEPT !.open = FALSE] \in HandleType
            BY DEF HandleType
      <4> QED BY <3>1, <4>1
    <3>3. handles' \in [1..Len(handles) -> HandleType]
          BY <1>11, <3>2 DEF Destroy
    <3> QED BY <3>2, <3>3
  <2>2. /\ phase' \in [Objects -> {"none", "building", "live", "dead"}]
        /\ providers' \in [Objects -> Seq(ProviderType)]
        BY <1>11 DEF TypeOK, Destroy
  <2> QED BY <1>11, <2>1, <2>2 DEF TypeOK, Destroy
<1>12. ASSUME NEW l \in Libs, NEW e \in Entries, Reinstall(l, e)
       PROVE  TypeOK'
  <2>1. e \in EntryType
        BY EntriesAssumption
  <2>2. disk' \in [Libs -> EntryType]
        BY <1>12, <2>1 DEF TypeOK, Reinstall
  <2> QED BY <1>12, <2>2 DEF TypeOK, Reinstall
<1>13. CASE UNCHANGED vars
       BY <1>13 DEF TypeOK, vars
<1> QED
    BY <1>1, <1>2, <1>3, <1>4, <1>5, <1>6, <1>7, <1>8, <1>9, <1>10, <1>11,
       <1>12, <1>13 DEF Next, Step

(* Registry's state always has its declared type.                           *)
THEOREM TypeCorrect == Spec => []TypeOK
BY TypeInit, TypeStep, PTL DEF Spec

-----------------------------------------------------------------------------
(* BIQT_HOME and the directory an object searches.                          *)

LEMMA HomeInit == Init => HomeInv
BY DEF Init, HomeInv, PathIsHome, Idle

LEMMA HomeStep == TypeOK /\ HomeInv /\ [Next]_vars => HomeInv'
<1> SUFFICES ASSUME TypeOK, HomeInv, [Next]_vars PROVE HomeInv'
    OBVIOUS
<1> DEFINE Waiting == {t \in Threads : call[t].pc = "sethome"}
<1>1. /\ call \in [Threads -> CallType]
      /\ path \in [Objects -> Homes]
      BY DEF TypeOK
(* It is enough that no step but Construct and SetHome touches path, home   *)
(* or the set of threads about to call setenv.                              *)
<1>2. ASSUME path' = path, home' = home,
             \A t \in Threads : call'[t].pc = "sethome" => call[t].pc = "sethome"
      PROVE  HomeInv'
      BY <1>2 DEF HomeInv, PathIsHome
<1>3. ASSUME NEW t \in Threads, NEW o \in Objects, Construct(t, o)
      PROVE  HomeInv'
  <2>1. \A u \in Threads : call'[u].pc = "sethome" =>
            call[u].pc = "sethome" \/ home = Unset
        BY <1>1, <1>3 DEF Construct
  <2>2. \A q \in Objects : path'[q] = path[q] \/ path'[q] = Empty
                              \/ (path'[q] = home /\ home # Unset)
        BY <1>1, <1>3 DEF Construct
  <2> QED BY <1>3, <2>1, <2>2 DEF HomeInv, PathIsHome, Construct
<1>4. ASSUME NEW t \in Threads, SetHome(t) PROVE HomeInv'
  <2>1. \A u \in Threads : call'[u].pc = "sethome" => call[u].pc = "sethome"
        BY <1>1, <1>4 DEF SetHome
  <2>2. \A q \in Objects : path'[q] = path[q] \/ path'[q] = "."
        BY <1>1, <1>4 DEF SetHome
  <2>3. home' = "." /\ home \in {Unset, "."}
        BY <1>4 DEF HomeInv, SetHome
  <2>4. \A q \in Objects : path[q] # Empty => path[q] = "."
        BY <2>3 DEF HomeInv, PathIsHome
  <2> QED BY <2>2, <2>3, <2>4 DEF HomeInv, PathIsHome, Unset, Empty
<1>5. ASSUME NEW t \in Threads, NEW o \in Objects,
             CopyList(t, o) \/ Rescan(t, o) \/ Destroy(t, o)
      PROVE  HomeInv'
      BY <1>1, <1>2, <1>5 DEF CopyList, Rescan, Destroy
<1>6. ASSUME NEW t \in Threads, NEW l \in Libs,
             Push(t, l) \/ Skip(t, l) \/ Throw(t, l)
      PROVE  HomeInv'
  <2>1. path' = path /\ home' = home
        BY <1>6 DEF Push, Skip, Throw
  <2>2. \A u \in Threads : call'[u].pc = "sethome" => call[u].pc = "sethome"
    <3>1. \/ call' = [call EXCEPT ![t].todo = call[t].todo \ {l}]
          \/ call' = [call EXCEPT ![t].pc = "threw", ![t].todo = {}]
          BY <1>1, <1>6 DEF Push, Skip, Throw
    <3>2. /\ \A u \in Threads : u # t => call'[u] = call[u]
          /\ call'[t].pc \in {"threw", call[t].pc}
      <4>1. CASE call' = [call EXCEPT ![t].todo = call[t].todo \ {l}]
            BY <1>1, <4>1, CallFrame
      <4>2. CASE call' = [call EXCEPT ![t].pc = "threw", ![t].todo = {}]
            BY <1>1, <4>2, CallFrame
      <4> QED BY <3>1, <4>1, <4>2
    <3> QED BY <3>2
  <2> QED BY <1>2, <2>1, <2>2
<1>7. ASSUME NEW t \in Threads, Scan(t) \/ Catch(t) \/ Finish(t)
      PROVE  HomeInv'
  <2>1. path' = path /\ home' = home
        BY <1>7 DEF Scan, Catch, Finish
  <2>2. CASE Scan(t)
    <3> DEFINE ls == IF path[call[t].obj] = Empty THEN {}
                     ELSE {l \in Libs : disk[l].dir}
    <3>1. call' = [call EXCEPT ![t].pc = "load", ![t].todo = ls]
          BY <2>2 DEF Scan
    <3> HIDE DEF ls
    <3>2. /\ \A u \in Threads : u # t => call'[u] = call[u]
          /\ call'[t].pc \in {"load", call[t].pc}
          BY <1>1, <3>1, CallFrame
    <3> QED BY <1>2, <2>1, <3>2
  <2>3. CASE Catch(t) \/ Finish(t)
        BY <1>1, <1>2, <2>1, <2>3 DEF Catch, Finish, Idle
  <2> QED BY <1>7, <2>2, <2>3
<1>8. ASSUME NEW l \in Libs, NEW e \in Entries, Reinstall(l, e)
      PROVE  HomeInv'
      BY <1>2, <1>8 DEF Reinstall
<1>9. CASE UNCHANGED vars
      BY <1>2, <1>9 DEF vars
<1> QED BY <1>3, <1>4, <1>5, <1>6, <1>7, <1>8, <1>9 DEF Next, Step

(* Every object that searches a directory searches the one BIQT_HOME names. *)
THEOREM SearchesHome == Spec => []PathIsHome
<1>1. TypeOK /\ HomeInv /\ [Next]_vars => (TypeOK /\ HomeInv)'
      BY TypeStep, HomeStep
<1>2. HomeInv => PathIsHome
      BY DEF HomeInv
<1> QED BY TypeInit, HomeInit, <1>1, <1>2, PTL DEF Spec

-----------------------------------------------------------------------------
(* References on libraries.                                                 *)

(* The entries of a registry after a push: the old ones and the new one.    *)
LEMMA PushedEntries ==
    ASSUME providers \in [Objects -> Seq(ProviderType)],
           NEW o \in Objects, NEW p \in ProviderType,
           providers' = [providers EXCEPT ![o] = Append(@, p)],
           NEW q \in Objects, NEW i \in DOMAIN providers'[q]
    PROVE  \/ i \in DOMAIN providers[q] /\ providers'[q][i] = providers[q][i]
           \/ q = o /\ i = Len(providers[o]) + 1 /\ providers'[q][i] = p
<1>1. CASE q # o
      BY <1>1
<1>2. CASE q = o
  <2> DEFINE s == providers[o]
  <2>1. s \in Seq(ProviderType) /\ providers'[q] = Append(s, p)
        BY <1>2
  <2> HIDE DEF s
  <2>2. /\ DOMAIN s = 1..Len(s) /\ Len(s) \in Nat
        /\ DOMAIN Append(s, p) = 1..(Len(s) + 1)
        /\ \A j \in 1..Len(s) : Append(s, p)[j] = s[j]
        /\ Append(s, p)[Len(s) + 1] = p
        BY <2>1
  <2> QED BY <1>2, <2>1, <2>2 DEF s
<1> QED BY <1>1, <1>2

OwnInv == NoDanglingEvaluator /\ SoleOwner

LEMMA OwnInit == Init => OwnInv
BY DEF Init, OwnInv, NoDanglingEvaluator, SoleOwner

(* Steps that keep or empty registries and keep every reference there is.   *)
LEMMA OwnKeep ==
    ASSUME OwnInv,
           \A o \in Objects : providers'[o] = providers[o] \/ providers'[o] = <<>>,
           DOMAIN handles \subseteq DOMAIN handles',
           \A h \in DOMAIN handles : handles'[h] = handles[h]
    PROVE  OwnInv'
<1>1. \A o \in Objects : \A i \in DOMAIN providers'[o] :
          i \in DOMAIN providers[o] /\ providers'[o][i] = providers[o][i]
      OBVIOUS
<1>2. NoDanglingEvaluator'
      BY <1>1 DEF OwnInv, NoDanglingEvaluator
<1>3. SoleOwner'
      BY <1>1 DEF OwnInv, SoleOwner
<1> QED BY <1>2, <1>3 DEF OwnInv

LEMMA OwnPush ==
    ASSUME TypeOK, OwnInv, NEW t \in Threads, NEW l \in Libs, Push(t, l)
    PROVE  OwnInv'
<1> DEFINE o == call[t].obj
           n == Len(handles) + 1
           p == [lib |-> l, handle |-> IF disk[l].so = "ok" THEN n ELSE 0]
<1>1. /\ handles \in Seq(HandleType)
      /\ providers \in [Objects -> Seq(ProviderType)]
      BY DEF TypeOK
<1>2. o \in Objects
      BY CallObject DEF Push, Iteration
<1>3. DOMAIN handles = 1..Len(handles) /\ Len(handles) \in Nat
      BY <1>1
<1>4. p \in ProviderType
      BY <1>3 DEF ProviderType
<1>5. /\ handles' = Opened(l)
      /\ providers' = [providers EXCEPT ![o] = Append(@, p)]
      BY DEF Push
<1>6. /\ p.lib = l
      /\ p.handle # 0 => p.handle = n /\ disk[l].so = "ok"
      /\ n \notin DOMAIN handles
      BY <1>3
<1>7. \A q \in Objects : \A i \in DOMAIN providers'[q] :
          \/ i \in DOMAIN providers[q] /\ providers'[q][i] = providers[q][i]
          \/ q = o /\ i = Len(providers[o]) + 1 /\ providers'[q][i] = p
  <2> HIDE DEF o, p
  <2> QED BY <1>1, <1>2, <1>4, <1>5, PushedEntries
<1>8. /\ DOMAIN handles \subseteq DOMAIN handles'
      /\ \A h \in DOMAIN handles : handles'[h] = handles[h]
      /\ p.handle # 0 => /\ n \in DOMAIN handles'
                         /\ handles'[n] = [lib |-> l, open |-> TRUE]
      BY <1>5, <1>6, OpenedType
<1> HIDE DEF o, n, p
<1>9. NoDanglingEvaluator'
  <2> SUFFICES ASSUME NEW q \in Objects, NEW i \in DOMAIN providers'[q],
                      providers'[q][i].handle # 0
               PROVE  /\ providers'[q][i].handle \in DOMAIN handles'
                      /\ handles'[providers'[q][i].handle] =
                            [lib |-> providers'[q][i].lib, open |-> TRUE]
      BY DEF NoDanglingEvaluator
  <2>1. CASE i \in DOMAIN providers[q] /\ providers'[q][i] = providers[q][i]
        BY <1>8, <2>1 DEF OwnInv, NoDanglingEvaluator
  <2>2. CASE providers'[q][i] = p
        BY <1>6, <1>8, <2>2
  <2> QED BY <1>7, <2>1, <2>2
<1>10. SoleOwner'
  <2> SUFFICES ASSUME NEW o1 \in Objects, NEW o2 \in Objects,
                      NEW i \in DOMAIN providers'[o1],
                      NEW j \in DOMAIN providers'[o2],
                      providers'[o1][i].handle = providers'[o2][j].handle,
                      providers'[o1][i].handle # 0
               PROVE  o1 = o2 /\ i = j
      BY DEF SoleOwner
  <2>1. CASE /\ i \in DOMAIN providers[o1] /\ providers'[o1][i] = providers[o1][i]
             /\ j \in DOMAIN providers[o2] /\ providers'[o2][j] = providers[o2][j]
        BY <2>1 DEF OwnInv, SoleOwner
  <2>2. CASE /\ i \in DOMAIN providers[o1] /\ providers'[o1][i] = providers[o1][i]
             /\ providers'[o2][j] = p
        BY <1>6, <2>2 DEF OwnInv, NoDanglingEvaluator
  <2>3. CASE /\ providers'[o1][i] = p
             /\ j \in DOMAIN providers[o2] /\ providers'[o2][j] = providers[o2][j]
        BY <1>6, <2>3 DEF OwnInv, NoDanglingEvaluator
  <2>4. CASE /\ o1 = o /\ i = Len(providers[o]) + 1
             /\ o2 = o /\ j = Len(providers[o]) + 1
        BY <2>4
  <2> QED BY <1>7, <2>1, <2>2, <2>3, <2>4
<1> QED BY <1>9, <1>10 DEF OwnInv

(* The destructor of o closes what o owns, and by SoleOwner nothing that    *)
(* another object owns.                                                     *)
LEMMA OwnDestroy ==
    ASSUME TypeOK, OwnInv, NEW t \in Threads, NEW o \in Objects, Destroy(t, o)
    PROVE  OwnInv'
<1>1. \A q \in Objects : \A i \in DOMAIN providers'[q] :
          q # o /\ i \in DOMAIN providers[q] /\ providers'[q][i] = providers[q][i]
      BY DEF TypeOK, Destroy
<1>2. DOMAIN handles' = DOMAIN handles
      BY DEF Destroy
<1>3. \A h \in DOMAIN handles :
          \/ handles'[h] = handles[h]
          \/ \E i \in DOMAIN providers[o] : providers[o][i].handle = h
      BY DEF Destroy
<1>4. NoDanglingEvaluator'
  <2> SUFFICES ASSUME NEW q \in Objects, NEW i \in DOMAIN providers'[q],
                      providers'[q][i].handle # 0
               PROVE  /\ providers'[q][i].handle \in DOMAIN handles'
                      /\ handles'[providers'[q][i].handle] =
                            [lib |-> providers'[q][i].lib, open |-> TRUE]
      BY DEF NoDanglingEvaluator
  <2> DEFINE h == providers[q][i].handle
  <2>1. q # o /\ i \in DOMAIN providers[q] /\ providers'[q][i] = providers[q][i]
        BY <1>1
  <2>2. h \in DOMAIN handles /\ handles[h] = [lib |-> providers[q][i].lib, open |-> TRUE]
        BY <2>1 DEF OwnInv, NoDanglingEvaluator
  <2>3. ~\E j \in DOMAIN providers[o] : providers[o][j].handle = h
        BY <2>1 DEF OwnInv, SoleOwner
  <2> QED BY <1>2, <1>3, <2>1, <2>2, <2>3
<1>5. SoleOwner'
      BY <1>1 DEF OwnInv, SoleOwner
<1> QED BY <1>4, <1>5 DEF OwnInv

LEMMA OwnStep == TypeOK /\ OwnInv /\ [Next]_vars => OwnInv'
<1> SUFFICES ASSUME TypeOK, OwnInv, [Next]_vars PROVE OwnInv'
    OBVIOUS
<1>1. ASSUME NEW t \in Threads, NEW l \in Libs, Skip(t, l) \/ Throw(t, l)
      PROVE  OwnInv'
  <2>1. \A o \in Objects : providers'[o] = providers[o] \/ providers'[o] = <<>>
        BY <1>1 DEF TypeOK, Skip, Throw
  <2>2. handles' = Opened(l)
        BY <1>1 DEF Skip, Throw
  <2> QED BY <2>1, <2>2, OpenedType, OwnKeep
<1>2. ASSUME providers' = providers, handles' = handles PROVE OwnInv'
      BY <1>2, OwnKeep
<1>3. ASSUME NEW t \in Threads, NEW o \in Objects,
             Construct(t, o) \/ CopyList(t, o) \/ Rescan(t, o)
      PROVE  OwnInv'
      BY <1>2, <1>3 DEF Construct, CopyList, Rescan
<1>4. ASSUME NEW t \in Threads, SetHome(t) \/ Scan(t) \/ Catch(t) \/ Finish(t)
      PROVE  OwnInv'
      BY <1>2, <1>4 DEF SetHome, Scan, Catch, Finish
<1>5. ASSUME NEW l \in Libs, NEW e \in Entries, Reinstall(l, e)
      PROVE  OwnInv'
      BY <1>2, <1>5 DEF Reinstall
<1>6. CASE UNCHANGED vars
      BY <1>2, <1>6 DEF vars
<1> QED BY <1>1, <1>3, <1>4, <1>5, <1>6, OwnPush, OwnDestroy DEF Next, Step

(* Evaluators never dangle, and no reference has two owners.                *)
THEOREM EvaluatorsStayLoaded == Spec => [](NoDanglingEvaluator /\ SoleOwner)
<1>1. TypeOK /\ OwnInv /\ [Next]_vars => (TypeOK /\ OwnInv)'
      BY TypeStep, OwnStep
<1>2. OwnInv => NoDanglingEvaluator /\ SoleOwner
      BY DEF OwnInv
<1> QED BY TypeInit, OwnInit, <1>1, <1>2, PTL DEF Spec

(* No destructor closes a reference another object, or it itself, closes.   *)
THEOREM OneOwner == Spec => []SoleOwner
<1>1. NoDanglingEvaluator /\ SoleOwner => SoleOwner
      OBVIOUS
<1> QED BY EvaluatorsStayLoaded, <1>1, PTL

-----------------------------------------------------------------------------
(* Threads that share an object.                                            *)

LEMMA RaceInit == Init => RaceInv
BY DEF Init, RaceInv, RaceFreeOnceLoaded, Busy, Idle

(* A step of t that keeps its object, and whose effect on phases, lists and *)
(* histories leaves alone what RaceInv says of the other objects.           *)
LEMMA RaceKeep ==
    ASSUME RaceInv, NEW t \in Threads,
           \A u \in Threads : u # t => call'[u] = call[u],
           \/ call'[t].pc \in {"idle", "threw"}
           \/ /\ Busy(t)
              /\ call'[t].pc \in {"scan", "load"}
              /\ call'[t].obj = call[t].obj,
           phase' = phase, born' = born,
           \A o \in Objects : providers[o] # <<>> => providers'[o] # <<>>,
           born \subseteq Objects,
           (raced \cap born = {}) => (raced' \cap born = {})
    PROVE  RaceInv'
<1>1. \A u \in Threads : Busy(u)' =>
          Busy(u) /\ call'[u].obj = call[u].obj
      BY DEF Busy
<1>2. \A u \in Threads : call'[u].pc = "sethome" =>
          call[u].pc = "sethome" /\ call'[u].obj = call[u].obj
      OBVIOUS
<1> QED BY <1>1, <1>2 DEF RaceInv, RaceFreeOnceLoaded

(* Thread t begins a call on o: nobody constructs o, and o was not born.    *)
LEMMA RaceTake ==
    ASSUME RaceInv, NEW t \in Threads, NEW o \in Objects,
           \A u \in Threads : u # t => call'[u] = call[u],
           call'[t].obj = o,
           phase'[o] \in {"building", "live"},
           \A q \in Objects : q # o => phase'[q] = phase[q],
           phase'[o] = "building" =>
               \A u \in Threads : Busy(u) => call[u].obj # o,
           phase'[o] = "live" => phase[o] = "live" /\ call'[t].pc # "sethome",
           o \notin born, born \subseteq Objects,
           providers' = providers, born' = born, raced' = raced
    PROVE  RaceInv'
<1>1. \A u \in Threads :
          /\ call'[u].pc = "sethome" => Busy(u)'
          /\ Busy(u)' => u = t \/ (Busy(u) /\ call'[u] = call[u])
      BY DEF Busy
<1>2. \A u \in Threads : Busy(u)' =>
          /\ call'[u].obj \in Objects
          /\ phase'[call'[u].obj] \in {"building", "live"}
      BY <1>1 DEF RaceInv
<1>3. \A u, v \in Threads :
          u # v /\ Busy(u)' /\ Busy(v)' /\ call'[u].obj = call'[v].obj =>
              phase'[call'[u].obj] = "live"
  <2> SUFFICES ASSUME NEW u \in Threads, NEW v \in Threads,
                      u # v, Busy(u)', Busy(v)', call'[u].obj = call'[v].obj
               PROVE  phase'[call'[u].obj] = "live"
      OBVIOUS
  <2>1. CASE u # t /\ v # t
        BY <1>1, <2>1 DEF RaceInv
  <2>2. CASE u = t \/ v = t
        BY <1>1, <2>2
  <2> QED BY <2>1, <2>2
<1>4. \A u \in Threads : call'[u].pc = "sethome" =>
          phase'[call'[u].obj] = "building"
  <2> SUFFICES ASSUME NEW u \in Threads, call'[u].pc = "sethome"
               PROVE  phase'[call'[u].obj] = "building"
      OBVIOUS
  <2>1. CASE u = t
        BY <2>1
  <2>2. CASE u # t
        BY <1>1, <2>2 DEF RaceInv
  <2> QED BY <2>1, <2>2
<1>5. \A q \in born' :
          /\ phase'[q] \in {"live", "dead"}
          /\ phase'[q] = "live" => providers'[q] # <<>>
          /\ \A u \in Threads : Busy(u)' => call'[u].obj # q
      BY <1>1 DEF RaceInv
<1> HIDE DEF Busy
<1> QED BY <1>2, <1>3, <1>4, <1>5 DEF RaceInv, RaceFreeOnceLoaded

LEMMA RaceStep == TypeOK /\ RaceInv /\ [Next]_vars => RaceInv'
<1> SUFFICES ASSUME TypeOK, RaceInv, [Next]_vars PROVE RaceInv'
    OBVIOUS
<1>0. /\ call \in [Threads -> CallType]
      /\ phase \in [Objects -> {"none", "building", "live", "dead"}]
      /\ providers \in [Objects -> Seq(ProviderType)]
      /\ born \subseteq Objects
      BY DEF TypeOK
<1>1. CASE UNCHANGED vars
      BY <1>1 DEF vars, RaceInv, RaceFreeOnceLoaded, Busy
<1>2. SUFFICES ASSUME Next, raced = {} PROVE RaceInv'
      BY <1>1 DEF Next
<1>3. ASSUME NEW t \in Threads, NEW o \in Objects, Construct(t, o)
      PROVE  RaceInv'
  <2>1. /\ \A u \in Threads : u # t => call'[u] = call[u]
        /\ call'[t].obj = o
        /\ phase'[o] = "building"
        /\ \A q \in Objects : q # o => phase'[q] = phase[q]
        BY <1>0, <1>3 DEF Construct
  <2>2. \A u \in Threads : Busy(u) => call[u].obj # o
        BY <1>3 DEF RaceInv, Construct
  <2>3. o \notin born
        BY <1>3 DEF RaceInv, Construct
  <2>4. providers' = providers /\ born' = born /\ raced' = raced
        BY <1>3 DEF Construct
  <2> QED BY <1>0, <2>1, <2>2, <2>3, <2>4, RaceTake
<1>4. ASSUME NEW t \in Threads, SetHome(t) \/ Scan(t) PROVE RaceInv'
  <2>1. /\ Busy(t)
        /\ phase' = phase /\ born' = born /\ raced' = raced /\ providers' = providers
        BY <1>4 DEF SetHome, Scan, Busy
  <2>2. /\ \A u \in Threads : u # t => call'[u] = call[u]
        /\ call'[t].obj = call[t].obj
        /\ call'[t].pc \in {"scan", "load"}
    <3>1. call[t] \in CallRecord
          BY <1>0 DEF CallType
    <3> QED BY <1>0, <1>4, <3>1 DEF SetHome, Scan, CallRecord
  <2> QED BY <1>0, <2>1, <2>2, RaceKeep
<1>5. ASSUME NEW t \in Threads, NEW o \in Objects, CopyList(t, o)
      PROVE  RaceInv'
  <2>1. call' = call /\ phase' = phase /\ born' = born /\ providers' = providers
        BY <1>5 DEF CopyList
  <2>2. raced' = raced \/ (raced' = raced \cup {o} /\ o \notin born)
        BY <1>5 DEF CopyList, Contended, InLoop, RaceInv, Busy
  <2> QED BY <2>1, <2>2 DEF RaceInv, RaceFreeOnceLoaded, Busy
<1>6. ASSUME NEW t \in Threads, NEW o \in Objects, Rescan(t, o)
      PROVE  RaceInv'
  <2>1. /\ \A u \in Threads : u # t => call'[u] = call[u]
        /\ call'[t].obj = o /\ call'[t].pc = "scan"
        /\ phase[o] = "live" /\ o \notin born
        BY <1>0, <1>6 DEF RaceInv, Rescan
  <2>2. phase' = phase /\ providers' = providers /\ born' = born /\ raced' = raced
        BY <1>6 DEF Rescan
  <2> QED BY <1>0, <2>1, <2>2, RaceTake
<1>7. ASSUME NEW t \in Threads, NEW l \in Libs, Push(t, l) \/ Skip(t, l)
      PROVE  RaceInv'
  <2> DEFINE o == call[t].obj
  <2>1. Busy(t) /\ call[t].pc = "load" /\ o \in Objects
        BY <1>7, CallObject DEF Push, Skip, Iteration, Busy
  <2>2. /\ \A u \in Threads : u # t => call'[u] = call[u]
        /\ call'[t].obj = o
        /\ call'[t].pc = "load"
    <3>1. call[t] \in CallRecord
          BY <1>0 DEF CallType
    <3>2. call' = [call EXCEPT ![t].todo = @ \ {l}]
          BY <1>7 DEF Push, Skip
    <3> QED BY <1>0, <2>1, <3>1, <3>2 DEF CallRecord
  <2>3. phase' = phase /\ born' = born
        BY <1>7 DEF Push, Skip
  <2>4. o \notin born
        BY <2>1 DEF RaceInv
  <2>5. raced' = raced \/ raced' = raced \cup {o}
        BY <1>7 DEF Push, Skip
  <2>6. \A q \in Objects : providers[q] # <<>> => providers'[q] # <<>>
    <3>1. CASE Skip(t, l)
          BY <3>1 DEF Skip
    <3>2. CASE Push(t, l)
      <4> DEFINE p == [lib |-> l, handle |-> IF disk[l].so = "ok"
                                             THEN Len(handles) + 1 ELSE 0]
      <4>1. providers' = [providers EXCEPT ![o] = Append(@, p)]
            BY <3>2 DEF Push
      <4>2. p \in ProviderType
            BY DEF TypeOK, ProviderType
      <4> HIDE DEF p, o
      <4>3. o \in Objects => Append(providers[o], p) # <<>>
            BY <1>0, <4>2
      <4> QED BY <1>0, <4>1, <4>3
    <3> QED BY <1>7, <3>1, <3>2
  <2> HIDE DEF o
  <2> QED BY <1>0, <2>1, <2>2, <2>3, <2>4, <2>5, <2>6, RaceKeep DEF o
<1>8. ASSUME NEW t \in Threads, NEW l \in Libs, Throw(t, l) PROVE RaceInv'
  <2> DEFINE o == call[t].obj
  <2>1. Busy(t) /\ o \in Objects /\ o \notin born
        BY <1>8, CallObject DEF Throw, Iteration, Busy, RaceInv
  <2>2. /\ \A u \in Threads : u # t => call'[u] = call[u]
        /\ call'[t].pc = "threw"
    <3>1. call[t] \in CallRecord
          BY <1>0 DEF CallType
    <3> QED BY <1>0, <1>8, <3>1 DEF Throw, CallRecord
  <2>3. born' = born /\ raced' = raced
        BY <1>8 DEF Throw
  <2>4. CASE phase[o] # "building"
    <3>1. phase' = phase /\ providers' = providers
          BY <1>8, <2>4 DEF Throw
    <3> QED BY <1>0, <2>2, <2>3, <3>1, RaceKeep
  <2>5. CASE phase[o] = "building"
    <3>1. /\ phase'[o] = "dead"
          /\ \A q \in Objects : q # o => phase'[q] = phase[q] /\ providers'[q] = providers[q]
          BY <1>0, <1>8, <2>1, <2>5 DEF Throw
    <3>2. \A u \in Threads : u # t /\ Busy(u) => call[u].obj # o
          BY <2>1, <2>5 DEF RaceInv
    <3>3. \A u \in Threads : Busy(u)' => u # t /\ Busy(u) /\ call'[u] = call[u]
          BY <2>2 DEF Busy
    <3> HIDE DEF o
    <3> QED BY <1>0, <2>1, <2>2, <2>3, <3>1, <3>2, <3>3
            DEF RaceInv, RaceFreeOnceLoaded, Busy
  <2> QED BY <2>4, <2>5
<1>9. ASSUME NEW t \in Threads, Catch(t) PROVE RaceInv'
  <2>1. /\ \A u \in Threads : u # t => call'[u] = call[u]
        /\ call'[t].pc = "idle"
        BY <1>0, <1>9 DEF Catch, Idle
  <2>2. phase' = phase /\ born' = born /\ raced' = raced /\ providers' = providers
        BY <1>9 DEF Catch
  <2> QED BY <1>0, <2>1, <2>2, RaceKeep
<1>10. ASSUME NEW t \in Threads, Finish(t) PROVE RaceInv'
  <2> DEFINE o == call[t].obj
  <2>1. Busy(t) /\ o \in Objects /\ o \notin born
        BY <1>10, CallObject DEF Finish, Busy, RaceInv
  <2>2. /\ \A u \in Threads : u # t => call'[u] = call[u]
        /\ call'[t].pc = "idle"
        BY <1>0, <1>10 DEF Finish, Idle
  <2>3. raced' = raced /\ providers' = providers
        BY <1>10 DEF Finish
  <2>4. CASE phase[o] # "building"
    <3>1. phase' = phase /\ born' = born
          BY <1>10, <2>4 DEF Finish
    <3> QED BY <1>0, <2>2, <2>3, <3>1, RaceKeep
  <2>5. CASE phase[o] = "building"
    <3>1. /\ phase'[o] = "live"
          /\ \A q \in Objects : q # o => phase'[q] = phase[q]
          /\ born' = born \/ (born' = born \cup {o} /\ providers[o] # <<>>)
          BY <1>0, <1>10, <2>1, <2>5 DEF Finish
    <3>2. \A u \in Threads : u # t /\ Busy(u) => call[u].obj # o
          BY <2>1, <2>5 DEF RaceInv
    <3>3. \A u \in Threads : Busy(u)' => u # t /\ Busy(u) /\ call'[u] = call[u]
          BY <2>2 DEF Busy
    <3>4. raced' = {}
          BY <1>2, <2>3
    <3> HIDE DEF o
    <3> QED BY <1>0, <2>1, <2>2, <2>3, <3>1, <3>2, <3>3, <3>4
            DEF RaceInv, RaceFreeOnceLoaded, Busy
  <2> QED BY <2>4, <2>5
<1>11. ASSUME NEW t \in Threads, NEW o \in Objects, Destroy(t, o)
       PROVE  RaceInv'
  <2>1. \A u \in Threads : Busy(u) => call[u].obj # o
        BY <1>11 DEF Destroy, Contended, InLoop, Busy, RaceInv
  <2>2. /\ phase'[o] = "dead"
        /\ \A q \in Objects : q # o => phase'[q] = phase[q] /\ providers'[q] = providers[q]
        BY <1>0, <1>11 DEF Destroy
  <2>3. call' = call /\ born' = born /\ raced' = raced
        BY <1>11 DEF Destroy
  <2> QED BY <1>0, <2>1, <2>2, <2>3 DEF RaceInv, RaceFreeOnceLoaded, Busy
<1>12. ASSUME NEW l \in Libs, NEW e \in Entries, Reinstall(l, e)
       PROVE  RaceInv'
       BY <1>12 DEF Reinstall, RaceInv, RaceFreeOnceLoaded, Busy
<1> QED BY <1>2, <1>3, <1>4, <1>5, <1>6, <1>7, <1>8, <1>9, <1>10, <1>11, <1>12
        DEF Next, Step

(* Objects whose constructor loaded a provider can be shared by threads.    *)
THEOREM SharedWithoutRace == Spec => []RaceFreeOnceLoaded
<1>1. TypeOK /\ RaceInv /\ [Next]_vars => (TypeOK /\ RaceInv)'
      BY TypeStep, RaceStep
<1>2. RaceInv => RaceFreeOnceLoaded
      BY DEF RaceInv
<1> QED BY TypeInit, RaceInit, <1>1, <1>2, PTL DEF Spec

Frozen == \A o \in born : phase'[o] = "live" => providers'[o] = providers[o]

LEMMA FrozenStep == TypeOK /\ RaceInv /\ [Next]_vars => Frozen
<1> SUFFICES ASSUME TypeOK, RaceInv, [Next]_vars PROVE Frozen
    OBVIOUS
<1>1. /\ phase \in [Objects -> {"none", "building", "live", "dead"}]
      /\ providers \in [Objects -> Seq(ProviderType)]
      /\ born \subseteq Objects
      BY DEF TypeOK
<1>2. ASSUME providers' = providers PROVE Frozen
      BY <1>2 DEF Frozen
(* A thread in the loop works on an object that was not born with a list.   *)
<1>3. ASSUME NEW t \in Threads, NEW l \in Libs, Push(t, l) \/ Throw(t, l)
      PROVE  Frozen
  <2>1. call[t].obj \notin born
        BY <1>3 DEF RaceInv, Push, Throw, Iteration, Busy
  <2>2. \A q \in Objects : q # call[t].obj => providers'[q] = providers[q]
        BY <1>1, <1>3 DEF Push, Throw
  <2> QED BY <1>1, <2>1, <2>2 DEF Frozen
<1>4. ASSUME NEW t \in Threads, NEW o \in Objects, Destroy(t, o) PROVE Frozen
      BY <1>1, <1>4 DEF Destroy, Frozen
<1>5. CASE UNCHANGED vars
      BY <1>2, <1>5 DEF vars
<1>6. ASSUME NEW t \in Threads, NEW o \in Objects,
             Construct(t, o) \/ CopyList(t, o) \/ Rescan(t, o)
      PROVE  Frozen
      BY <1>2, <1>6 DEF Construct, CopyList, Rescan
<1>7. ASSUME NEW t \in Threads, SetHome(t) \/ Scan(t) \/ Catch(t) \/ Finish(t)
      PROVE  Frozen
      BY <1>2, <1>7 DEF SetHome, Scan, Catch, Finish
<1>8. ASSUME NEW t \in Threads, NEW l \in Libs, Skip(t, l) PROVE Frozen
      BY <1>2, <1>8 DEF Skip
<1>9. ASSUME NEW l \in Libs, NEW e \in Entries, Reinstall(l, e) PROVE Frozen
      BY <1>2, <1>9 DEF Reinstall
<1> QED BY <1>3, <1>4, <1>5, <1>6, <1>7, <1>8, <1>9 DEF Next, Step

(* A list that was not empty when the constructor returned never changes.   *)
THEOREM ListFrozen == Spec => FrozenOnceLoaded
<1>1. TypeOK /\ RaceInv /\ [Next]_vars => (TypeOK /\ RaceInv)'
      BY TypeStep, RaceStep
<1>2. TypeOK /\ RaceInv /\ [Next]_vars => [Frozen]_vars
      BY FrozenStep
<1> QED BY TypeInit, RaceInit, <1>1, <1>2, PTL DEF Spec, FrozenOnceLoaded, Frozen

Closing ==
    \A h \in DOMAIN handles :
        handles[h].open /\ ~handles'[h].open =>
            \E o \in Objects :
                /\ \E i \in DOMAIN providers[o] : providers[o][i].handle = h
                /\ phase[o] = "live" /\ phase'[o] = "dead"

LEMMA ClosingStep == TypeOK /\ [Next]_vars => Closing
<1> SUFFICES ASSUME TypeOK, [Next]_vars PROVE Closing
    OBVIOUS
<1>1. ASSUME \A h \in DOMAIN handles : handles'[h] = handles[h] PROVE Closing
      BY <1>1 DEF Closing
<1>2. ASSUME NEW t \in Threads, NEW l \in Libs,
             Push(t, l) \/ Skip(t, l) \/ Throw(t, l)
      PROVE  Closing
      BY <1>1, <1>2, OpenedType DEF Push, Skip, Throw
<1>3. ASSUME NEW t \in Threads, NEW o \in Objects, Destroy(t, o) PROVE Closing
  <2>1. phase[o] = "live" /\ phase'[o] = "dead"
        BY <1>3 DEF TypeOK, Destroy
  <2>2. \A h \in DOMAIN handles :
            \/ handles'[h] = handles[h]
            \/ \E i \in DOMAIN providers[o] : providers[o][i].handle = h
        BY <1>3 DEF Destroy
  <2> QED BY <2>1, <2>2 DEF Closing
<1>4. ASSUME handles' = handles PROVE Closing
      BY <1>1, <1>4
<1>5. ASSUME NEW t \in Threads, NEW o \in Objects,
             Construct(t, o) \/ CopyList(t, o) \/ Rescan(t, o)
      PROVE  Closing
      BY <1>4, <1>5 DEF Construct, CopyList, Rescan
<1>6. ASSUME NEW t \in Threads, SetHome(t) \/ Scan(t) \/ Catch(t) \/ Finish(t)
      PROVE  Closing
      BY <1>4, <1>6 DEF SetHome, Scan, Catch, Finish
<1>7. ASSUME NEW l \in Libs, NEW e \in Entries, Reinstall(l, e) PROVE Closing
      BY <1>4, <1>7 DEF Reinstall
<1>8. CASE UNCHANGED vars
      BY <1>4, <1>8 DEF vars
<1> QED BY <1>2, <1>3, <1>5, <1>6, <1>7, <1>8 DEF Next, Step

(* Only the destructor of the owner closes a reference.                     *)
THEOREM OwnerCloses == Spec => ClosedByOwner
<1>1. TypeOK /\ [Next]_vars => [Closing]_vars
      BY ClosingStep
<1> QED BY TypeInit, TypeStep, <1>1, PTL DEF Spec, ClosedByOwner, Closing

-----------------------------------------------------------------------------
(* What Registry lists: in order, completely, leaking nothing but what a    *)
(* failed load opened, and as Catalogue promises it.                        *)

(* What a load does to the registries.                                      *)
LEMMA PushLibs ==
    ASSUME TypeOK, NEW t \in Threads, NEW l \in Libs, Push(t, l)
    PROVE  LET o == call[t].obj
           IN  /\ o \in Objects
               /\ \A q \in Objects : q # o => providers'[q] = providers[q]
               /\ LibsOf(providers'[o]) = LibsOf(providers[o]) \cup {l}
               /\ /\ Ordered(providers[o])
                  /\ \A k \in LibsOf(providers[o]) : k < l
                  => Ordered(providers'[o])
<1> DEFINE o == call[t].obj
           p == [lib |-> l, handle |-> IF disk[l].so = "ok"
                                       THEN Len(handles) + 1 ELSE 0]
           s == providers[o]
<1>1. o \in Objects
      BY CallObject DEF Push, Iteration
<1>2. providers \in [Objects -> Seq(ProviderType)] /\ p \in ProviderType
  <2>1. Len(handles) + 1 \in Nat
        BY DEF TypeOK
  <2> QED BY <2>1 DEF TypeOK, ProviderType
<1>3. providers' = [providers EXCEPT ![o] = Append(@, p)]
      BY DEF Push
<1>4. p.lib = l
      OBVIOUS
<1> HIDE DEF o, p
<1>5. \A q \in Objects : q # o => providers'[q] = providers[q]
      BY <1>2, <1>3
<1>6. s \in Seq(ProviderType) /\ providers'[o] = Append(s, p)
      BY <1>1, <1>2, <1>3
<1> HIDE DEF s
<1>7. /\ DOMAIN s = 1..Len(s) /\ Len(s) \in Nat
      /\ DOMAIN Append(s, p) = 1..(Len(s) + 1)
      /\ \A j \in 1..Len(s) : Append(s, p)[j] = s[j]
      /\ Append(s, p)[Len(s) + 1] = p
      BY <1>2, <1>6
<1>8. LibsOf(Append(s, p)) = LibsOf(s) \cup {l}
      BY <1>4, <1>7 DEF LibsOf
<1>9. Ordered(s) /\ (\A k \in LibsOf(s) : k < l) => Ordered(Append(s, p))
  <2> SUFFICES ASSUME Ordered(s), \A k \in LibsOf(s) : k < l,
                      NEW i \in 1..(Len(s) + 1), NEW j \in 1..(Len(s) + 1), i < j
               PROVE  Append(s, p)[i].lib < Append(s, p)[j].lib
      BY <1>7 DEF Ordered
  <2>1. CASE j \in 1..Len(s)
        BY <1>7, <2>1 DEF Ordered
  <2>2. CASE j = Len(s) + 1
    <3>1. i \in 1..Len(s)
          BY <1>7, <2>2
    <3>2. s[i].lib < l
          BY <1>7, <3>1 DEF LibsOf
    <3> QED BY <1>4, <1>7, <2>2, <3>1, <3>2
  <2> QED BY <1>7, <2>1, <2>2
<1> QED BY <1>1, <1>5, <1>6, <1>8, <1>9 DEF o, s

LEMMA EmptyList == LibsOf(<<>>) = {} /\ Ordered(<<>>)
BY DEF LibsOf, Ordered

(* An iteration takes its library off the list of what is to do.            *)
LEMMA TodoLess ==
    ASSUME TypeOK, NEW t \in Threads, NEW l \in Libs, Push(t, l) \/ Skip(t, l)
    PROVE  /\ \A u \in Threads : u # t => call'[u] = call[u]
           /\ call[t].pc = "load" /\ l \in call[t].todo
           /\ call'[t].pc = "load"
           /\ call'[t].obj = call[t].obj /\ call[t].obj \in Objects
           /\ call'[t].todo = call[t].todo \ {l}
           /\ phase' = phase /\ path' = path /\ disk' = disk
           /\ home' = home /\ born' = born
<1>1. call' = [call EXCEPT ![t].todo = @ \ {l}]
      BY DEF Push, Skip
<1>2. call[t] \in CallRecord /\ call \in [Threads -> CallType]
      BY CallType1 DEF CallType
<1>3. call[t].pc = "load" /\ l \in call[t].todo
      BY DEF Push, Skip, Iteration
<1> QED BY <1>1, <1>2, <1>3, CallObject DEF Push, Skip, CallRecord

LEMMA ScanEffect ==
    ASSUME TypeOK, NEW t \in Threads, Scan(t)
    PROVE  /\ \A u \in Threads : u # t => call'[u] = call[u]
           /\ call[t].pc = "scan" /\ call'[t].pc = "load"
           /\ call'[t].obj = call[t].obj /\ call[t].obj \in Objects
           /\ call'[t].todo = IF path[call[t].obj] = Empty THEN {}
                              ELSE {l \in Libs : disk[l].dir}
<1>1. call[t] \in CallRecord /\ call \in [Threads -> CallType]
      BY CallType1 DEF CallType
<1>2. call[t].pc = "scan"
      BY DEF Scan
<1> QED BY <1>1, <1>2, CallObject DEF Scan, CallRecord

LEMMA ThrowEffect ==
    ASSUME TypeOK, NEW t \in Threads, NEW l \in Libs, Throw(t, l)
    PROVE  /\ \A u \in Threads : u # t => call'[u] = call[u]
           /\ call[t].pc = "load" /\ l \in call[t].todo
           /\ call'[t].pc = "threw"
           /\ call[t].obj \in Objects
           /\ \A q \in Objects : q # call[t].obj =>
                 phase'[q] = phase[q] /\ providers'[q] = providers[q]
           /\ phase[call[t].obj] = "building" =>
                 phase'[call[t].obj] = "dead" /\ providers'[call[t].obj] = <<>>
           /\ phase[call[t].obj] # "building" =>
                 phase' = phase /\ providers' = providers
<1>1. call[t] \in CallRecord /\ call \in [Threads -> CallType]
      BY CallType1 DEF CallType
<1>2. call[t].pc = "load" /\ l \in call[t].todo
      BY DEF Throw, Iteration
<1>3. call' = [call EXCEPT ![t].pc = "threw", ![t].todo = {}]
      BY DEF Throw
<1>4. /\ phase \in [Objects -> {"none", "building", "live", "dead"}]
      /\ providers \in [Objects -> Seq(ProviderType)]
      BY DEF TypeOK
<1>5. call[t].obj \in Objects
      BY <1>2, CallObject
<1>6. /\ \A u \in Threads : u # t => call'[u] = call[u]
      /\ call'[t].pc = "threw"
      BY <1>1, <1>3 DEF CallRecord
<1> QED BY <1>2, <1>4, <1>5, <1>6 DEF Throw

LEMMA EndEffect ==
    ASSUME TypeOK, NEW t \in Threads, Catch(t) \/ Finish(t)
    PROVE  /\ \A u \in Threads : u # t => call'[u] = call[u]
           /\ call'[t].pc = "idle" /\ call'[t].obj = NoObject
BY CallType1 DEF Catch, Finish, Idle
-----------------------------------------------------------------------------
(* The order of a list.                                                     *)

LEMMA OrderInit == Init => OrderInv
BY DEF Init, OrderInv, OrderedOnceLoaded, Busy, Idle

(* Steps that keep or empty lists, and in which no constructor moves on in  *)
(* its loop.                                                                *)
LEMMA OrderKeep ==
    ASSUME OrderInv, TypeOK, TypeOK',
           \A o \in Objects : phase'[o] = "none" => phase[o] = "none",
           \A o \in Objects : providers'[o] = providers[o] \/ providers'[o] = <<>>,
           \A u \in Threads :
               Busy(u)' /\ phase'[call'[u].obj] = "building" =>
                   \/ /\ Busy(u) /\ call'[u] = call[u]
                      /\ phase[call[u].obj] = "building"
                   \/ providers'[call'[u].obj] = <<>>,
           \A o \in born' : o \in born \/ Ordered(providers'[o])
    PROVE  OrderInv'
<1>1. \A o \in Objects : phase'[o] = "none" => providers'[o] = <<>>
      BY DEF OrderInv
<1>2. ASSUME NEW u \in Threads, Busy(u)', phase'[call'[u].obj] = "building"
      PROVE  IF call'[u].pc = "load"
             THEN /\ Ordered(providers'[call'[u].obj])
                  /\ \A l \in LibsOf(providers'[call'[u].obj]),
                        m \in call'[u].todo : l < m
             ELSE providers'[call'[u].obj] = <<>>
  <2>1. CASE providers'[call'[u].obj] = <<>>
        BY <2>1, EmptyList
  <2>2. CASE providers'[call'[u].obj] # <<>>
    <3>1. /\ Busy(u) /\ call'[u] = call[u]
          /\ phase[call[u].obj] = "building"
          BY <1>2, <2>2
    <3>2. call[u].obj \in Objects
          BY <3>1, CallObject DEF Busy
    <3>3. providers'[call'[u].obj] = providers[call[u].obj]
          BY <2>2, <3>1, <3>2
    <3> QED BY <3>1, <3>3 DEF OrderInv
  <2> QED BY <2>1, <2>2
<1>3. OrderedOnceLoaded'
  <2> SUFFICES ASSUME NEW o \in born', ~Ordered(providers'[o]) PROVE FALSE
      BY DEF OrderedOnceLoaded
  <2>1. o \in born /\ o \in Objects
        BY DEF TypeOK
  <2>2. providers'[o] = providers[o]
        BY <2>1, EmptyList
  <2> QED BY <2>1, <2>2 DEF OrderInv, OrderedOnceLoaded
<1> HIDE DEF Busy
<1> QED BY <1>1, <1>2, <1>3 DEF OrderInv

LEMMA OrderStep == TypeOK /\ RaceInv /\ OrderInv /\ [Next]_vars => OrderInv'
<1> SUFFICES ASSUME TypeOK, RaceInv, OrderInv, [Next]_vars PROVE OrderInv'
    OBVIOUS
<1>0. /\ call \in [Threads -> CallType]
      /\ phase \in [Objects -> {"none", "building", "live", "dead"}]
      /\ providers \in [Objects -> Seq(ProviderType)]
      /\ born \subseteq Objects
      /\ TypeOK'
      BY TypeStep DEF TypeOK
<1>1. ASSUME NEW t \in Threads, NEW o \in Objects, Construct(t, o)
      PROVE  OrderInv'
  <2>1. /\ \A u \in Threads : u # t => call'[u] = call[u]
        /\ call'[t].obj = o /\ providers[o] = <<>>
        /\ \A q \in Objects : q # o => phase'[q] = phase[q]
        /\ phase'[o] = "building"
        /\ providers' = providers /\ born' = born
        BY <1>0, <1>1 DEF Construct, OrderInv
  <2>2. \A u \in Threads : Busy(u) /\ u # t => call[u].obj \in Objects \ {o}
        BY <1>1 DEF RaceInv, Construct
  <2>3. \A u \in Threads :
            Busy(u)' /\ phase'[call'[u].obj] = "building" =>
                \/ /\ Busy(u) /\ call'[u] = call[u]
                   /\ phase[call[u].obj] = "building"
                \/ providers'[call'[u].obj] = <<>>
        BY <2>1, <2>2 DEF Busy
  <2> QED BY <1>0, <2>1, <2>3, OrderKeep
<1>2. ASSUME NEW t \in Threads, SetHome(t) PROVE OrderInv'
  <2>1. /\ \A u \in Threads : u # t => call'[u] = call[u]
        /\ call'[t].obj = call[t].obj /\ call'[t].pc = "scan"
        /\ Busy(t) /\ call[t].pc # "load"
        /\ phase' = phase /\ providers' = providers /\ born' = born
    <3>1. call[t] \in CallRecord
          BY <1>0 DEF CallType
    <3> QED BY <1>0, <1>2, <3>1 DEF SetHome, Busy, CallRecord
  <2>2. \A u \in Threads :
            Busy(u)' /\ phase'[call'[u].obj] = "building" =>
                \/ /\ Busy(u) /\ call'[u] = call[u]
                   /\ phase[call[u].obj] = "building"
                \/ providers'[call'[u].obj] = <<>>
        BY <2>1 DEF Busy, OrderInv
  <2> QED BY <1>0, <2>1, <2>2, OrderKeep
<1>3. ASSUME NEW t \in Threads, Scan(t) PROVE OrderInv'
  <2>1. phase' = phase /\ providers' = providers /\ born' = born
        BY <1>3 DEF Scan
  <2>2. phase[call[t].obj] = "building" => providers[call[t].obj] = <<>>
        BY <1>3, ScanEffect DEF OrderInv, Busy
  <2>3. \A u \in Threads :
            Busy(u)' /\ phase'[call'[u].obj] = "building" =>
                \/ /\ Busy(u) /\ call'[u] = call[u]
                   /\ phase[call[u].obj] = "building"
                \/ providers'[call'[u].obj] = <<>>
        BY <1>3, <2>1, <2>2, ScanEffect DEF Busy
  <2> QED BY <1>0, <2>1, <2>3, OrderKeep
<1>4. ASSUME NEW t \in Threads, NEW o \in Objects, CopyList(t, o)
      PROVE  OrderInv'
      BY <1>4 DEF CopyList, OrderInv, OrderedOnceLoaded, Busy
<1>5. ASSUME NEW t \in Threads, NEW o \in Objects, Rescan(t, o)
      PROVE  OrderInv'
  <2>1. /\ \A u \in Threads : u # t => call'[u] = call[u]
        /\ call'[t].obj = o /\ phase[o] = "live"
        /\ phase' = phase /\ providers' = providers /\ born' = born
        BY <1>0, <1>5 DEF Rescan
  <2>2. \A u \in Threads :
            Busy(u)' /\ phase'[call'[u].obj] = "building" =>
                Busy(u) /\ call'[u] = call[u] /\ phase[call[u].obj] = "building"
        BY <2>1 DEF Busy
  <2> QED BY <1>0, <2>1, <2>2, OrderKeep
(* The constructor appends the smallest of what is to do, which comes after *)
(* all it has listed and before all that remains.                           *)
<1>6. ASSUME NEW t \in Threads, NEW l \in Libs, Push(t, l) \/ Skip(t, l)
      PROVE  OrderInv'
  <2> DEFINE o == call[t].obj
  <2>1. /\ \A u \in Threads : u # t => call'[u] = call[u]
        /\ call[t].pc = "load" /\ l \in call[t].todo
        /\ call'[t].pc = "load" /\ call'[t].obj = o /\ o \in Objects
        /\ call'[t].todo = call[t].todo \ {l}
        /\ phase' = phase /\ born' = born
        BY <1>6, TodoLess
  <2>2. Busy(t) /\ o \notin born
        BY <2>1 DEF Busy, RaceInv
  <2>3. /\ \A q \in Objects : q # o => providers'[q] = providers[q]
        /\ \/ providers' = providers
           \/ /\ LibsOf(providers'[o]) = LibsOf(providers[o]) \cup {l}
              /\ /\ Ordered(providers[o])
                 /\ \A k \in LibsOf(providers[o]) : k < l
                 => Ordered(providers'[o])
        BY <1>6, PushLibs DEF Skip
  <2>4. ASSUME phase[o] = "building"
        PROVE  /\ Ordered(providers'[o])
               /\ \A k \in LibsOf(providers'[o]), m \in call'[t].todo : k < m
    <3>1. /\ Ordered(providers[o])
          /\ \A k \in LibsOf(providers[o]), m \in call[t].todo : k < m
          BY <2>1, <2>2, <2>4 DEF OrderInv
    <3>2. \A m \in call'[t].todo : l < m
      <4>1. call[t].todo \subseteq Libs
            BY <1>0 DEF CallType, CallRecord
      <4>2. \A m \in call[t].todo : l <= m
            BY <1>6 DEF Push, Skip, Iteration
      <4> QED BY <2>1, <4>1, <4>2 DEF Libs
    <3> QED BY <2>1, <2>3, <3>1, <3>2
  <2>5. ASSUME NEW u \in Threads, u # t, Busy(u), phase[call[u].obj] = "building"
        PROVE  providers'[call[u].obj] = providers[call[u].obj]
    <3>1. call[u].obj # o /\ call[u].obj \in Objects
          BY <2>2, <2>5 DEF RaceInv
    <3> QED BY <2>3, <3>1
  <2>6. \A u \in Threads : Busy(u)' => Busy(u)
        BY <2>1, <2>2 DEF Busy
  <2>7. \A q \in Objects : phase'[q] = "none" => providers'[q] = <<>>
    <3>1. phase[o] # "none"
          BY <2>2 DEF RaceInv
    <3> QED BY <2>1, <2>3, <3>1 DEF OrderInv
  <2>8. OrderedOnceLoaded'
        BY <1>0, <2>1, <2>2, <2>3 DEF OrderedOnceLoaded, OrderInv
  <2>9. ASSUME NEW u \in Threads, Busy(u)', phase'[call'[u].obj] = "building"
        PROVE  IF call'[u].pc = "load"
               THEN /\ Ordered(providers'[call'[u].obj])
                    /\ \A k \in LibsOf(providers'[call'[u].obj]),
                          m \in call'[u].todo : k < m
               ELSE providers'[call'[u].obj] = <<>>
    <3>1. CASE u = t
          BY <2>1, <2>4, <2>9, <3>1
    <3>2. CASE u # t
      <4>1. Busy(u) /\ call'[u] = call[u] /\ phase[call[u].obj] = "building"
            BY <2>1, <2>6, <2>9, <3>2
      <4> QED BY <2>5, <3>2, <4>1 DEF OrderInv
    <3> QED BY <3>1, <3>2
  <2> HIDE DEF o, Busy
  <2> QED BY <2>7, <2>8, <2>9 DEF OrderInv
<1>7. ASSUME NEW t \in Threads, NEW l \in Libs, Throw(t, l) PROVE OrderInv'
  <2>1. born' = born
        BY <1>7 DEF Throw
  <2>2. /\ \A q \in Objects : phase'[q] = "none" => phase[q] = "none"
        /\ \A q \in Objects : providers'[q] = providers[q] \/ providers'[q] = <<>>
        BY <1>7, ThrowEffect
  <2>3. \A u \in Threads :
            Busy(u)' /\ phase'[call'[u].obj] = "building" =>
                Busy(u) /\ call'[u] = call[u] /\ phase[call[u].obj] = "building"
    <3> SUFFICES ASSUME NEW u \in Threads, Busy(u)', phase'[call'[u].obj] = "building"
                 PROVE  Busy(u) /\ call'[u] = call[u] /\ phase[call[u].obj] = "building"
        OBVIOUS
    <3>1. u # t /\ call'[u] = call[u] /\ Busy(u)
          BY <1>7, ThrowEffect DEF Busy
    <3>2. call[u].obj \in Objects
          BY <3>1, CallObject DEF Busy
    <3> QED BY <1>7, <3>1, <3>2, ThrowEffect
  <2> QED BY <1>0, <2>1, <2>2, <2>3, OrderKeep
<1>8. ASSUME NEW t \in Threads, Catch(t) PROVE OrderInv'
  <2>1. phase' = phase /\ providers' = providers /\ born' = born
        BY <1>8 DEF Catch
  <2>2. \A u \in Threads : Busy(u)' => Busy(u) /\ call'[u] = call[u]
        BY <1>8, EndEffect DEF Busy
  <2> QED BY <1>0, <2>1, <2>2, OrderKeep
<1>9. ASSUME NEW t \in Threads, Finish(t) PROVE OrderInv'
  <2> DEFINE o == call[t].obj
  <2>1. Busy(t) /\ o \in Objects /\ call[t].pc = "load"
        BY <1>9, CallObject DEF Finish, Busy
  <2>2. providers' = providers
        BY <1>9 DEF Finish
  <2>3. /\ \A q \in Objects : q # o => phase'[q] = phase[q]
        /\ phase[o] # "building" => phase' = phase /\ born' = born
        /\ phase[o] = "building" =>
              phase'[o] = "live" /\ (born' = born \/ born' = born \cup {o})
        BY <1>0, <1>9, <2>1 DEF Finish
  <2>4. phase[o] = "building" => Ordered(providers[o])
        BY <2>1 DEF OrderInv
  <2>5. ASSUME NEW u \in Threads, Busy(u)', phase'[call'[u].obj] = "building"
        PROVE  Busy(u) /\ call'[u] = call[u] /\ phase[call[u].obj] = "building"
    <3>1. u # t /\ call'[u] = call[u] /\ Busy(u)
          BY <1>9, <2>5, EndEffect DEF Busy
    <3>2. call[u].obj \in Objects
          BY <3>1, CallObject DEF Busy
    <3> QED BY <2>3, <2>5, <3>1, <3>2
  <2>6. /\ \A q \in Objects : phase'[q] = "none" => phase[q] = "none"
        /\ \A q \in born' : q \in born \/ Ordered(providers'[q])
        BY <2>2, <2>3, <2>4
  <2> HIDE DEF o, Busy
  <2> QED BY <1>0, <2>2, <2>5, <2>6, OrderKeep
<1>10. ASSUME NEW t \in Threads, NEW o \in Objects, Destroy(t, o)
       PROVE  OrderInv'
  <2>1. /\ \A q \in Objects : q # o => phase'[q] = phase[q]
        /\ phase'[o] = "dead"
        /\ \A q \in Objects : providers'[q] = providers[q] \/ providers'[q] = <<>>
        /\ call' = call /\ born' = born
        BY <1>0, <1>10 DEF Destroy
  <2>2. \A u \in Threads : Busy(u) => call[u].obj \in Objects
        BY DEF RaceInv
  <2> QED BY <1>0, <2>1, <2>2, OrderKeep DEF Busy
<1>11. ASSUME NEW l \in Libs, NEW e \in Entries, Reinstall(l, e)
       PROVE  OrderInv'
       BY <1>11 DEF Reinstall, OrderInv, OrderedOnceLoaded, Busy
<1>12. CASE UNCHANGED vars
       BY <1>12 DEF vars, OrderInv, OrderedOnceLoaded, Busy
<1> QED BY <1>1, <1>2, <1>3, <1>4, <1>5, <1>6, <1>7, <1>8, <1>9, <1>10, <1>11,
           <1>12 DEF Next, Step

(* A list that a constructor began is in directory order, for good.         *)
THEOREM ListsOrdered == Spec => []OrderedOnceLoaded
<1>1. TypeOK /\ RaceInv /\ OrderInv /\ [Next]_vars => (TypeOK /\ RaceInv /\ OrderInv)'
      BY TypeStep, RaceStep, OrderStep
<1>2. OrderInv => OrderedOnceLoaded
      BY DEF OrderInv
<1> QED BY TypeInit, RaceInit, OrderInit, <1>1, <1>2, PTL DEF Spec
-----------------------------------------------------------------------------
(* The completeness of a list.                                              *)

LEMMA CompleteInit == Init => CompleteInv
BY EmptyList DEF Init, CompleteInv, ListComplete, CallComplete, Busy, Idle

LEMMA ListKeep ==
    ASSUME NEW o \in Objects, ListComplete(o), disk' = disk,
           providers'[o] = providers[o], path'[o] = path[o],
           phase'[o] = "live" => phase[o] = "live"
    PROVE  ListComplete(o)'
BY DEF ListComplete, UsableLibs, Passed

LEMMA CallKeep ==
    ASSUME NEW u \in Threads, CallComplete(u), disk' = disk, call'[u] = call[u],
           providers'[call[u].obj] = providers[call[u].obj],
           path'[call[u].obj] = path[call[u].obj],
           phase'[call[u].obj] = "live" => phase[call[u].obj] = "live"
    PROVE  CallComplete(u)'
BY DEF CallComplete, Passed, Busy

(* An object that is unborn, under construction or gone lists nothing.      *)
LEMMA ListEmpty ==
    ASSUME NEW o \in Objects, providers'[o] = <<>>, phase'[o] # "live"
    PROVE  ListComplete(o)'
BY EmptyList DEF ListComplete

(* Calls of other threads on an object under construction: there are none.  *)
LEMMA Exclusive ==
    ASSUME RaceInv, NEW t \in Threads, NEW u \in Threads, u # t, Busy(t), Busy(u),
           phase[call[t].obj] # "live"
    PROVE  call[u].obj # call[t].obj
BY DEF RaceInv

(* Only a directory the scan listed is loaded, and then BIQT_HOME is set.   *)
LEMMA LoadingHere ==
    ASSUME TypeOK, HomeInv, CompleteInv, ~DiskChanges,
           NEW t \in Threads, NEW l \in Libs, Iteration(t, l)
    PROVE  /\ Busy(t) /\ call[t].obj \in Objects
           /\ path[call[t].obj] # Empty /\ home # Unset /\ disk[l].dir
           /\ Loads(disk[l]) => Usable(disk[l])
           /\ Usable(disk[l]) => Loads(disk[l])
           /\ ~Throws(disk[l]) =>
                 disk[l].so = "broken" \/ disk[l].desc \notin {"malformed", "illTyped"}
           /\ Throws(disk[l]) =>
                 ~Usable(disk[l]) /\ disk[l].desc \in {"malformed", "illTyped"}
<1>1. /\ Busy(t) /\ call[t].obj \in Objects
      /\ call[t].pc = "load" /\ l \in call[t].todo
      BY CallObject DEF Iteration, Busy
<1>2. path[call[t].obj] # Empty /\ disk[l].dir
      BY <1>1 DEF CompleteInv, CallComplete
<1>3. home # Unset
      BY <1>1, <1>2 DEF HomeInv, PathIsHome
<1> QED BY <1>1, <1>2, <1>3 DEF Loads, Throws, Usable, IsJava

LEMMA CompleteStep ==
    TypeOK /\ HomeInv /\ RaceInv /\ OrderInv /\ CompleteInv /\ [Next]_vars
        => CompleteInv'
<1> SUFFICES ASSUME TypeOK, HomeInv, RaceInv, OrderInv, CompleteInv, [Next]_vars,
                    ~DiskChanges
             PROVE  /\ \A q \in Objects : ListComplete(q)'
                    /\ \A u \in Threads : CallComplete(u)'
    BY DEF CompleteInv
<1>0. /\ call \in [Threads -> CallType]
      /\ phase \in [Objects -> {"none", "building", "live", "dead"}]
      /\ providers \in [Objects -> Seq(ProviderType)]
      /\ path \in [Objects -> Homes]
      /\ disk \in [Libs -> EntryType]
      BY DEF TypeOK
<1>a. /\ \A q \in Objects : ListComplete(q)
      /\ \A u \in Threads : CallComplete(u)
      BY DEF CompleteInv
<1>b. \A u \in Threads : Busy(u) => call[u].obj \in Objects
      BY DEF RaceInv
(* Threads that neither are nor become busy have nothing to show.           *)
<1>c. \A u \in Threads : ~Busy(u)' => CallComplete(u)'
      BY DEF CallComplete
<1>d. ASSUME disk' = disk, path' = path, phase' = phase, providers' = providers
      PROVE  /\ \A q \in Objects : ListComplete(q)'
             /\ \A u \in Threads : call'[u] = call[u] => CallComplete(u)'
      BY <1>a, <1>d, ListKeep, CallKeep
<1>1. ASSUME NEW t \in Threads, NEW o \in Objects, Construct(t, o)
      PROVE  /\ \A q \in Objects : ListComplete(q)'
             /\ \A u \in Threads : CallComplete(u)'
  <2>1. /\ \A u \in Threads : u # t => call'[u] = call[u]
        /\ call'[t].obj = o /\ call'[t].pc # "load"
        /\ \A q \in Objects : q # o => phase'[q] = phase[q] /\ path'[q] = path[q]
        /\ phase[o] = "none" /\ phase'[o] = "building"
        /\ providers' = providers /\ disk' = disk
        BY <1>0, <1>1 DEF Construct
  <2>2. \A u \in Threads : Busy(u) => call[u].obj # o
        BY <2>1 DEF RaceInv
  <2>3. providers[o] = <<>>
        BY <2>1 DEF OrderInv
  <2>4. \A q \in Objects : ListComplete(q)'
        BY <1>a, <2>1, <2>3, ListKeep, ListEmpty
  <2>5. CallComplete(t)'
        BY <2>1 DEF CallComplete
  <2>6. ASSUME NEW u \in Threads, u # t PROVE CallComplete(u)'
    <3>1. CASE Busy(u)
          BY <1>a, <1>b, <2>1, <2>2, <2>6, <3>1, CallKeep
    <3>2. CASE ~Busy(u)
          BY <1>c, <2>1, <2>6, <3>2 DEF Busy
    <3> QED BY <3>1, <3>2
  <2> QED BY <2>4, <2>5, <2>6
<1>2. ASSUME NEW t \in Threads, SetHome(t)
      PROVE  /\ \A q \in Objects : ListComplete(q)'
             /\ \A u \in Threads : CallComplete(u)'
  <2> DEFINE o == call[t].obj
  <2>1. Busy(t) /\ o \in Objects /\ phase[o] = "building" /\ call[t].pc # "load"
        BY <1>2 DEF RaceInv, Busy, SetHome
  <2>2. /\ \A u \in Threads : u # t => call'[u] = call[u]
        /\ call'[t].obj = o /\ call'[t].pc = "scan"
        /\ phase' = phase /\ providers' = providers /\ disk' = disk
        /\ \A q \in Objects : q # o => path'[q] = path[q]
    <3>1. call[t] \in CallRecord
          BY <1>0 DEF CallType
    <3> QED BY <1>0, <1>2, <3>1 DEF SetHome, CallRecord
  <2>3. providers[o] = <<>>
        BY <2>1 DEF OrderInv
  <2> HIDE DEF o
  <2>4. \A q \in Objects : ListComplete(q)'
        BY <1>a, <2>1, <2>2, <2>3, ListKeep, ListEmpty
  <2>5. CallComplete(t)'
        BY <2>1, <2>2 DEF CallComplete
  <2>6. ASSUME NEW u \in Threads, u # t PROVE CallComplete(u)'
    <3>1. CASE Busy(u)
      <4>1. call[u].obj # o
            BY <2>1, <2>6, <3>1, Exclusive DEF o
      <4> QED BY <1>a, <1>b, <2>2, <2>6, <3>1, <4>1, CallKeep
    <3>2. CASE ~Busy(u)
          BY <1>c, <2>2, <2>6, <3>2 DEF Busy
    <3> QED BY <3>1, <3>2
  <2> QED BY <2>4, <2>5, <2>6
<1>3. ASSUME NEW t \in Threads, Scan(t)
      PROVE  /\ \A q \in Objects : ListComplete(q)'
             /\ \A u \in Threads : CallComplete(u)'
  <2>0. PICK o \in Objects : o = call[t].obj
        BY <1>3, CallObject DEF Scan, Busy
  <2>1. disk' = disk /\ path' = path /\ phase' = phase /\ providers' = providers
        BY <1>3 DEF Scan
  <2>2. /\ \A u \in Threads : u # t => call'[u] = call[u]
        /\ Busy(t) /\ call'[t].obj = o
        /\ call'[t].todo = IF path[o] = Empty THEN {} ELSE {l \in Libs : disk[l].dir}
        BY <2>0, <1>3, ScanEffect DEF Busy
  <2>3. phase[o] = "live" => providers[o] = <<>>
        BY <2>0, <1>a, <2>2 DEF CallComplete
  <2>4. path[o] # Empty => Passed(o, {l \in Libs : disk[l].dir})
        BY DEF Passed
  <2>5. CallComplete(t)'
    <3>1. path'[o] # Empty => Passed(o, call[t].todo)'
          BY <2>1, <2>2, <2>4 DEF Passed
    <3>2. \A l \in call'[t].todo : disk'[l].dir /\ path'[o] # Empty
          BY <2>1, <2>2
    <3> QED BY <2>1, <2>2, <2>3, <3>1, <3>2 DEF CallComplete
  <2> QED BY <1>d, <2>1, <2>2, <2>5
<1>4. ASSUME NEW t \in Threads, NEW o \in Objects, CopyList(t, o)
      PROVE  /\ \A q \in Objects : ListComplete(q)'
             /\ \A u \in Threads : CallComplete(u)'
      BY <1>d, <1>4 DEF CopyList
<1>5. ASSUME NEW t \in Threads, NEW o \in Objects, Rescan(t, o)
      PROVE  /\ \A q \in Objects : ListComplete(q)'
             /\ \A u \in Threads : CallComplete(u)'
  <2>1. disk' = disk /\ path' = path /\ phase' = phase /\ providers' = providers
        BY <1>5 DEF Rescan
  <2>2. /\ \A u \in Threads : u # t => call'[u] = call[u]
        /\ call'[t].obj = o /\ call'[t].pc = "scan" /\ providers[o] = <<>>
        BY <1>0, <1>5 DEF Rescan
  <2>3. CallComplete(t)'
        BY <2>1, <2>2 DEF CallComplete
  <2> QED BY <1>d, <2>1, <2>2, <2>3
(* The library is usable.  Had the object been live it would have passed    *)
(* this directory before, and its list would not be empty.                  *)
<1>6. ASSUME NEW t \in Threads, NEW l \in Libs, Push(t, l)
      PROVE  /\ \A q \in Objects : ListComplete(q)'
             /\ \A u \in Threads : CallComplete(u)'
  <2>0. PICK o \in Objects : o = call[t].obj
        BY <1>6, CallObject DEF Push, Iteration
  <2>1. Iteration(t, l) /\ Loads(disk[l])
        BY <1>6 DEF Push
  <2>2. /\ Busy(t) /\ o \in Objects /\ path[o] # Empty
        /\ Usable(disk[l])
        /\ disk[l].so = "broken" \/ disk[l].desc \notin {"malformed", "illTyped"}
        BY <2>0, <2>1, LoadingHere DEF Usable
  <2>3. phase[o] = "building"
    <3>1. CASE phase[o] = "live"
      <4>1. providers[o] = <<>> /\ Passed(o, {})
            BY <2>0, <1>a, <2>2, <3>1 DEF CallComplete, ListComplete
      <4>2. l \in LibsOf(providers[o])
            BY <2>2, <4>1 DEF Passed, Usable
      <4> QED BY <4>1, <4>2, EmptyList
    <3> QED BY <2>0, <2>2, <3>1 DEF RaceInv
  <2>4. /\ \A u \in Threads : u # t => call'[u] = call[u]
        /\ call[t].pc = "load" /\ call'[t].obj = o
        /\ call'[t].todo = call[t].todo \ {l}
        /\ phase' = phase /\ path' = path /\ disk' = disk
        BY <2>0, <1>6, TodoLess
  <2>5. /\ \A q \in Objects : q # o => providers'[q] = providers[q]
        /\ LibsOf(providers'[o]) = LibsOf(providers[o]) \cup {l}
        BY <2>0, <1>6, PushLibs
  <2>6. ListComplete(o)'
    <3>1. LibsOf(providers[o]) \subseteq UsableLibs
          BY <1>a, <2>2 DEF ListComplete
    <3>2. LibsOf(providers'[o]) \subseteq UsableLibs'
          BY <2>2, <2>4, <2>5, <3>1 DEF UsableLibs
    <3> QED BY <2>2, <2>3, <2>4, <3>2 DEF ListComplete
  <2>7. \A q \in Objects : q # o => ListComplete(q)'
        BY <1>a, <2>4, <2>5, ListKeep
  <2>8. CallComplete(t)'
    <3>1. /\ Passed(o, call[t].todo)
          /\ \A k \in call[t].todo : disk[k].dir
          BY <2>0, <1>a, <2>2, <2>4 DEF CallComplete
    <3>2. Passed(o, call[t].todo)'
          BY <2>2, <2>4, <2>5, <3>1 DEF Passed
    <3> QED BY <2>2, <2>3, <2>4, <3>1, <3>2 DEF CallComplete
  <2>9. ASSUME NEW u \in Threads, u # t PROVE CallComplete(u)'
    <3>1. CASE Busy(u)
      <4>1. call[u].obj # o
            BY <2>2, <2>3, <2>9, <3>1, <2>0, Exclusive
      <4> QED BY <1>a, <1>b, <2>4, <2>5, <2>9, <3>1, <4>1, CallKeep
    <3>2. CASE ~Busy(u)
          BY <1>c, <2>4, <2>9, <3>2 DEF Busy
    <3> QED BY <3>1, <3>2
  <2> QED BY <2>6, <2>7, <2>8, <2>9
<1>7. ASSUME NEW t \in Threads, NEW l \in Libs, Skip(t, l)
      PROVE  /\ \A q \in Objects : ListComplete(q)'
             /\ \A u \in Threads : CallComplete(u)'
  <2>0. PICK o \in Objects : o = call[t].obj
        BY <1>7, CallObject DEF Skip, Iteration
  <2>1. Iteration(t, l) /\ ~Loads(disk[l]) /\ ~Throws(disk[l])
        BY <1>7 DEF Skip, Rejected
  <2>2. /\ Busy(t) /\ o \in Objects /\ path[o] # Empty
        /\ ~Usable(disk[l])
        /\ disk[l].so = "broken" \/ disk[l].desc \notin {"malformed", "illTyped"}
        BY <2>0, <2>1, LoadingHere
  <2>3. /\ \A u \in Threads : u # t => call'[u] = call[u]
        /\ call[t].pc = "load" /\ call'[t].obj = o
        /\ call'[t].todo = call[t].todo \ {l}
        /\ phase' = phase /\ path' = path /\ disk' = disk
        BY <2>0, <1>7, TodoLess
  <2>4. providers' = providers
        BY <1>7 DEF Skip
  <2>5. CallComplete(t)'
    <3>1. /\ phase[o] = "live" => providers[o] = <<>>
          /\ Passed(o, call[t].todo)
          /\ \A k \in call[t].todo : disk[k].dir
          BY <2>0, <1>a, <2>2, <2>3 DEF CallComplete
    <3>2. Passed(o, call[t].todo)'
          BY <2>2, <2>3, <2>4, <3>1 DEF Passed
    <3> QED BY <2>2, <2>3, <2>4, <3>1, <3>2 DEF CallComplete
  <2> QED BY <1>d, <2>3, <2>4, <2>5
<1>8. ASSUME NEW t \in Threads, NEW l \in Libs, Throw(t, l)
      PROVE  /\ \A q \in Objects : ListComplete(q)'
             /\ \A u \in Threads : CallComplete(u)'
  <2> DEFINE o == call[t].obj
  <2>1. Busy(t) /\ disk' = disk /\ path' = path
        BY <1>8, ThrowEffect DEF Throw, Busy
  <2>2. /\ \A u \in Threads : u # t => call'[u] = call[u]
        /\ o \in Objects /\ ~Busy(t)'
        /\ \A q \in Objects : q # o =>
              phase'[q] = phase[q] /\ providers'[q] = providers[q]
        /\ phase[o] = "building" => phase'[o] = "dead" /\ providers'[o] = <<>>
        /\ phase[o] # "building" => phase' = phase /\ providers' = providers
        BY <1>8, ThrowEffect DEF Busy
  <2>3. CASE phase[o] # "building"
        BY <1>c, <1>d, <2>1, <2>2, <2>3
  <2>4. CASE phase[o] = "building"
    <3>1. \A u \in Threads : u # t /\ Busy(u) => call[u].obj # o
          BY <2>1, <2>4, Exclusive
    <3> HIDE DEF o
    <3>2. \A q \in Objects : ListComplete(q)'
          BY <1>a, <2>1, <2>2, <2>4, ListKeep, ListEmpty
    <3>3. ASSUME NEW u \in Threads, u # t PROVE CallComplete(u)'
      <4>1. CASE Busy(u)
            BY <1>a, <1>b, <2>1, <2>2, <3>1, <3>3, <4>1, CallKeep
      <4>2. CASE ~Busy(u)
            BY <1>c, <2>2, <3>3, <4>2 DEF Busy
      <4> QED BY <4>1, <4>2
    <3> QED BY <1>c, <2>2, <3>2, <3>3
  <2> QED BY <2>3, <2>4
<1>9. ASSUME NEW t \in Threads, Catch(t)
      PROVE  /\ \A q \in Objects : ListComplete(q)'
             /\ \A u \in Threads : CallComplete(u)'
  <2>1. disk' = disk /\ path' = path /\ phase' = phase /\ providers' = providers
        BY <1>9 DEF Catch
  <2>2. (\A u \in Threads : u # t => call'[u] = call[u]) /\ ~Busy(t)'
        BY <1>9, EndEffect DEF Busy
  <2> QED BY <1>c, <1>d, <2>1, <2>2
(* The loop passed every directory when the constructor returns.            *)
<1>10. ASSUME NEW t \in Threads, Finish(t)
       PROVE  /\ \A q \in Objects : ListComplete(q)'
              /\ \A u \in Threads : CallComplete(u)'
  <2>0. PICK o \in Objects : o = call[t].obj
        BY <1>10, CallObject DEF Finish
  <2>1. Busy(t) /\ o \in Objects /\ call[t].pc = "load" /\ call[t].todo = {}
        BY <1>10, CallObject DEF Finish, Busy
  <2>2. providers' = providers /\ disk' = disk /\ path' = path
        BY <1>10 DEF Finish
  <2>3. /\ \A u \in Threads : u # t => call'[u] = call[u]
        /\ ~Busy(t)'
        BY <1>10, EndEffect DEF Busy
  <2>4. CASE phase[o] # "building"
    <3>1. phase' = phase
          BY <2>0, <1>10, <2>4 DEF Finish
    <3> QED BY <1>c, <1>d, <2>2, <2>3, <3>1
  <2>5. CASE phase[o] = "building"
    <3>1. phase'[o] = "live" /\ \A q \in Objects : q # o => phase'[q] = phase[q]
          BY <2>0, <1>0, <1>10, <2>1, <2>5 DEF Finish
    <3>2. \A u \in Threads : u # t /\ Busy(u) => call[u].obj # o
          BY <2>0, <2>1, <2>5, Exclusive
    <3>3. path[o] # Empty => Passed(o, {})
          BY <2>0, <1>a, <2>1 DEF CallComplete
    <3>4. ListComplete(o)'
          BY <1>a, <2>1, <2>2, <3>3 DEF ListComplete, UsableLibs, Passed
    <3>5. \A q \in Objects : q # o => ListComplete(q)'
          BY <1>a, <2>2, <3>1, ListKeep
    <3>6. ASSUME NEW u \in Threads, u # t PROVE CallComplete(u)'
      <4>1. CASE Busy(u)
            BY <1>a, <1>b, <2>2, <2>3, <3>1, <3>2, <3>6, <4>1, CallKeep
      <4>2. CASE ~Busy(u)
            BY <1>c, <2>3, <3>6, <4>2 DEF Busy
      <4> QED BY <4>1, <4>2
    <3> QED BY <1>c, <2>3, <3>4, <3>5, <3>6
  <2> QED BY <2>4, <2>5
<1>11. ASSUME NEW t \in Threads, NEW o \in Objects, Destroy(t, o)
       PROVE  /\ \A q \in Objects : ListComplete(q)'
              /\ \A u \in Threads : CallComplete(u)'
  <2>1. \A u \in Threads : Busy(u) => call[u].obj # o
        BY <1>11 DEF Destroy, Contended, InLoop, Busy, RaceInv
  <2>2. /\ phase'[o] = "dead" /\ providers'[o] = <<>>
        /\ \A q \in Objects : q # o => phase'[q] = phase[q] /\ providers'[q] = providers[q]
        /\ call' = call /\ disk' = disk /\ path' = path
        BY <1>0, <1>11 DEF Destroy
  <2>3. \A q \in Objects : ListComplete(q)'
        BY <1>a, <2>2, ListKeep, ListEmpty
  <2>4. ASSUME NEW u \in Threads PROVE CallComplete(u)'
    <3>1. CASE Busy(u)
          BY <1>a, <1>b, <2>1, <2>2, <3>1, CallKeep
    <3>2. CASE ~Busy(u)
          BY <1>c, <2>2, <3>2 DEF Busy
    <3> QED BY <3>1, <3>2
  <2> QED BY <2>3, <2>4
<1>12. ASSUME NEW l \in Libs, NEW e \in Entries, Reinstall(l, e)
       PROVE  /\ \A q \in Objects : ListComplete(q)'
              /\ \A u \in Threads : CallComplete(u)'
       BY <1>12 DEF Reinstall
<1>13. CASE UNCHANGED vars
       BY <1>d, <1>13 DEF vars
<1> QED BY <1>1, <1>2, <1>3, <1>4, <1>5, <1>6, <1>7, <1>8, <1>9, <1>10, <1>11,
           <1>12, <1>13 DEF Next, Step

(* The whole state of the registry as the invariants describe it.           *)
RegistryInv ==
    TypeOK /\ HomeInv /\ OwnInv /\ RaceInv /\ OrderInv /\ CompleteInv

LEMMA RegistryInit == Init => RegistryInv
BY TypeInit, HomeInit, OwnInit, RaceInit, OrderInit, CompleteInit DEF RegistryInv

LEMMA RegistryStep == RegistryInv /\ [Next]_vars => RegistryInv'
BY TypeStep, HomeStep, OwnStep, RaceStep, OrderStep, CompleteStep DEF RegistryInv

(* In an installation nobody changes a finished object lists what is usable *)
(* in it, no more and no less.                                              *)
THEOREM ListsComplete == Spec => []CompleteWhenQuiet
<1>1. RegistryInv => CompleteWhenQuiet
  <2> SUFFICES ASSUME RegistryInv, ~DiskChanges, NEW o \in Objects,
                      phase[o] = "live", path[o] # Empty
               PROVE  LibsOf(providers[o]) = UsableLibs
      BY DEF CompleteWhenQuiet, UsableLibs
  <2>1. ListComplete(o)
        BY DEF RegistryInv, CompleteInv
  <2>2. UsableLibs \subseteq LibsOf(providers[o])
        BY <2>1 DEF ListComplete, Passed, UsableLibs, Usable
  <2> QED BY <2>1, <2>2 DEF ListComplete
<1> QED BY RegistryInit, RegistryStep, <1>1, PTL DEF Spec
-----------------------------------------------------------------------------
(* References nobody owns.                                                  *)

LEMMA OpenedDomain ==
    ASSUME TypeOK, NEW l \in Libs, NEW h \in DOMAIN Opened(l)
    PROVE  \/ h \in DOMAIN handles
           \/ disk[l].so = "ok" /\ h = Len(handles) + 1
<1> DEFINE new == [lib |-> l, open |-> TRUE]
<1>1. handles \in Seq(HandleType) /\ new \in HandleType
      BY DEF TypeOK, HandleType
<1>2. Opened(l) = IF disk[l].so = "ok" THEN Append(handles, new) ELSE handles
      BY DEF Opened
<1> HIDE DEF new
<1>3. /\ DOMAIN handles = 1..Len(handles) /\ Len(handles) \in Nat
      /\ DOMAIN Append(handles, new) = 1..(Len(handles) + 1)
      BY <1>1
<1> QED BY <1>2, <1>3

(* The provider that was pushed owns the reference its load opened.         *)
LEMMA PushOwns ==
    ASSUME TypeOK, NEW t \in Threads, NEW l \in Libs, Push(t, l)
    PROVE  /\ \A h : Owned(h) => Owned(h)'
           /\ disk[l].so = "ok" =>
                 \A h : h = Len(handles) + 1 => Owned(h)'
<1> DEFINE n == Len(handles) + 1
           p == [lib |-> l, handle |-> IF disk[l].so = "ok" THEN n ELSE 0]
<1>1. PICK o \in Objects : o = call[t].obj
      BY CallObject DEF Push, Iteration
<1>2. providers \in [Objects -> Seq(ProviderType)] /\ p \in ProviderType
  <2>1. Len(handles) + 1 \in Nat
        BY DEF TypeOK
  <2> QED BY <2>1 DEF TypeOK, ProviderType
<1>3. providers' = [providers EXCEPT ![o] = Append(@, p)]
      BY <1>1 DEF Push
<1>4. disk[l].so = "ok" => p.handle = n
      OBVIOUS
<1> HIDE DEF p
<1>5. /\ \A i \in DOMAIN providers[o] :
            i \in DOMAIN providers'[o] /\ providers'[o][i] = providers[o][i]
      /\ \E i \in DOMAIN providers'[o] : providers'[o][i] = p
  <2> DEFINE s == providers[o]
  <2>1. s \in Seq(ProviderType) /\ providers'[o] = Append(s, p)
        BY <1>2, <1>3
  <2> HIDE DEF s
  <2>2. /\ DOMAIN s = 1..Len(s) /\ Len(s) \in Nat
        /\ DOMAIN Append(s, p) = 1..(Len(s) + 1)
        /\ \A j \in 1..Len(s) : Append(s, p)[j] = s[j]
        /\ Append(s, p)[Len(s) + 1] = p
        BY <1>2, <2>1
  <2>3. Len(s) + 1 \in DOMAIN Append(s, p)
        BY <2>2
  <2> QED BY <2>1, <2>2, <2>3 DEF s
<1>6. \A q \in Objects : q # o => providers'[q] = providers[q]
      BY <1>2, <1>3
<1>7. \A h : Owned(h) => Owned(h)'
      BY <1>5, <1>6 DEF Owned
<1>8. disk[l].so = "ok" => \E i \in DOMAIN providers'[o] : providers'[o][i].handle = n
      BY <1>4, <1>5
<1>9. disk[l].so = "ok" => \A h : h = Len(handles) + 1 => Owned(h)'
      BY <1>8 DEF Owned
<1> QED BY <1>7, <1>9

Excused(h) ==
    \/ ~Usable(disk[handles[h].lib])
    \/ \E l \in Libs : /\ l > handles[h].lib
                      /\ disk[l].desc \in {"malformed", "illTyped"}

LEMMA LeakKeep ==
    ASSUME OnlyFailuresLeak, ~DiskChanges, disk' = disk,
           \A h \in DOMAIN handles' : Orphaned(h)' =>
               \/ /\ h \in DOMAIN handles /\ Orphaned(h)
                  /\ handles'[h].lib = handles[h].lib
               \/ Excused(h)'
    PROVE  OnlyFailuresLeak'
<1> SUFFICES ASSUME NEW h \in DOMAIN handles', Orphaned(h)' PROVE Excused(h)'
    BY DEF OnlyFailuresLeak, Excused
<1>1. CASE Excused(h)'
      BY <1>1
<1>2. CASE /\ h \in DOMAIN handles /\ Orphaned(h)
           /\ handles'[h].lib = handles[h].lib
  <2>1. Excused(h)
        BY <1>2 DEF OnlyFailuresLeak, Excused
  <2> QED BY <1>2, <2>1 DEF Excused
<1> QED BY <1>1, <1>2

LEMMA LeakInit == Init => OnlyFailuresLeak
BY DEF Init, OnlyFailuresLeak

LEMMA LeakStep ==
    RegistryInv /\ OnlyFailuresLeak /\ [Next]_vars => OnlyFailuresLeak'
<1> SUFFICES ASSUME RegistryInv, OnlyFailuresLeak, [Next]_vars, ~DiskChanges
             PROVE  OnlyFailuresLeak'
    BY DEF OnlyFailuresLeak
<1>0. /\ TypeOK /\ HomeInv /\ OwnInv /\ RaceInv /\ OrderInv /\ CompleteInv
      /\ providers \in [Objects -> Seq(ProviderType)]
      /\ handles \in Seq(HandleType)
      BY DEF RegistryInv, TypeOK
<1>1. ASSUME disk' = disk, providers' = providers, handles' = handles
      PROVE  OnlyFailuresLeak'
      BY <1>1 DEF OnlyFailuresLeak, Orphaned, Owned
(* The references there were are what they were.                            *)
<1>2. ASSUME NEW l \in Libs, handles' = Opened(l), NEW h \in DOMAIN handles'
      PROVE  \/ h \in DOMAIN handles /\ handles'[h] = handles[h]
             \/ /\ disk[l].so = "ok" /\ h = Len(handles) + 1
                /\ handles'[h].lib = l
  <2>1. CASE h \in DOMAIN handles
        BY <1>0, <1>2, <2>1, OpenedType
  <2>2. CASE disk[l].so = "ok" /\ h = Len(handles) + 1
    <3>1. handles'[h] = [lib |-> l, open |-> TRUE]
          BY <1>0, <1>2, <2>2, OpenedType
    <3> QED BY <2>2, <3>1
  <2> QED BY <1>0, <1>2, <2>1, <2>2, OpenedDomain
<1>3. ASSUME NEW t \in Threads, NEW l \in Libs, Push(t, l)
      PROVE  OnlyFailuresLeak'
  <2>1. handles' = Opened(l) /\ disk' = disk
        BY <1>3 DEF Push
  <2>2. /\ \A h : Owned(h) => Owned(h)'
        /\ disk[l].so = "ok" => \A h : h = Len(handles) + 1 => Owned(h)'
        BY <1>0, <1>3, PushOwns
  <2>3. ASSUME NEW h \in DOMAIN handles', Orphaned(h)'
        PROVE  /\ h \in DOMAIN handles /\ Orphaned(h)
               /\ handles'[h].lib = handles[h].lib
    <3>1. ~Owned(h)' /\ handles'[h].open
          BY <2>3 DEF Orphaned
    <3>2. h \in DOMAIN handles /\ handles'[h] = handles[h]
          BY <1>2, <2>1, <2>2, <3>1
    <3> QED BY <2>2, <3>1, <3>2 DEF Orphaned
  <2> QED BY <2>1, <2>3, LeakKeep
<1>4. ASSUME NEW t \in Threads, NEW l \in Libs, Skip(t, l)
      PROVE  OnlyFailuresLeak'
  <2>1. handles' = Opened(l) /\ disk' = disk /\ providers' = providers
        BY <1>4 DEF Skip
  <2>2. ~Usable(disk[l])
    <3>1. Iteration(t, l) /\ ~Loads(disk[l])
          BY <1>4 DEF Skip, Rejected
    <3> QED BY <1>0, <3>1, LoadingHere
  <2>3. ASSUME NEW h \in DOMAIN handles', Orphaned(h)'
        PROVE  \/ /\ h \in DOMAIN handles /\ Orphaned(h)
                  /\ handles'[h].lib = handles[h].lib
               \/ Excused(h)'
    <3>1. CASE h \in DOMAIN handles /\ handles'[h] = handles[h]
          BY <2>1, <2>3, <3>1 DEF Orphaned, Owned
    <3>2. CASE handles'[h].lib = l
          BY <2>1, <2>2, <3>2 DEF Excused
    <3> QED BY <1>2, <2>1, <3>1, <3>2
  <2> QED BY <2>1, <2>3, LeakKeep
(* A constructor that throws at l gives up what it had listed, which comes  *)
(* before l.                                                                *)
<1>5. ASSUME NEW t \in Threads, NEW l \in Libs, Throw(t, l)
      PROVE  OnlyFailuresLeak'
  <2>0. PICK o \in Objects : o = call[t].obj
        BY <1>0, <1>5, ThrowEffect
  <2>1. handles' = Opened(l) /\ disk' = disk
        BY <1>5 DEF Throw
  <2>2. /\ Busy(t) /\ ~Usable(disk[l])
        /\ disk[l].desc \in {"malformed", "illTyped"}
        BY <1>0, <1>5, LoadingHere DEF Throw
  <2>3. /\ call[t].pc = "load" /\ l \in call[t].todo
        /\ \A q \in Objects : q # o => providers'[q] = providers[q]
        /\ phase[o] # "building" => providers' = providers
        BY <1>0, <1>5, <2>0, ThrowEffect
  <2>4. ASSUME NEW h \in DOMAIN handles', Orphaned(h)'
        PROVE  \/ /\ h \in DOMAIN handles /\ Orphaned(h)
                  /\ handles'[h].lib = handles[h].lib
               \/ Excused(h)'
    <3>1. CASE handles'[h].lib = l
          BY <2>1, <2>2, <3>1 DEF Excused
    <3>2. CASE h \in DOMAIN handles /\ handles'[h] = handles[h] /\ ~Owned(h)
          BY <2>4, <3>2 DEF Orphaned
    <3>3. CASE h \in DOMAIN handles /\ handles'[h] = handles[h] /\ Owned(h)
      <4>0. PICK q \in Objects : \E i \in DOMAIN providers[q] :
                providers[q][i].handle = h
            BY <3>3 DEF Owned
      <4>1. PICK i \in DOMAIN providers[q] : providers[q][i].handle = h
            BY <4>0
      <4>2. ~\E j \in DOMAIN providers'[q] : providers'[q][j].handle = h
            BY <2>4 DEF Orphaned, Owned
      <4>3. q = o /\ phase[o] = "building"
            BY <2>3, <4>1, <4>2
      <4>4. handles[h].lib \in LibsOf(providers[o])
        <5>1. h # 0
              BY <1>0, <3>3
        <5>2. handles[h].lib = providers[q][i].lib
          <6>1. handles[h] = [lib |-> providers[q][i].lib, open |-> TRUE]
                BY <1>0, <4>1, <5>1 DEF OwnInv, NoDanglingEvaluator
          <6> QED BY <6>1
        <5> QED BY <4>1, <4>3, <5>2 DEF LibsOf
      <4>5. handles[h].lib < l
        <5>1. \A k \in LibsOf(providers[o]), m \in call[t].todo : k < m
              BY <1>0, <2>0, <2>2, <2>3, <4>3 DEF OrderInv
        <5> QED BY <2>3, <4>4, <5>1
      <4>6. l > handles[h].lib
        <5>1. handles[h] \in HandleType
              BY <1>0, <3>3
        <5>2. handles[h].lib \in Libs
              BY <5>1 DEF HandleType
        <5> QED BY <4>5, <5>2 DEF Libs
      <4> QED BY <2>1, <2>2, <3>3, <4>6 DEF Excused
    <3> QED BY <1>2, <2>1, <3>1, <3>2, <3>3
  <2> QED BY <2>1, <2>4, LeakKeep
(* The destructor closes all that its object owns.                          *)
<1>6. ASSUME NEW t \in Threads, NEW o \in Objects, Destroy(t, o)
      PROVE  OnlyFailuresLeak'
  <2>1. /\ DOMAIN handles' = DOMAIN handles /\ disk' = disk
        /\ \A q \in Objects : q # o => providers'[q] = providers[q]
        BY <1>0, <1>6 DEF Destroy
  <2>2. ASSUME NEW h \in DOMAIN handles', handles'[h].open
        PROVE  /\ handles'[h] = handles[h]
               /\ ~\E i \in DOMAIN providers[o] : providers[o][i].handle = h
    <3>1. h \in DOMAIN handles /\ handles[h] \in HandleType
          BY <1>0, <2>1
    <3>2. handles'[h] = IF \E i \in DOMAIN providers[o] : providers[o][i].handle = h
                        THEN [handles[h] EXCEPT !.open = FALSE] ELSE handles[h]
          BY <1>6, <3>1 DEF Destroy
    <3>3. [handles[h] EXCEPT !.open = FALSE].open = FALSE
          BY <3>1 DEF HandleType
    <3>4. CASE \E i \in DOMAIN providers[o] : providers[o][i].handle = h
          BY <2>2, <3>2, <3>3, <3>4
    <3>5. CASE ~\E i \in DOMAIN providers[o] : providers[o][i].handle = h
          BY <3>2, <3>5
    <3> QED BY <3>4, <3>5
  <2>3. ASSUME NEW h \in DOMAIN handles', Orphaned(h)'
        PROVE  /\ h \in DOMAIN handles /\ Orphaned(h)
               /\ handles'[h].lib = handles[h].lib
    <3>1. ~Owned(h)' /\ handles'[h].open
          BY <2>3 DEF Orphaned
    <3>2. /\ handles'[h] = handles[h]
          /\ ~\E i \in DOMAIN providers[o] : providers[o][i].handle = h
          BY <2>2, <3>1
    <3>3. ~Owned(h)
          BY <2>1, <3>1, <3>2 DEF Owned
    <3> QED BY <2>1, <3>1, <3>2, <3>3 DEF Orphaned
  <2> QED BY <2>1, <2>3, LeakKeep
<1>7. ASSUME NEW t \in Threads, NEW o \in Objects,
             Construct(t, o) \/ CopyList(t, o) \/ Rescan(t, o)
      PROVE  OnlyFailuresLeak'
      BY <1>1, <1>7 DEF Construct, CopyList, Rescan
<1>8. ASSUME NEW t \in Threads, SetHome(t) \/ Scan(t) \/ Catch(t) \/ Finish(t)
      PROVE  OnlyFailuresLeak'
      BY <1>1, <1>8 DEF SetHome, Scan, Catch, Finish
<1>9. ASSUME NEW l \in Libs, NEW e \in Entries, Reinstall(l, e)
      PROVE  OnlyFailuresLeak'
      BY <1>9 DEF Reinstall
<1>10. CASE UNCHANGED vars
       BY <1>1, <1>10 DEF vars
<1> QED BY <1>3, <1>4, <1>5, <1>6, <1>7, <1>8, <1>9, <1>10 DEF Next, Step

(* In an installation nobody changes, a reference that stays open without   *)
(* an owner was left by a load that failed or by a constructor that threw.  *)
THEOREM LeaksExplained == Spec => []OnlyFailuresLeak
<1>1. /\ Init => RegistryInv /\ OnlyFailuresLeak
      /\ RegistryInv /\ OnlyFailuresLeak /\ [Next]_vars
            => (RegistryInv /\ OnlyFailuresLeak)'
      BY RegistryInit, RegistryStep, LeakInit, LeakStep
<1> QED BY <1>1, PTL DEF Spec
-----------------------------------------------------------------------------
(* The registry implements the catalogue: which step is which.              *)

(* Who might disturb a call of getProviders: another thread's call on the   *)
(* same object, in an installation that changes between the two scans.      *)
Alone == \A t, u \in Threads : t = u
NobodyDisturbs == ~DiskChanges \/ Alone

LEMMA CatInit == Init => Cat!Init
BY DEF Init, Cat!Init, Cat!NoAnswer, AbsState, AbsListed, Quiet, InLoop, LibsOf,
       Idle

LEMMA StateKeep ==
    ASSUME \A q \in Objects :
               /\ phase'[q] = "live" <=> phase[q] = "live"
               /\ phase'[q] = "dead" <=> phase[q] = "dead"
    PROVE  AbsState' = AbsState
BY DEF AbsState

LEMMA ListedKeep ==
    ASSUME NEW q \in Objects, phase'[q] = "live" <=> phase[q] = "live",
           phase[q] = "live" =>
               /\ providers'[q] = providers[q]
               /\ \A u \in Threads : InLoop(u, q)' <=> InLoop(u, q)
    PROVE  AbsListed'[q] = AbsListed[q]
BY DEF AbsListed, Quiet

LEMMA ListedAll ==
    ASSUME \A q \in Objects : AbsListed'[q] = AbsListed[q]
    PROVE  AbsListed' = AbsListed
BY DEF AbsListed

(* The step changes at most what object o shows, to S.                      *)
LEMMA ListedOne ==
    ASSUME NEW o \in Objects, NEW S, AbsListed'[o] = S,
           \A q \in Objects : q # o => AbsListed'[q] = AbsListed[q]
    PROVE  AbsListed' = [AbsListed EXCEPT ![o] = S]
BY DEF AbsListed

LEMMA StateOne ==
    ASSUME NEW o \in Objects, NEW s, AbsState'[o] = s,
           \A q \in Objects : q # o => phase'[q] = phase[q]
    PROVE  AbsState' = [AbsState EXCEPT ![o] = s]
BY DEF AbsState

(* Nobody is in the loop of another object because of what t does on o.     *)
LEMMA LoopOthers ==
    ASSUME NEW t \in Threads, NEW o, NEW q, q # o,
           \A u \in Threads : u # t => call'[u] = call[u],
           call[t].pc \in {"idle", "threw"} \/ call[t].obj = o,
           call'[t].pc \in {"idle", "threw"} \/ call'[t].obj = o
    PROVE  \A u \in Threads : InLoop(u, q)' <=> InLoop(u, q)
BY DEF InLoop

(* A call on a live object that found it empty finds nothing, when nobody   *)
(* changes the installation; a thread alone disturbs nobody.                *)
LEMMA LoopEmpty ==
    ASSUME RegistryInv, ~DiskChanges, NEW u \in Threads, NEW o \in Objects,
           InLoop(u, o), phase[o] = "live"
    PROVE  providers[o] = <<>>
BY DEF RegistryInv, CompleteInv, CallComplete, InLoop, Busy

LEMMA AbsListedType ==
    ASSUME TypeOK, NEW o \in Objects
    PROVE  /\ AbsListed[o] \subseteq Libs
           /\ LibsOf(providers[o]) \subseteq Libs
<1>1. LibsOf(providers[o]) \subseteq Libs
      BY LibsOfType DEF TypeOK
<1> QED BY <1>1 DEF AbsListed

LEMMA CatStep ==
    ASSUME NobodyDisturbs, RegistryInv, RegistryInv', [Next]_vars
    PROVE  [Cat!Next]_(Cat!catVars)
<1>0. /\ TypeOK /\ TypeOK' /\ RaceInv
      /\ call \in [Threads -> CallType]
      /\ phase \in [Objects -> {"none", "building", "live", "dead"}]
      /\ providers \in [Objects -> Seq(ProviderType)]
      BY DEF RegistryInv, TypeOK
<1>a. ASSUME AbsState' = AbsState, AbsListed' = AbsListed, answer' = answer
      PROVE  [Cat!Next]_(Cat!catVars)
      BY <1>a DEF Cat!catVars
<1>b. ASSUME phase' = phase, providers' = providers, call' = call,
             answer' = answer
      PROVE  [Cat!Next]_(Cat!catVars)
  <2>1. AbsState' = AbsState /\ AbsListed' = AbsListed
        BY <1>b DEF AbsState, AbsListed, Quiet, InLoop
  <2> QED BY <1>a, <1>b, <2>1
<1>1. ASSUME NEW t \in Threads, NEW o \in Objects, Construct(t, o)
      PROVE  [Cat!Next]_(Cat!catVars)
  <2>1. /\ \A u \in Threads : u # t => call'[u] = call[u]
        /\ call[t].pc = "idle" /\ call'[t].obj = o
        /\ phase[o] = "none" /\ phase'[o] = "building"
        /\ \A q \in Objects : q # o => phase'[q] = phase[q]
        /\ providers' = providers /\ answer' = answer
        BY <1>0, <1>1 DEF Construct
  <2>2. AbsState' = AbsState
        BY <2>1, StateKeep
  <2>3. AbsListed' = AbsListed
        BY <2>1, LoopOthers, ListedKeep, ListedAll
  <2> QED BY <1>a, <2>1, <2>2, <2>3
<1>2. ASSUME NEW t \in Threads, SetHome(t) PROVE [Cat!Next]_(Cat!catVars)
  <2>0. PICK o \in Objects : o = call[t].obj
        BY <1>2, CallObject, <1>0 DEF SetHome
  <2>1. /\ \A u \in Threads : u # t => call'[u] = call[u]
        /\ call'[t].obj = o
        /\ phase' = phase /\ providers' = providers /\ answer' = answer
    <3>1. call[t] \in CallRecord
          BY <1>0 DEF CallType
    <3> QED BY <1>0, <1>2, <2>0, <3>1 DEF SetHome, CallRecord
  <2>2. phase[o] = "building"
        BY <1>0, <1>2, <2>0 DEF RaceInv, SetHome
  <2>3. AbsState' = AbsState
        BY <2>1, StateKeep
  <2>4. AbsListed' = AbsListed
        BY <2>0, <2>1, <2>2, LoopOthers, ListedKeep, ListedAll
  <2> QED BY <1>a, <2>1, <2>3, <2>4
<1>3. ASSUME NEW t \in Threads, Scan(t) PROVE [Cat!Next]_(Cat!catVars)
  <2>1. phase' = phase /\ providers' = providers /\ answer' = answer
        BY <1>3 DEF Scan
  <2>2. \A u \in Threads, q \in Objects : InLoop(u, q)' <=> InLoop(u, q)
        BY <1>0, <1>3, ScanEffect DEF InLoop
  <2>3. AbsState' = AbsState /\ AbsListed' = AbsListed
        BY <2>1, <2>2, StateKeep, ListedKeep, ListedAll
  <2> QED BY <1>a, <2>1, <2>3
(* The copy is of a list that nobody is working on.                         *)
<1>4. ASSUME NEW t \in Threads, NEW o \in Objects, CopyList(t, o)
      PROVE  [Cat!Next]_(Cat!catVars)
  <2> DEFINE S == LibsOf(providers[o])
  <2>1. /\ phase[o] = "live" /\ providers[o] # <<>> /\ call[t].pc = "idle"
        /\ phase' = phase /\ providers' = providers /\ call' = call
        /\ answer' = [answer EXCEPT ![t] = [obj |-> o, libs |-> S]]
        BY <1>4 DEF CopyList
  <2>2. Quiet(o)
    <3>1. CASE ~DiskChanges
          BY <2>1, <3>1, LoopEmpty DEF Quiet
    <3>2. CASE Alone
          BY <2>1, <3>2 DEF Alone, Quiet, InLoop
    <3> QED BY <3>1, <3>2 DEF NobodyDisturbs
  <2>3. AbsListed[o] = S /\ AbsState[o] = "live" /\ S \in SUBSET Libs
        BY <1>0, <2>1, <2>2, AbsListedType DEF AbsListed, AbsState
  <2>4. AbsState' = AbsState /\ AbsListed' = AbsListed
        BY <2>1 DEF AbsState, AbsListed, Quiet, InLoop
  <2>5. AbsListed' = [AbsListed EXCEPT ![o] = S]
        BY <2>3, <2>4, ListedOne
  <2> HIDE DEF S
  <2>6. Cat!Ask(t, o, S)
        BY <2>1, <2>3, <2>4, <2>5 DEF Cat!Ask
  <2> QED BY <2>3, <2>6 DEF Cat!Next
<1>5. ASSUME NEW t \in Threads, NEW o \in Objects, Rescan(t, o)
      PROVE  [Cat!Next]_(Cat!catVars)
  <2>1. /\ \A u \in Threads : u # t => call'[u] = call[u]
        /\ call[t].pc = "idle" /\ call'[t].obj = o
        /\ phase' = phase /\ providers' = providers /\ answer' = answer
        /\ providers[o] = <<>>
        BY <1>0, <1>5 DEF Rescan
  <2>2. AbsState' = AbsState
        BY <2>1, StateKeep
  <2>3. AbsListed'[o] = AbsListed[o]
        BY <2>1, EmptyList DEF AbsListed
  <2>4. \A q \in Objects : q # o => AbsListed'[q] = AbsListed[q]
        BY <2>1, LoopOthers, ListedKeep
  <2>5. AbsListed' = AbsListed
        BY <2>3, <2>4, ListedAll
  <2> QED BY <1>a, <2>1, <2>2, <2>5
<1>6. ASSUME NEW t \in Threads, NEW l \in Libs, Push(t, l) \/ Skip(t, l)
      PROVE  [Cat!Next]_(Cat!catVars)
  <2>0. PICK o \in Objects : o = call[t].obj
        BY <1>0, <1>6, TodoLess
  <2>1. /\ \A u \in Threads : u # t => call'[u] = call[u]
        /\ call[t].pc = "load" /\ call'[t].pc = "load" /\ call'[t].obj = o
        /\ phase' = phase
        BY <1>0, <1>6, <2>0, TodoLess
  <2>2. /\ \A q \in Objects : q # o => providers'[q] = providers[q]
        /\ answer' = answer
        BY <1>0, <1>6, <2>0, PushLibs DEF Push, Skip
  <2>3. InLoop(t, o) /\ InLoop(t, o)'
        BY <2>0, <2>1 DEF InLoop
  <2>4. AbsListed'[o] = AbsListed[o]
        BY <2>3 DEF AbsListed, Quiet
  <2>5. \A q \in Objects : q # o => AbsListed'[q] = AbsListed[q]
        BY <2>0, <2>1, <2>2, LoopOthers, ListedKeep
  <2>6. AbsListed' = AbsListed
        BY <2>4, <2>5, ListedAll
  <2>7. AbsState' = AbsState
        BY <2>1, StateKeep
  <2> QED BY <1>a, <2>2, <2>6, <2>7
<1>7. ASSUME NEW t \in Threads, NEW l \in Libs, Throw(t, l)
      PROVE  [Cat!Next]_(Cat!catVars)
  <2>0. PICK o \in Objects : o = call[t].obj
        BY <1>0, <1>7, ThrowEffect
  <2>1. /\ \A u \in Threads : u # t => call'[u] = call[u]
        /\ call[t].pc = "load" /\ call'[t].pc = "threw"
        /\ \A q \in Objects : q # o =>
              phase'[q] = phase[q] /\ providers'[q] = providers[q]
        /\ phase[o] = "building" => phase'[o] = "dead"
        /\ phase[o] # "building" => phase' = phase
        BY <1>0, <1>7, <2>0, ThrowEffect
  <2>2. answer' = answer
        BY <1>7 DEF Throw
  <2>3. phase[o] \in {"building", "live"} /\ InLoop(t, o)
        BY <1>0, <2>0, <2>1 DEF RaceInv, Busy, InLoop
  <2>4. AbsListed[o] = {}
        BY <2>3 DEF AbsListed, Quiet
  <2>5. \A q \in Objects : q # o => AbsListed'[q] = AbsListed[q]
        BY <2>0, <2>1, LoopOthers, ListedKeep
  <2>6. CASE phase[o] = "building"
    <3>1. AbsState[o] = "unborn" /\ AbsState'[o] = "gone"
          BY <2>1, <2>6 DEF AbsState
    <3>2. AbsState' = [AbsState EXCEPT ![o] = "gone"]
          BY <2>1, <3>1, StateOne
    <3>3. AbsListed'[o] = {}
          BY <2>1, <2>6 DEF AbsListed
    <3>4. AbsListed' = AbsListed
          BY <2>4, <2>5, <3>3, ListedAll
    <3>5. Cat!Abort(o)
          BY <2>2, <3>1, <3>2, <3>4 DEF Cat!Abort
    <3> QED BY <3>5 DEF Cat!Next
  <2>7. CASE phase[o] = "live"
    <3>1. PICK S : S = AbsListed'[o]
          OBVIOUS
    <3>2. S \in SUBSET Libs
      <4>1. providers'[o] \in Seq(ProviderType)
            BY <1>0 DEF TypeOK
      <4>2. LibsOf(providers'[o]) \subseteq Libs
            BY <4>1, LibsOfType
      <4> QED BY <3>1, <4>2 DEF AbsListed
    <3>3. AbsState' = AbsState /\ AbsState[o] = "live"
          BY <2>1, <2>7, StateKeep DEF AbsState
    <3>4. AbsListed' = [AbsListed EXCEPT ![o] = S]
          BY <2>5, <3>1, ListedOne
    <3>5. Cat!Fail(o, S)
          BY <2>2, <2>4, <3>3, <3>4 DEF Cat!Fail
    <3> QED BY <3>2, <3>5 DEF Cat!Next
  <2> QED BY <2>3, <2>6, <2>7
<1>8. ASSUME NEW t \in Threads, Catch(t) PROVE [Cat!Next]_(Cat!catVars)
  <2>1. phase' = phase /\ providers' = providers /\ answer' = answer
        BY <1>8 DEF Catch
  <2>2. \A u \in Threads, q \in Objects : InLoop(u, q)' <=> InLoop(u, q)
        BY <1>0, <1>8, EndEffect DEF InLoop, Catch
  <2>3. AbsState' = AbsState /\ AbsListed' = AbsListed
        BY <2>1, <2>2, StateKeep, ListedKeep, ListedAll
  <2> QED BY <1>a, <2>1, <2>3
<1>9. ASSUME NEW t \in Threads, Finish(t) PROVE [Cat!Next]_(Cat!catVars)
  <2>0. PICK o \in Objects : o = call[t].obj
        BY <1>0, <1>9, CallObject DEF Finish
  <2> DEFINE S == LibsOf(providers[o])
  <2>1. /\ \A u \in Threads : u # t => call'[u] = call[u]
        /\ call[t].pc = "load" /\ call'[t].pc = "idle"
        /\ providers' = providers
        BY <1>0, <1>9, EndEffect DEF Finish
  <2>2. Busy(t) /\ phase[o] \in {"building", "live"} /\ InLoop(t, o)
        BY <1>0, <2>0, <2>1 DEF RaceInv, Busy, InLoop
  <2>3. AbsListed[o] = {} /\ S \in SUBSET Libs
        BY <1>0, <2>2, AbsListedType DEF AbsListed, Quiet
  <2>4. CASE phase[o] = "building"
    <3>1. /\ phase'[o] = "live" /\ answer' = answer
          /\ \A q \in Objects : q # o => phase'[q] = phase[q]
          BY <1>0, <1>9, <2>0, <2>4 DEF Finish
    <3>2. \A u \in Threads : ~InLoop(u, o)'
      <4>1. \A u \in Threads : u # t /\ Busy(u) => call[u].obj # o
            BY <1>0, <2>0, <2>2, <2>4, Exclusive
      <4> QED BY <2>1, <4>1 DEF InLoop, Busy
    <3>3. AbsListed'[o] = S
          BY <2>1, <3>1, <3>2 DEF AbsListed, Quiet
    <3>4. \A q \in Objects : q # o => AbsListed'[q] = AbsListed[q]
          BY <2>0, <2>1, <3>1, LoopOthers, ListedKeep
    <3>5. AbsListed' = [AbsListed EXCEPT ![o] = S]
          BY <3>3, <3>4, ListedOne
    <3>6. AbsState[o] = "unborn" /\ AbsState'[o] = "live"
          BY <2>4, <3>1 DEF AbsState
    <3>7. AbsState' = [AbsState EXCEPT ![o] = "live"]
          BY <3>1, <3>6, StateOne
    <3> HIDE DEF S
    <3>8. Cat!Create(o, S)
          BY <3>1, <3>5, <3>6, <3>7 DEF Cat!Create
    <3> QED BY <2>3, <3>8 DEF Cat!Next
  <2>5. CASE phase[o] = "live"
    <3>1. /\ phase' = phase
          /\ answer' = [answer EXCEPT ![t] = [obj |-> o, libs |-> S]]
          BY <1>9, <2>0, <2>5 DEF Finish
    <3>2. AbsListed'[o] = S
      <4>1. CASE ~DiskChanges
        <5>1. providers[o] = <<>>
              BY <2>2, <2>5, <4>1, LoopEmpty
        <5> QED BY <2>1, <5>1, EmptyList DEF AbsListed
      <4>2. CASE Alone
        <5>1. \A u \in Threads : ~InLoop(u, o)'
              BY <2>1, <4>2 DEF Alone, InLoop
        <5> QED BY <2>1, <2>5, <3>1, <5>1 DEF AbsListed, Quiet
      <4> QED BY <4>1, <4>2 DEF NobodyDisturbs
    <3>3. \A q \in Objects : q # o => AbsListed'[q] = AbsListed[q]
          BY <2>0, <2>1, <3>1, LoopOthers, ListedKeep
    <3>4. AbsListed' = [AbsListed EXCEPT ![o] = S]
          BY <3>2, <3>3, ListedOne
    <3>5. AbsState' = AbsState /\ AbsState[o] = "live"
          BY <2>5, <3>1, StateKeep DEF AbsState
    <3> HIDE DEF S
    <3>6. Cat!Ask(t, o, S)
          BY <2>3, <3>1, <3>4, <3>5 DEF Cat!Ask
    <3> QED BY <2>3, <3>6 DEF Cat!Next
  <2> QED BY <2>2, <2>4, <2>5
<1>10. ASSUME NEW t \in Threads, NEW o \in Objects, Destroy(t, o)
       PROVE  [Cat!Next]_(Cat!catVars)
  <2>1. /\ phase[o] = "live" /\ phase'[o] = "dead"
        /\ \A q \in Objects : q # o => phase'[q] = phase[q] /\ providers'[q] = providers[q]
        /\ call' = call /\ answer' = answer
        BY <1>0, <1>10 DEF Destroy
  <2>2. AbsState[o] = "live" /\ AbsState'[o] = "gone" /\ AbsListed'[o] = {}
        BY <2>1 DEF AbsState, AbsListed
  <2>3. AbsState' = [AbsState EXCEPT ![o] = "gone"]
        BY <2>1, <2>2, StateOne
  <2>4. \A q \in Objects : q # o => AbsListed'[q] = AbsListed[q]
        BY <2>1, ListedKeep DEF InLoop
  <2>5. AbsListed' = [AbsListed EXCEPT ![o] = {}]
        BY <2>2, <2>4, ListedOne
  <2>6. Cat!Retire(o)
        BY <2>1, <2>2, <2>3, <2>5 DEF Cat!Retire
  <2> QED BY <2>6 DEF Cat!Next
<1>11. ASSUME NEW l \in Libs, NEW e \in Entries, Reinstall(l, e)
       PROVE  [Cat!Next]_(Cat!catVars)
       BY <1>b, <1>11 DEF Reinstall
<1>12. CASE UNCHANGED vars
       BY <1>b, <1>12 DEF vars
<1> QED BY <1>1, <1>2, <1>3, <1>4, <1>5, <1>6, <1>7, <1>8, <1>9, <1>10, <1>11,
           <1>12 DEF Next, Step

(* In an installation nobody changes, or for a program of one thread, the   *)
(* registry is a catalogue: what an object shows is settled in one step.    *)
THEOREM RegistryImplementsCatalogue ==
    ASSUME NobodyDisturbs
    PROVE  Spec => IsCatalogue
<1>1. Init => RegistryInv /\ Cat!Init
      BY RegistryInit, CatInit
<1>2. RegistryInv /\ [Next]_vars => RegistryInv'
      BY RegistryStep
<1>3. RegistryInv /\ RegistryInv' /\ [Next]_vars => [Cat!Next]_(Cat!catVars)
      BY CatStep
<1> QED BY <1>1, <1>2, <1>3, PTL DEF Spec, IsCatalogue, Cat!Spec
=============================================================================
