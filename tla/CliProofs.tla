----------------------------- MODULE CliProofs ------------------------------
(****************************************************************************)
(* Proofs about Cli, for every command line and every contents of the files *)
(* it names: what getopt_long leaves to main, what -P lists, and that main  *)
(* does what a line of the documented form asks for.                        *)
(****************************************************************************)
EXTENDS Cli, GetoptProofs, Functions, SequenceTheorems

-----------------------------------------------------------------------------
(* The line, the operands and what -P lists.                                *)

(* -P ends token j.                                                         *)
ListsAt(line, px, j) ==
    Roles(line, px)[j] = "option" /\ Last(Meant(line[j]).letters) = "-P"

(* No token before the one main is at has listed providers.                 *)
NoneListed == \A i \in 1..(optind - 1) : ~ListsAt(given, posixly_correct, i)

(* What main knows of the line while it scans it and after.                 *)
LineInv ==
    /\ given \in Argvs
    /\ pc \in {"options", "running"} \cup Exits
    /\ pc = "options" => Scanning /\ NoneListed
    /\ OperandsLast
    /\ ListedAsAsked

(* Of what getopt_long returns, how many tokens are done.                   *)
LEMMA ReturnsScan ==
    ASSUME given \in Argvs, Scanning
    PROVE  /\ ReturnsError => Scanning' /\ Letter # "-P"
           /\ \A S : ReturnsOption(S) => Scanning' /\ Letter \in S
<1>1. ASSUME IsOption, Separate PROVE Letter \in WithArgument
  <2>1. Takes(Meant(Here)) /\ Letter = Meant(Here).letters[place + 1]
        /\ place + 1 = Len(Meant(Here).letters)
        BY <1>1, OptionFacts
  <2> QED BY <2>1 DEF Takes, Last
<1>2. \A c \in WithArgument : c # "-x" /\ c # "-P"
      BY DEF WithArgument
<1>3. ASSUME ReturnsError PROVE Scanning' /\ Letter # "-P"
  <2>1. IsOption /\ Refused /\ OptionOf(1)
        BY <1>3 DEF ReturnsError
  <2>2. ~(Separate /\ ~AtEnd)
        BY <1>1, <1>2, <2>1 DEF Refused
  <2>3. 1 = IF Separate /\ ~AtEnd THEN 2 ELSE 1
        BY <2>2
  <2>4. Letter # "-P"
        BY <1>1, <1>2, <2>1 DEF Refused
  <2> QED BY <2>1, <2>3, <2>4, OptionScans
<1>4. ASSUME NEW S, ReturnsOption(S) PROVE Scanning' /\ Letter \in S
  <2> DEFINE n == IF Separate THEN 2 ELSE 1
  <2>1. IsOption /\ ~Refused /\ Letter \in S /\ OptionOf(n)
        BY <1>4 DEF ReturnsOption
  <2>2. n = IF Separate /\ ~AtEnd THEN 2 ELSE 1
        BY <2>1 DEF Refused
  <2> HIDE DEF n
  <2> QED BY <2>1, <2>2, OptionScans
<1> QED BY <1>3, <1>4

(* Tokens are passed over one option at a time.                             *)
LEMMA NoneListedStays ==
    ASSUME given \in Argvs, Scanning, NoneListed, IsOption, Letter # "-P",
           NEW n, n = IF Separate /\ ~AtEnd THEN 2 ELSE 1, OptionOf(n)
    PROVE  NoneListed'
<1> DEFINE o == optind
<1>1. /\ o \in 1..Len(given) /\ Len(given) \in Nat /\ Here = given[o]
      /\ Letter = Meant(given[o]).letters[place + 1]
      /\ LastLetter <=> place + 1 = Len(Meant(given[o]).letters)
      /\ Separate <=> LastLetter /\ Takes(Meant(given[o]))
      /\ AtEnd <=> o = Len(given)
      /\ given \in Seq(Tokens) /\ Here \notin Words \cup {"--"}
      BY OptionFacts, HereFacts
<1>2. given' = given /\ posixly_correct' = posixly_correct
      BY DEF OptionOf
<1>3. CASE ~LastLetter
  <2>1. optind' = optind
        BY <1>3 DEF OptionOf
  <2> QED BY <1>2, <2>1 DEF NoneListed
<1>4. CASE LastLetter
  <2>1. optind' = o + n
        BY <1>4 DEF OptionOf
  <2>2. ~ListsAt(given, posixly_correct, o)
        BY <1>1, <1>4 DEF ListsAt, Last
  <2>3. n = 2 => ~ListsAt(given, posixly_correct, o + 1)
    <3> SUFFICES ASSUME n = 2 PROVE ~ListsAt(given, posixly_correct, o + 1)
        OBVIOUS
    <3>1. Takes(Meant(given[o])) /\ o < Len(given) /\ o <= Len(given)
          BY <1>1
    <3>2. Roles(given, posixly_correct)[o] = Fresh(given[o], posixly_correct)
          BY <3>1 DEF Scanning, Scans, At
    <3>3. Roles(given, posixly_correct)[o + 1] = "argument"
          BY <1>1, <3>1, <3>2, NextRoles
    <3> QED BY <3>3 DEF ListsAt
  <2>4. \A i \in 1..((o + n) - 1) : i \in 1..(o - 1) \/ i = o \/ (n = 2 /\ i = o + 1)
        BY <1>1
  <2> HIDE DEF o
  <2>5. \A i \in 1..((o + n) - 1) : ~ListsAt(given, posixly_correct, i)
        BY <2>2, <2>3, <2>4 DEF NoneListed, o
  <2> QED BY <1>2, <2>1, <2>5 DEF NoneListed
<1> QED BY <1>3, <1>4

(* ListedAsAsked, of any line and any list printed.                         *)
ListedIs(line, px, printed) ==
    LET j == CHOOSE j \in DOMAIN line :
                 ListsAt(line, px, j) /\ \A i \in 1..(j - 1) : ~ListsAt(line, px, i)
        arg == Meant(line[j]).arg
    IN  /\ \E i \in DOMAIN line : ListsAt(line, px, i)
        /\ arg # None => printed = Installed \cap {arg}
        /\ arg = None /\ j = Len(line) => printed = Installed
        /\ arg = None /\ j < Len(line) =>
              (line[j + 1] \in Words => printed = Installed \cap {line[j + 1]})

(* ListedAsAsked, now and in the next state, said of its variables.         *)
LEMMA ListedAsAskedIs ==
    /\ ListedAsAsked <=> (pc = "listed" => ListedIs(given, posixly_correct, listing))
    /\ ListedAsAsked' <=> (pc' = "listed" => ListedIs(given', posixly_correct', listing'))
BY DEF ListedAsAsked, ListedIs, ListsAt, Role

(* The first -P prints the modality behind it, or everything.               *)
LEMMA ListsAsked ==
    ASSUME given \in Argvs, Scanning, NoneListed, IsOption, Letter = "-P"
    PROVE  ListedIs(given, posixly_correct, Printed)
<1> DEFINE o == optind
           N == Len(given)
           s == Meant(given[o])
           L(i) == ListsAt(given, posixly_correct, i)
<1>1. /\ o \in 1..N /\ N \in Nat /\ Here = given[o]
      /\ Letter = s.letters[place + 1] /\ place \in Nat
      /\ place + 1 \in 1..Len(s.letters)
      /\ LastLetter <=> place + 1 = Len(s.letters)
      /\ Separate <=> LastLetter /\ Takes(s)
      /\ Roles(given, posixly_correct)[o] = "option"
      /\ AtEnd <=> o = N
      /\ given \in Seq(Tokens) /\ Here \in OptionTokens
      /\ Spelled(Here) = s
      /\ \A k \in o..N : argv[k] = given[k]
      BY OptionFacts, HereFacts
<1>2. LastLetter
  <2>1. \A i \in 1..(Len(s.letters) - 1) : s.letters[i] \in WithoutArgument
        BY <1>1, SpelledIsMeant
  <2>2. place + 1 # Len(s.letters) => place + 1 \in 1..(Len(s.letters) - 1)
        BY <1>1
  <2> QED BY <1>1, <2>1, <2>2 DEF WithoutArgument
<1>3. Last(s.letters) = "-P" /\ ~Takes(s)
      BY <1>1, <1>2 DEF Last, Takes, WithArgument
<1>4. L(o) /\ \A i \in 1..(o - 1) : ~L(i)
      BY <1>1, <1>3 DEF ListsAt, NoneListed
<1>5. Optarg = s.arg
      BY <1>1, <1>2, <1>3 DEF Optarg
<1>6. DOMAIN given = 1..N
      BY <1>1
<1>7. (CHOOSE j \in DOMAIN given : L(j) /\ \A i \in 1..(j - 1) : ~L(i)) = o
  <2> DEFINE P(j) == L(j) /\ \A i \in 1..(j - 1) : ~L(i)
  <2>1. \A j \in 1..N : P(j) => j = o
    <3> TAKE j \in 1..N
    <3> HAVE P(j)
    <3>1. ~(j < o)
      <4> SUFFICES ASSUME j < o PROVE FALSE
          OBVIOUS
      <4>1. j \in 1..(o - 1)
            BY <1>1
      <4> HIDE DEF L
      <4> QED BY <1>4, <4>1
    <3>2. ~(o < j)
      <4> SUFFICES ASSUME o < j PROVE FALSE
          OBVIOUS
      <4>1. o \in 1..(j - 1)
            BY <1>1
      <4> HIDE DEF L
      <4> QED BY <1>4, <4>1
    <3>3. j \in Int /\ o \in Int
          BY <1>1
    <3> QED BY <3>1, <3>2, <3>3
  <2>2. P(o) /\ o \in 1..N
        BY <1>1, <1>4
  <2> HIDE DEF P, o, N
  <2>3. (CHOOSE j \in 1..N : P(j)) = o
        BY <2>1, <2>2
  <2> QED BY <1>6, <2>3 DEF P, N
<1>8. /\ s.arg # None => Printed = Installed \cap {s.arg}
      /\ s.arg = None /\ o = N => Printed = Installed
      /\ s.arg = None /\ o < N /\ given[o + 1] \in Words =>
            Printed = Installed \cap {given[o + 1]}
  <2>1. s.arg # None => Asked = s.arg
        BY <1>5 DEF Asked
  <2>2. s.arg = None /\ o = N => Asked = None
        BY <1>1, <1>5 DEF Asked
  <2>3. s.arg = None /\ o < N => Asked = given[o + 1]
    <3>1. o < N => o + 1 \in o..N /\ o # N
          BY <1>1
    <3> QED BY <1>1, <1>5, <3>1 DEF Asked
  <2>4. \A w \in Words : w # None
        BY TokensAssumption
  <2> QED BY <2>1, <2>2, <2>3, <2>4 DEF Printed
<1>9. \E i \in DOMAIN given : L(i)
      BY <1>1, <1>4, <1>6
<1> HIDE DEF o, N
<1> QED BY <1>7, <1>8, <1>9 DEF ListedIs, N

(* The invariant holds when main begins ...                                 *)
LEMMA LineInvInit == Init => LineInv
<1> SUFFICES ASSUME Init PROVE LineInv
    OBVIOUS
<1> DEFINE N == Len(given)
           ps == OptionPlaces(given, posixly_correct)
           qs == OperandPlaces(given, posixly_correct)
<1>1. /\ given \in Argvs /\ given \in Seq(Tokens) /\ N \in Nat
      /\ argv = given /\ optind = 1 /\ place = 0
      /\ nonopt_start = -1 /\ nonopt_end = -1 /\ pc = "options"
      BY ArgvsAssumption DEF Init, InitGetopt
<1>2. At(given, posixly_correct, given, 1, 0)
  <2>1. given = [k \in 1..N |-> given[k]] /\ \A k \in 1..N : given[k] \in Tokens
        BY <1>1
  <2>2. 1 <= N => Roles(given, posixly_correct)[1] = Fresh(given[1], posixly_correct)
        BY <1>1, RoleFacts
  <2>3. 1 \in 1..(N + 1) /\ 0 \in Nat
        BY <1>1
  <2> QED BY <2>1, <2>2, <2>3 DEF At, Listed
<1>3. LaidAt(ps, qs, given, given, 1, 0, -1, -1)
  <2>1. Split(ps, qs, N)
        BY <1>1, PlacesSplit
  <2>2. Rank(qs, 0) = 0 /\ 1 - 1 = 0
    <3>1. qs \in SUBSET (Nat \ {0})
          BY <2>1 DEF Split
    <3> HIDE DEF qs
    <3> QED BY <3>1, RankStep
  <2>3. \A j \in 1..(1 - 1) : FALSE
        OBVIOUS
  <2>4. Lay(given, given, ps, qs, 1, 1)
        BY <2>3 DEF Lay
  <2> QED BY <2>2, <2>4 DEF LaidAt
<1>4. Scanning
      BY <1>1, <1>2, <1>3 DEF Scanning, Scans
<1>5. NoneListed
      BY <1>1 DEF NoneListed
<1> QED BY <1>1, <1>4, <1>5 DEF LineInv, OperandsLast, ListedAsAsked

(* ... and whatever main does.                                              *)
LEMMA LineInvNext == LineInv /\ [Next]_vars => LineInv'
<1> SUFFICES ASSUME LineInv, [Next]_vars PROVE LineInv'
    OBVIOUS
<1> USE DEF Exits
<1>1. given \in Argvs /\ given' = given /\ posixly_correct' = posixly_correct
  <2>1. given \in Argvs
        BY DEF LineInv
  <2>2. given' = given /\ posixly_correct' = posixly_correct
        BY DEF Next, vars, getoptVars, NoArguments, Operand, BadOption, HelpOrVersion,
               SetFormat, SetOutput, SetList, Command, ListProviders, Choose,
               RunProvider, RunThrows, Finish, Option, ReturnsOption, ReturnsError,
               OptionOf, SkipOperand, NoMoreOptions, StopAt
  <2> QED BY <2>1, <2>2
<1>2. \/ pc = "options" /\ Scanning /\ NoneListed
      \/ pc \in {"running"} \cup Exits
      BY DEF LineInv
(* The loop goes on.                                                        *)
<1>3. ASSUME pc' = "options", Scanning', NoneListed' PROVE LineInv'
      BY <1>1, <1>3 DEF LineInv, OperandsLast, ListedAsAsked
(* The process ends, with neither operands nor a list.                      *)
<1>4. ASSUME pc' \in {"exit 0", "abort"} PROVE LineInv'
      BY <1>1, <1>4 DEF LineInv, OperandsLast, ListedAsAsked
<1>5. CASE NoArguments
      BY <1>4, <1>5 DEF NoArguments
<1>6. CASE Operand
  <2>1. pc = "options" /\ pc' = "options" /\ SkipOperand /\ Scanning /\ NoneListed
        BY <1>2, <1>6 DEF Operand, mainVars
  <2>2. Scanning'
        BY <1>1, <2>1, SkipScans
  <2>3. NoneListed'
    <3>1. optind' = optind + 1 /\ optind \in 1..Len(given)
          /\ ~ListsAt(given, posixly_correct, optind)
      <4>1. More /\ Here \in Words /\ ~posixly_correct /\ optind' = optind + 1
            BY <2>1 DEF SkipOperand
      <4>2. optind \in 1..Len(given) /\ Here = given[optind] /\ given \in Seq(Tokens)
            BY <1>1, <2>1, <4>1, HereFacts
      <4>3. Roles(given, posixly_correct)[optind] = Fresh(given[optind], posixly_correct)
            BY <2>1, <4>2 DEF Scanning, Scans, At
      <4>4. Roles(given, posixly_correct)[optind] = "operand"
            BY <4>1, <4>2, <4>3, NextRoles
      <4> QED BY <4>1, <4>2, <4>4 DEF ListsAt
    <3>2. \A i \in 1..((optind + 1) - 1) : i \in 1..(optind - 1) \/ i = optind
          BY <3>1
    <3> QED BY <1>1, <2>1, <3>1, <3>2 DEF NoneListed
  <2> QED BY <1>3, <2>1, <2>2, <2>3
<1>7. ASSUME pc = "options", pc' = "options",
             ReturnsError \/ \E S : ReturnsOption(S) /\ "-P" \notin S
      PROVE  LineInv'
  <2>1. Scanning /\ NoneListed
        BY <1>2, <1>7
  <2>2. Scanning' /\ Letter # "-P" /\ IsOption
        BY <1>1, <1>7, <2>1, ReturnsScan DEF ReturnsOption, ReturnsError
  <2>3. PICK n : n = (IF Separate /\ ~AtEnd THEN 2 ELSE 1) /\ OptionOf(n)
    <3>1. CASE ReturnsError
      <4>1. Refused /\ OptionOf(1)
            BY <3>1 DEF ReturnsError
      <4>2. Letter = "-x" => ~Separate
        <5>1. Separate => Takes(Meant(Here)) /\ Letter = Last(Meant(Here).letters)
              BY <1>1, <2>1, <2>2, OptionFacts DEF Last
        <5> QED BY <5>1 DEF Takes, WithArgument
      <4> QED BY <4>1, <4>2 DEF Refused
    <3>2. CASE \E S : ReturnsOption(S)
      <4>1. ~Refused /\ OptionOf(IF Separate THEN 2 ELSE 1)
            BY <3>2 DEF ReturnsOption
      <4> QED BY <4>1 DEF Refused
    <3> QED BY <1>7, <3>1, <3>2
  <2>4. NoneListed'
        BY <1>1, <2>1, <2>2, <2>3, NoneListedStays
  <2> QED BY <1>3, <1>7, <2>2, <2>4
<1>8. CASE BadOption
      BY <1>7, <1>8 DEF BadOption, mainVars
<1>9. CASE HelpOrVersion
      BY <1>4, <1>9 DEF HelpOrVersion
<1>10. CASE SetFormat
       BY <1>7, <1>10 DEF SetFormat, Option
<1>11. CASE SetOutput
       BY <1>7, <1>11 DEF SetOutput, Option
<1>12. CASE SetList
       BY <1>7, <1>12 DEF SetList, Option
<1>13. CASE Command
       BY <1>7, <1>13 DEF Command, Option
<1>14. CASE ListProviders
  <2>1. pc = "options" /\ ReturnsOption({"-P"}) /\ Scanning /\ NoneListed
        BY <1>2, <1>14 DEF ListProviders
  <2>2. CASE pc' = "abort"
        BY <1>4, <2>2
  <2>3. CASE pc' = "listed" /\ listing' = Printed
    <3>1. IsOption /\ Letter = "-P"
          BY <2>1 DEF ReturnsOption
    <3>2. ListedIs(given, posixly_correct, Printed)
          BY <1>1, <2>1, <3>1, ListsAsked
    <3>3. ListedAsAsked'
          BY <1>1, <2>3, <3>2, ListedAsAskedIs
    <3> QED BY <1>1, <2>3, <3>3 DEF LineInv, OperandsLast
  <2> QED BY <1>14, <2>2, <2>3 DEF ListProviders
<1>15. CASE Choose
  <2>1. pc = "options" /\ NoMoreOptions /\ Scanning /\ pc' \in {"running", "abort", "exit -1"}
        BY <1>2, <1>15 DEF Choose
  <2>2. Arranged'
        BY <1>1, <2>1, StopArranges
  <2> QED BY <1>1, <2>1, <2>2 DEF LineInv, OperandsLast, ListedAsAsked
<1>16. ASSUME pc = "running", pc' = "running", UNCHANGED getoptVars PROVE LineInv'
  <2>1. Arranged
        BY <1>16 DEF LineInv, OperandsLast
  <2>2. Arranged'
        BY <1>16, <2>1, ArrangedIs DEF getoptVars
  <2> QED BY <1>1, <1>16, <2>2 DEF LineInv, OperandsLast, ListedAsAsked
<1>17. CASE \E ok \in BOOLEAN : RunProvider(ok)
       BY <1>16, <1>17 DEF RunProvider
<1>18. CASE RunThrows
       BY <1>4, <1>18 DEF RunThrows
<1>19. CASE Finish
       BY <1>4, <1>19 DEF Finish
<1>20. CASE UNCHANGED vars
  <2>1. UNCHANGED <<given, posixly_correct, argv, optind, place, nonopt_start,
                    nonopt_end, pc, listing>>
        BY <1>20 DEF vars, getoptVars, mainVars
  <2>2. Scanning' <=> Scanning
        BY <2>1 DEF Scanning
  <2>3. NoneListed' <=> NoneListed
        BY <2>1 DEF NoneListed
  <2>4. OperandsLast' <=> OperandsLast
        BY <2>1, ArrangedIs DEF OperandsLast
  <2>5. ListedAsAsked' <=> ListedAsAsked
        BY <2>1, ListedAsAskedIs
  <2> QED BY <2>1, <2>2, <2>3, <2>4, <2>5 DEF LineInv
<1> QED BY <1>5, <1>6, <1>8, <1>9, <1>10, <1>11, <1>12, <1>13, <1>14, <1>15,
           <1>17, <1>18, <1>19, <1>20 DEF Next

(* When main looks for its input file at argv[argc - 1], getopt_long has    *)
(* put the options and their arguments first and the operands last, each in *)
(* their order, for every command line: argv[argc - 1] is the last operand  *)
(* if there is one.                                                         *)
THEOREM OperandsAreLast == Spec => []OperandsLast
<1>1. Spec => []LineInv
      BY LineInvInit, LineInvNext, PTL DEF Spec
<1>2. LineInv => OperandsLast
      BY DEF LineInv
<1> QED BY <1>1, <1>2, PTL

(* What -P prints are the installed providers of the modality attached to   *)
(* it or typed behind it, or all of them, whatever is before it on the      *)
(* line.                                                                    *)
THEOREM ProvidersListed == Spec => []ListedAsAsked
<1>1. Spec => []LineInv
      BY LineInvInit, LineInvNext, PTL DEF Spec
<1>2. LineInv => ListedAsAsked
      BY DEF LineInv
<1> QED BY <1>1, <1>2, PTL

-----------------------------------------------------------------------------
(* The options typed, and those getopt_long has returned.                   *)

(* The options typed on a line.                                             *)
TypedOf(line, px) == TypedIn(line, Roles(line, px))

(* The argument of letter i of token j.                                     *)
ArgumentAt(line, j, i) ==
    LET s == Meant(line[j])
    IN  IF i < Len(s.letters) THEN None
        ELSE IF Takes(s) /\ j < Len(line) THEN line[j + 1] ELSE s.arg

(* Letter i of token j is an option.                                        *)
IsTyped(line, px, j, i) ==
    /\ j \in 1..Len(line) /\ Roles(line, px)[j] = "option"
    /\ i \in 1..Len(Meant(line[j]).letters)

(* The options typed are the letters of the option tokens.                  *)
LEMMA TypedFacts ==
    ASSUME NEW line \in Seq(Tokens), NEW px
    PROVE  /\ \A p \in DOMAIN TypedOf(line, px) : \E j, i : IsTyped(line, px, j, i) /\ p = <<j, i>>
           /\ \A j, i : IsTyped(line, px, j, i) =>
                 /\ <<j, i>> \in DOMAIN TypedOf(line, px)
                 /\ TypedOf(line, px)[<<j, i>>] =
                       <<Meant(line[j]).letters[i], ArgumentAt(line, j, i)>>
<1> DEFINE role == Roles(line, px)
           js == Places(role, {"option"})
           F(j) == {j} \X (1..Len(Meant(line[j]).letters))
           D == UNION {F(j) : j \in js}
           G(p) == <<Meant(line[p[1]]).letters[p[2]], ArgumentAt(line, p[1], p[2])>>
<1>1. js = {j \in 1..Len(line) : role[j] = "option"}
  <2>1. DOMAIN role = 1..Len(line)
        BY RoleFacts
  <2> HIDE DEF role
  <2> QED BY <2>1 DEF Places
<1>2. TypedOf(line, px) = [p \in D |-> G(p)]
      BY DEF TypedOf, TypedIn, ArgumentAt
<1> HIDE DEF js, G
<1>3. \A p : p \in D <=> \E j \in js : p \in F(j)
  <2> HIDE DEF F
  <2> QED OBVIOUS
<1>4. \A p \in D : \E j, i : IsTyped(line, px, j, i) /\ p = <<j, i>>
  <2> TAKE p \in D
  <2>1. PICK j \in js : p \in F(j)
        BY <1>3
  <2>2. PICK i \in 1..Len(Meant(line[j]).letters) : p = <<j, i>>
        BY <2>1
  <2> QED BY <1>1, <2>1, <2>2 DEF IsTyped
<1>5. ASSUME NEW j, NEW i, IsTyped(line, px, j, i)
      PROVE  /\ <<j, i>> \in D
             /\ G(<<j, i>>) = <<Meant(line[j]).letters[i], ArgumentAt(line, j, i)>>
  <2>1. j \in js /\ <<j, i>> \in F(j)
        BY <1>1, <1>5 DEF IsTyped
  <2>2. <<j, i>>[1] = j /\ <<j, i>>[2] = i
        OBVIOUS
  <2> QED BY <1>3, <2>1, <2>2 DEF G
<1> HIDE DEF D, F
<1> QED BY <1>2, <1>4, <1>5

(* What has the role of an option is spelled like one.                      *)
LEMMA OptionTyped ==
    ASSUME NEW line \in Seq(Tokens), NEW px, NEW j \in 1..Len(line),
           Roles(line, px)[j] = "option"
    PROVE  line[j] \in OptionTokens /\ line[j] \notin Words \cup {"--"}
<1> DEFINE N == Len(line)
<1>1. Fresh(line[j], px) = "option"
  <2>1. CASE j = 1
    <3>1. N > 0
          OBVIOUS
    <3> QED BY <2>1, <3>1, RoleFacts
  <2>2. CASE j # 1
    <3> DEFINE k == j - 1
    <3>1. k \in 1..(N - 1) /\ k + 1 = j
          BY <2>2
    <3> HIDE DEF k
    <3>2. Roles(line, px)[k + 1] =
             IF Roles(line, px)[k] \in {"end", "behind"} THEN "behind"
             ELSE IF Roles(line, px)[k] = "option" /\ Takes(Meant(line[k]))
                  THEN "argument"
             ELSE Fresh(line[k + 1], px)
          BY <3>1, RoleFacts
    <3> QED BY <3>1, <3>2
  <2> QED BY <2>1, <2>2
<1>2. line[j] \notin Words \cup {"--"}
      BY <1>1 DEF Fresh
<1>3. line[j] \in Tokens
      OBVIOUS
<1> QED BY <1>2, <1>3 DEF Tokens

(* The options before letter pl + 1 of token o.                             *)
Seen(line, px, o, pl) ==
    {p \in DOMAIN TypedOf(line, px) : p[1] < o \/ (p[1] = o /\ p[2] <= pl)}

(* None has been seen at the beginning.                                     *)
LEMMA SeenStart ==
    ASSUME NEW line \in Seq(Tokens), NEW px
    PROVE  Seen(line, px, 1, 0) = {}
<1>1. \A p \in DOMAIN TypedOf(line, px) : ~(p[1] < 1) /\ ~(p[2] <= 0)
  <2> TAKE p \in DOMAIN TypedOf(line, px)
  <2>1. PICK j, i : IsTyped(line, px, j, i) /\ p = <<j, i>>
        BY TypedFacts
  <2>2. j \in Int /\ j >= 1 /\ i \in Int /\ i >= 1 /\ p[1] = j /\ p[2] = i
        BY <2>1 DEF IsTyped
  <2> QED BY <2>2
<1> QED BY <1>1 DEF Seen

(* There is none in a token that is no option.                              *)
LEMMA SeenOperand ==
    ASSUME NEW line \in Seq(Tokens), NEW px, NEW o \in 1..Len(line),
           Roles(line, px)[o] # "option"
    PROVE  Seen(line, px, o + 1, 0) = Seen(line, px, o, 0)
<1>1. ASSUME NEW p \in DOMAIN TypedOf(line, px)
      PROVE  p[1] < o + 1 \/ (p[1] = o + 1 /\ p[2] <= 0) <=>
             p[1] < o \/ (p[1] = o /\ p[2] <= 0)
  <2>1. PICK j, i : IsTyped(line, px, j, i) /\ p = <<j, i>>
        BY TypedFacts
  <2>2. j \in Int /\ i \in Int /\ i >= 1 /\ p[1] = j /\ p[2] = i /\ j # o
        BY <2>1 DEF IsTyped
  <2> QED BY <2>2
<1> QED BY <1>1 DEF Seen

(* Once there are only operands, every option has been seen.                *)
LEMMA SeenAll ==
    ASSUME NEW line \in Seq(Tokens), NEW px, NEW o \in 1..(Len(line) + 1),
           \A k \in o..Len(line) : Roles(line, px)[k] # "option"
    PROVE  Seen(line, px, o, 0) = DOMAIN TypedOf(line, px)
<1>1. ASSUME NEW p \in DOMAIN TypedOf(line, px) PROVE p[1] < o
  <2>1. PICK j, i : IsTyped(line, px, j, i) /\ p = <<j, i>>
        BY TypedFacts
  <2>2. j \in 1..Len(line) /\ p[1] = j /\ j \notin o..Len(line)
        BY <2>1 DEF IsTyped
  <2> QED BY <2>2
<1> QED BY <1>1 DEF Seen

(* The options are seen in the order in which they were typed.              *)
LEMMA SeenNext ==
    ASSUME NEW line \in Seq(Tokens), NEW px, NEW o \in 1..Len(line), NEW pl \in Nat,
           Roles(line, px)[o] = "option",
           pl + 1 \in 1..Len(Meant(line[o]).letters)
    PROVE  LET q == <<o, pl + 1>>
               D == Seen(line, px, o, pl) \cup {q}
           IN  /\ q \in DOMAIN TypedOf(line, px)
               /\ \A p \in Seen(line, px, o, pl) : Earlier(p, q) /\ ~Earlier(q, p)
               /\ ~Earlier(q, q)
               /\ Seen(line, px, o, pl + 1) = D
               /\ pl + 1 = Len(Meant(line[o]).letters) =>
                     /\ Seen(line, px, o + 1, 0) = D
                     /\ o < Len(line) /\ Roles(line, px)[o + 1] # "option" =>
                           Seen(line, px, o + 2, 0) = D
<1> DEFINE q == <<o, pl + 1>>
           n == Len(Meant(line[o]).letters)
           T == DOMAIN TypedOf(line, px)
<1>1. q \in T /\ q[1] = o /\ q[2] = pl + 1
      BY TypedFacts DEF IsTyped
<1>2. \A p \in T : /\ p[1] \in 1..Len(line) /\ p[2] \in Nat \ {0} /\ p = <<p[1], p[2]>>
                   /\ p[1] = o => p[2] <= n
                   /\ Roles(line, px)[p[1]] = "option"
  <2> TAKE p \in T
  <2>1. PICK j, i : IsTyped(line, px, j, i) /\ p = <<j, i>>
        BY TypedFacts
  <2>2. /\ j \in 1..Len(line) /\ i \in 1..Len(Meant(line[j]).letters)
        /\ p[1] = j /\ p[2] = i /\ Roles(line, px)[j] = "option"
        BY <2>1 DEF IsTyped
  <2> QED BY <2>1, <2>2
<1>3. n \in Int /\ pl \in Nat /\ o \in Int
      OBVIOUS
<1> HIDE DEF q, n, T
<1>4. \A p \in T : p = q <=> p[1] = o /\ p[2] = pl + 1
      BY <1>1, <1>2 DEF q
<1>5. \A p \in Seen(line, px, o, pl) : Earlier(p, q) /\ ~Earlier(q, p)
  <2> TAKE p \in Seen(line, px, o, pl)
  <2>1. p \in T /\ (p[1] < o \/ (p[1] = o /\ p[2] <= pl))
        BY DEF Seen, T
  <2>2. p[1] \in Int /\ p[2] \in Int
        BY <1>2, <2>1
  <2> QED BY <1>1, <1>3, <2>1, <2>2 DEF Earlier
<1>6. ~Earlier(q, q)
      BY <1>1, <1>3 DEF Earlier
<1>7. Seen(line, px, o, pl + 1) = Seen(line, px, o, pl) \cup {q}
  <2>1. ASSUME NEW p \in T
        PROVE  p[1] < o \/ (p[1] = o /\ p[2] <= pl + 1) <=>
               (p[1] < o \/ (p[1] = o /\ p[2] <= pl)) \/ p = q
    <3>1. p[1] \in Int /\ p[2] \in Int /\ (p = q <=> p[1] = o /\ p[2] = pl + 1)
          BY <1>2, <1>4
    <3> QED BY <1>3, <3>1
  <2> QED BY <1>1, <2>1 DEF Seen, T
<1>8. ASSUME pl + 1 = n
      PROVE  Seen(line, px, o + 1, 0) = Seen(line, px, o, pl) \cup {q}
  <2>1. ASSUME NEW p \in T
        PROVE  p[1] < o + 1 \/ (p[1] = o + 1 /\ p[2] <= 0) <=>
               (p[1] < o \/ (p[1] = o /\ p[2] <= pl)) \/ p = q
    <3>1. /\ p[1] \in Int /\ p[2] \in Nat \ {0}
          /\ (p = q <=> p[1] = o /\ p[2] = pl + 1)
          /\ p[1] = o => p[2] <= n
          BY <1>2, <1>4
    <3> QED BY <1>3, <1>8, <3>1
  <2> QED BY <1>1, <2>1 DEF Seen, T
<1>9. ASSUME pl + 1 = n, o < Len(line), Roles(line, px)[o + 1] # "option"
      PROVE  Seen(line, px, o + 2, 0) = Seen(line, px, o, pl) \cup {q}
  <2>1. o + 1 \in 1..Len(line) /\ (o + 1) + 1 = o + 2
        BY <1>9
  <2>2. Seen(line, px, o + 2, 0) = Seen(line, px, o + 1, 0)
        BY <1>9, <2>1, SeenOperand
  <2> QED BY <1>8, <1>9, <2>2
<1> QED BY <1>1, <1>5, <1>6, <1>7, <1>8, <1>9 DEF q, n, T

-----------------------------------------------------------------------------
(* What main's variables hold.                                              *)

(* v is the argument of the last option of that letter in D, or its default.*)
LastIs(t, D, letter, default, v) ==
    \/ (\A p \in D : t[p][1] # letter) /\ v = default
    \/ \E p \in D : /\ t[p][1] = letter /\ v = t[p][2]
                    /\ \A k \in D : t[k][1] = letter => ~Earlier(p, k)

(* q comes behind all of D.                                                 *)
Latest(D, q) ==
    /\ \A p \in D : Earlier(p, q) /\ ~Earlier(q, p)
    /\ ~Earlier(q, q)

(* An option that is the latest is the last of its letter.                  *)
LEMMA LastIsNext ==
    ASSUME NEW t, NEW D, NEW q, Latest(D, q), NEW letter, NEW default, NEW v,
           LastIs(t, D, letter, default, v)
    PROVE  LastIs(t, D \cup {q}, letter, default, IF t[q][1] = letter THEN t[q][2] ELSE v)
<1>0. \A p \in D : Earlier(p, q) /\ ~Earlier(q, p)
      BY DEF Latest
<1>1. CASE t[q][1] = letter
  <2>1. \A k \in D \cup {q} : ~Earlier(q, k)
        BY DEF Latest
  <2>2. q \in D \cup {q}
        OBVIOUS
  <2> QED BY <1>1, <2>1, <2>2 DEF LastIs
<1>2. CASE t[q][1] # letter
  <2>1. CASE (\A p \in D : t[p][1] # letter) /\ v = default
        BY <1>2, <2>1 DEF LastIs
  <2>2. CASE \E p \in D : /\ t[p][1] = letter /\ v = t[p][2]
                          /\ \A k \in D : t[k][1] = letter => ~Earlier(p, k)
    <3>1. PICK p \in D : /\ t[p][1] = letter /\ v = t[p][2]
                         /\ \A k \in D : t[k][1] = letter => ~Earlier(p, k)
          BY <2>2
    <3>2. \A k \in D \cup {q} : t[k][1] = letter => ~Earlier(p, k)
          BY <1>2, <3>1
    <3> QED BY <1>2, <3>1, <3>2 DEF LastIs
  <2> QED BY <2>1, <2>2 DEF LastIs
<1> QED BY <1>1, <1>2

(* LastIs determines LastOf.                                                *)
LEMMA LastIsLastOf ==
    ASSUME NEW line \in Seq(Tokens), NEW px, NEW letter, NEW default, NEW v,
           LastIs(TypedOf(line, px), DOMAIN TypedOf(line, px), letter, default, v)
    PROVE  v = LastOf(TypedOf(line, px), letter, default)
<1> DEFINE t == TypedOf(line, px)
           S == {i \in DOMAIN t : t[i][1] = letter}
<1>1. \A p \in DOMAIN t : p[1] \in Int /\ p[2] \in Int /\ p = <<p[1], p[2]>>
  <2> TAKE p \in DOMAIN t
  <2>1. PICK j, i : IsTyped(line, px, j, i) /\ p = <<j, i>>
        BY TypedFacts
  <2> QED BY <2>1 DEF IsTyped
<1>2. LastIs(t, DOMAIN t, letter, default, v)
      OBVIOUS
<1> HIDE DEF t
<1>3. CASE (\A p \in DOMAIN t : t[p][1] # letter) /\ v = default
  <2>1. S = {}
        BY <1>3
  <2> QED BY <1>3, <2>1 DEF LastOf, t
<1>4. CASE \E p \in DOMAIN t : /\ t[p][1] = letter /\ v = t[p][2]
                               /\ \A k \in DOMAIN t : t[k][1] = letter => ~Earlier(p, k)
  <2>1. PICK p \in DOMAIN t : /\ t[p][1] = letter /\ v = t[p][2]
                              /\ \A k \in DOMAIN t : t[k][1] = letter => ~Earlier(p, k)
        BY <1>4
  <2>2. p \in S /\ \A k \in S : ~Earlier(p, k)
        BY <2>1
  <2>3. \A i \in S : (\A k \in S : ~Earlier(i, k)) => i = p
    <3> TAKE i \in S
    <3> HAVE \A k \in S : ~Earlier(i, k)
    <3>1. ~Earlier(i, p) /\ ~Earlier(p, i)
          BY <2>2
    <3>2. i \in DOMAIN t /\ p \in DOMAIN t
          BY <2>1
    <3>3. /\ i[1] \in Int /\ i[2] \in Int /\ i = <<i[1], i[2]>>
          /\ p[1] \in Int /\ p[2] \in Int /\ p = <<p[1], p[2]>>
          BY <1>1, <3>2
    <3>4. i[1] = p[1] /\ i[2] = p[2]
          BY <3>1, <3>3 DEF Earlier
    <3> QED BY <3>3, <3>4
  <2> HIDE DEF S
  <2>4. (CHOOSE i \in S : \A k \in S : ~Earlier(i, k)) = p
        BY <2>2, <2>3
  <2>5. S # {}
        BY <2>2
  <2>6. LastOf(t, letter, default) =
            IF S = {} THEN default
            ELSE t[CHOOSE i \in S : \A k \in S : ~Earlier(i, k)][2]
        BY DEF LastOf, S
  <2> QED BY <2>1, <2>4, <2>5, <2>6 DEF t
<1> QED BY <1>2, <1>3, <1>4 DEF LastIs

(* The values of main's variables.                                          *)
OptValues == Tokens \cup {None, "text", "-"}
OptType == [format : OptValues, to : OptValues, arg : OptValues,
            modality : BOOLEAN, provider : BOOLEAN, list : BOOLEAN]

(* A letter that names what is to be run.                                   *)
IsCommand(letter) == letter \in {"-m", "-p"}

(* What main's variables hold after the options in D, of which one at most  *)
(* is a command.                                                            *)
ListIs(t, D, o) == o.list <=> \E p \in D : t[p][1] = "-l"
CommandIs(t, D, o) ==
    /\ \A p \in D : IsCommand(t[p][1]) =>
          /\ o.arg = t[p][2]
          /\ o.modality <=> t[p][1] = "-m"
          /\ o.provider <=> t[p][1] = "-p"
    /\ (\A p \in D : ~IsCommand(t[p][1])) => o.arg = None /\ ~o.modality /\ ~o.provider
OptIs(t, D, o) ==
    /\ o \in OptType
    /\ LastIs(t, D, "-f", "text", o.format)
    /\ LastIs(t, D, "-o", "-", o.to)
    /\ ListIs(t, D, o)
    /\ CommandIs(t, D, o)

(* One option in D at most is a command.                                    *)
OneCommand(t, D) ==
    \A p, k \in D : IsCommand(t[p][1]) /\ IsCommand(t[k][1]) => p = k

(* main's switch keeps its variables what the options were for.             *)
LEMMA OptIsNext ==
    ASSUME NEW t, NEW D, NEW q, Latest(D, q), OneCommand(t, D \cup {q}),
           NEW o, OptIs(t, D, o), t[q][2] \in OptValues, NEW o2,
           \/ t[q][1] = "-f" /\ o2 = [o EXCEPT !.format = t[q][2]]
           \/ t[q][1] = "-o" /\ o2 = [o EXCEPT !.to = t[q][2]]
           \/ t[q][1] = "-l" /\ o2 = [o EXCEPT !.list = TRUE]
           \/ /\ IsCommand(t[q][1])
              /\ o2 = [o EXCEPT !.arg = t[q][2],
                                !.modality = @ \/ t[q][1] = "-m",
                                !.provider = @ \/ t[q][1] = "-p"]
    PROVE  OptIs(t, D \cup {q}, o2)
<1> DEFINE E == D \cup {q}
           c == t[q][1]
           v == t[q][2]
<1>1. /\ o \in OptType /\ v \in OptValues
      /\ LastIs(t, D, "-f", "text", o.format)
      /\ LastIs(t, D, "-o", "-", o.to)
      /\ ListIs(t, D, o) /\ CommandIs(t, D, o)
      BY DEF OptIs
<1>2. /\ LastIs(t, E, "-f", "text", IF c = "-f" THEN v ELSE o.format)
      /\ LastIs(t, E, "-o", "-", IF c = "-o" THEN v ELSE o.to)
      BY <1>1, LastIsNext
<1>3. q \notin D
      BY DEF Latest
<1>4. CASE ~IsCommand(c) /\ c \in {"-f", "-o", "-l"}
  <2>1. o2 = IF c = "-f" THEN [o EXCEPT !.format = v]
             ELSE IF c = "-o" THEN [o EXCEPT !.to = v] ELSE [o EXCEPT !.list = TRUE]
        BY <1>4
  <2> HIDE DEF c, v, E
  <2>2. /\ o2.format = IF c = "-f" THEN v ELSE o.format
        /\ o2.to = IF c = "-o" THEN v ELSE o.to
        /\ o2.arg = o.arg /\ o2 \in OptType
        BY <1>1, <1>4, <2>1 DEF OptType
  <2>3. /\ c = "-l" => o2.list
        /\ c # "-l" => (o2.list <=> o.list)
        /\ o2.modality <=> o.modality
        /\ o2.provider <=> o.provider
        BY <1>1, <1>4, <2>1 DEF OptType
  <2>4. ListIs(t, E, o2)
        BY <1>1, <2>3 DEF ListIs, E, c
  <2>5. CommandIs(t, E, o2)
    <3>1. \A p \in E : IsCommand(t[p][1]) => p \in D
          BY <1>4 DEF E, c
    <3>2. (\A p \in E : ~IsCommand(t[p][1])) => \A p \in D : ~IsCommand(t[p][1])
          BY DEF E
    <3>3. /\ \A p \in D : IsCommand(t[p][1]) =>
                /\ o2.arg = t[p][2]
                /\ o2.modality <=> t[p][1] = "-m"
                /\ o2.provider <=> t[p][1] = "-p"
          /\ (\A p \in D : ~IsCommand(t[p][1])) => o2.arg = None /\ ~o2.modality /\ ~o2.provider
          BY <1>1, <2>2, <2>3 DEF CommandIs
    <3> QED BY <3>1, <3>2, <3>3 DEF CommandIs
  <2>6. LastIs(t, E, "-f", "text", o2.format) /\ LastIs(t, E, "-o", "-", o2.to)
        BY <1>2, <2>2
  <2> QED BY <2>2, <2>4, <2>5, <2>6 DEF OptIs, E
<1>5. CASE IsCommand(c)
  <2>0. c \in {"-m", "-p"} /\ c # "-f" /\ c # "-o" /\ c # "-l"
        BY <1>5 DEF IsCommand
  <2>1. o2 = [o EXCEPT !.arg = v, !.modality = @ \/ c = "-m", !.provider = @ \/ c = "-p"]
        BY <2>0
  <2>2. \A p \in D : ~IsCommand(t[p][1])
        BY <1>3, <1>5 DEF OneCommand
  <2>3. ~o.modality /\ ~o.provider
        BY <1>1, <2>2 DEF CommandIs
  <2> HIDE DEF c, v, E
  <2>4. /\ o2.format = o.format /\ o2.to = o.to /\ o2.arg = v
        /\ o2.list = o.list /\ o2 \in OptType
        BY <1>1, <2>1 DEF OptType
  <2>5. /\ o2.modality <=> c = "-m"
        /\ o2.provider <=> c = "-p"
        BY <1>1, <2>1, <2>3 DEF OptType
  <2>6. ListIs(t, E, o2)
        BY <1>1, <2>0, <2>4 DEF ListIs, E, c
  <2>7. CommandIs(t, E, o2)
    <3>1. \A p \in E : IsCommand(t[p][1]) => p = q
          BY <2>2 DEF E
    <3>2. IsCommand(t[q][1]) /\ q \in E
          BY <1>5 DEF c, E
    <3>3. /\ o2.arg = t[q][2]
          /\ o2.modality <=> t[q][1] = "-m"
          /\ o2.provider <=> t[q][1] = "-p"
          BY <2>4, <2>5 DEF c, v
    <3> QED BY <3>1, <3>2, <3>3 DEF CommandIs
  <2>8. LastIs(t, E, "-f", "text", o2.format) /\ LastIs(t, E, "-o", "-", o2.to)
        BY <1>2, <2>0, <2>4
  <2> QED BY <2>4, <2>6, <2>7, <2>8 DEF OptIs, E
<1> QED BY <1>4, <1>5 DEF IsCommand

-----------------------------------------------------------------------------
(* Lines of the documented form.                                            *)

(* CommandLast and Synopsis, of any line.                                   *)
CommandLastIn(line, px) ==
    LET n == Len(line)
        Ends(j) == Last(Meant(line[j]).letters) \in {"-m", "-p"}
        role == Roles(line, px)
    IN  \/ role[n] = "option" /\ Ends(n)
        \/ role[n] = "argument" /\ Ends(n - 1)

SynopsisOf(line, px) ==
    LET typed == TypedOf(line, px)
    IN  /\ Len(Kept(line, OperandPlaces(line, px))) = 1
        /\ Cardinality(Commands(typed)) = 1
        /\ \A i \in DOMAIN typed :
              \/ typed[i][1] = "-l"
              \/ typed[i][1] \in WithArgument /\ typed[i][2] # None
        /\ ~CommandLastIn(line, px)

(* Synopsis, now and in the next state, said of the line.                   *)
LEMMA SynopsisIs ==
    /\ Synopsis(Typed, Operands) <=> SynopsisOf(given, posixly_correct)
    /\ (Synopsis(Typed, Operands))' <=> SynopsisOf(given', posixly_correct')
BY DEF Synopsis, SynopsisOf, Typed, TypedOf, Operands, OperandPlaces, Role,
       CommandLast, CommandLastIn

(* A letter that takes an argument is the last one of its token.            *)
LEMMA ArgumentLast ==
    ASSUME NEW line \in Seq(Tokens), NEW px, NEW j, NEW i, IsTyped(line, px, j, i),
           Meant(line[j]).letters[i] \notin WithoutArgument
    PROVE  i = Len(Meant(line[j]).letters)
<1> DEFINE w == Meant(line[j]).letters
<1>1. j \in 1..Len(line) /\ Roles(line, px)[j] = "option" /\ i \in 1..Len(w)
      BY DEF IsTyped
<1>2. line[j] \in OptionTokens
      BY <1>1, OptionTyped
<1>3. w \in Seq(Letters) /\ \A k \in 1..(Len(w) - 1) : w[k] \in WithoutArgument
      BY <1>2, SpelledIsMeant
<1>4. i \notin 1..(Len(w) - 1)
      BY <1>3
<1>5. Len(w) \in Nat
      BY <1>3
<1> HIDE DEF w
<1> QED BY <1>1, <1>4, <1>5 DEF w

(* There are finitely many commands on a line: a token has one at most.     *)
LEMMA CommandsFinite ==
    ASSUME NEW line \in Seq(Tokens), NEW px
    PROVE  IsFiniteSet(Commands(TypedOf(line, px)))
<1> DEFINE t == TypedOf(line, px)
           C == Commands(t)
           P(j) == <<j, Len(Meant(line[j]).letters)>>
           S == {j \in 1..Len(line) : P(j) \in C}
           f == [j \in S |-> P(j)]
<1>1. IsFiniteSet(S)
  <2>1. IsFiniteSet(1..Len(line))
        BY FS_Interval
  <2>2. S \subseteq 1..Len(line)
        OBVIOUS
  <2> HIDE DEF S
  <2> QED BY <2>1, <2>2, FS_Subset
<1>2. \A p \in C : \E j \in S : P(j) = p
  <2> TAKE p \in C
  <2>1. p \in DOMAIN t /\ t[p][1] \in {"-m", "-p"}
        BY DEF Commands
  <2>2. PICK j, i : IsTyped(line, px, j, i) /\ p = <<j, i>>
        BY <2>1, TypedFacts
  <2>3. t[p] = <<Meant(line[j]).letters[i], ArgumentAt(line, j, i)>>
        BY <2>2, TypedFacts
  <2>4. Meant(line[j]).letters[i] \in {"-m", "-p"}
        BY <2>1, <2>3
  <2>5. i = Len(Meant(line[j]).letters)
        BY <2>2, <2>4, ArgumentLast DEF WithoutArgument
  <2>6. j \in 1..Len(line)
        BY <2>2 DEF IsTyped
  <2> HIDE DEF C, t
  <2> QED BY <2>2, <2>5, <2>6
<1>3. f \in Surjection(S, C)
  <2> HIDE DEF C, P
  <2>1. \A j \in S : P(j) \in C
        OBVIOUS
  <2> HIDE DEF S
  <2>2. f \in [S -> C] /\ \A j \in S : f[j] = P(j)
        BY <2>1
  <2> HIDE DEF f
  <2> QED BY <1>2, <2>2 DEF Surjection
<1> HIDE DEF S, f, C
<1>4. IsFiniteSet(C)
      BY <1>1, <1>3, FS_Surjection
<1> QED BY <1>4 DEF C

(* What the synopsis says: one command, one operand, no other options than  *)
(* its own, and the command does not end the line.                          *)
LEMMA SynopsisFacts ==
    ASSUME NEW line \in Seq(Tokens), NEW px, SynopsisOf(line, px)
    PROVE  LET t == TypedOf(line, px)
           IN  /\ \E c \in DOMAIN t : Commands(t) = {c} /\ IsCommand(t[c][1])
               /\ OneCommand(t, DOMAIN t)
               /\ \A p \in DOMAIN t :
                     t[p][1] = "-l" \/ (t[p][1] \in WithArgument /\ t[p][2] # None)
               /\ ~CommandLastIn(line, px)
               /\ Len(Kept(line, OperandPlaces(line, px))) = 1
<1> DEFINE t == TypedOf(line, px)
<1>1. /\ Cardinality(Commands(t)) = 1
      /\ \A p \in DOMAIN t :
            t[p][1] = "-l" \/ (t[p][1] \in WithArgument /\ t[p][2] # None)
      /\ ~CommandLastIn(line, px)
      /\ Len(Kept(line, OperandPlaces(line, px))) = 1
      BY DEF SynopsisOf
<1>2. IsFiniteSet(Commands(t))
      BY CommandsFinite
<1> HIDE DEF t
<1>3. PICK c : Commands(t) = {c}
      BY <1>1, <1>2, FS_Singleton
<1>4. \A p \in DOMAIN t : IsCommand(t[p][1]) <=> p = c
      BY <1>3 DEF Commands, IsCommand
<1>5. c \in DOMAIN t
      BY <1>3 DEF Commands
<1>6. OneCommand(t, DOMAIN t)
      BY <1>4 DEF OneCommand
<1> QED BY <1>1, <1>3, <1>4, <1>5, <1>6 DEF t

(* What getopt_long returns is the next of the options typed.               *)
LEMMA LetterTyped ==
    ASSUME given \in Argvs, Scanning, IsOption
    PROVE  LET t == TypedOf(given, posixly_correct)
               q == <<optind, place + 1>>
           IN  /\ IsTyped(given, posixly_correct, optind, place + 1)
               /\ q \in DOMAIN t
               /\ t[q][1] = Letter
               /\ Separate /\ AtEnd => t[q][2] = None
               /\ ~(Separate /\ AtEnd) => t[q][2] = Optarg
               /\ t[q][2] \in OptValues
<1> DEFINE o == optind
           i == place + 1
           N == Len(given)
           s == Meant(given[o])
           q == <<o, i>>
           t == TypedOf(given, posixly_correct)
<1>1. /\ o \in 1..N /\ N \in Nat /\ Here = given[o]
      /\ Letter = s.letters[i] /\ i \in Nat
      /\ i \in 1..Len(s.letters)
      /\ LastLetter <=> i = Len(s.letters)
      /\ Separate <=> LastLetter /\ Takes(s)
      /\ Roles(given, posixly_correct)[o] = "option"
      /\ AtEnd <=> o = N
      /\ given \in Seq(Tokens) /\ Here \in OptionTokens
      /\ Spelled(Here) = s
      /\ \A k \in o..N : argv[k] = given[k]
      BY OptionFacts, HereFacts
<1>2. s.arg \in Words \cup {None} /\ Len(s.letters) \in Nat
      BY <1>1, SpelledIsMeant
<1>3. IsTyped(given, posixly_correct, o, i)
      BY <1>1 DEF IsTyped
<1>4. q \in DOMAIN t /\ t[q] = <<s.letters[i], ArgumentAt(given, o, i)>>
      BY <1>1, <1>3, TypedFacts
<1>5. t[q][1] = Letter /\ t[q][2] = ArgumentAt(given, o, i)
      BY <1>1, <1>4
<1>6. Separate /\ AtEnd => ArgumentAt(given, o, i) = None
  <2> SUFFICES ASSUME Separate, AtEnd PROVE ArgumentAt(given, o, i) = None
      OBVIOUS
  <2>1. s.arg = None
        BY <1>1 DEF Takes
  <2>2. ~(i < Len(s.letters)) /\ ~(o < N)
        BY <1>1
  <2> QED BY <2>1, <2>2 DEF ArgumentAt
<1>7. ~(Separate /\ AtEnd) => ArgumentAt(given, o, i) = Optarg
  <2> SUFFICES ASSUME ~(Separate /\ AtEnd) PROVE ArgumentAt(given, o, i) = Optarg
      OBVIOUS
  <2>1. CASE ~LastLetter
    <3>1. i < Len(s.letters)
          BY <1>1, <1>2, <2>1
    <3> QED BY <2>1, <3>1 DEF ArgumentAt, Optarg
  <2>2. CASE Separate
    <3>1. o < N /\ Takes(s) /\ LastLetter /\ o + 1 \in o..N
          BY <1>1, <2>2
    <3>2. ~(i < Len(s.letters)) /\ argv[o + 1] = given[o + 1]
          BY <1>1, <3>1
    <3> QED BY <2>2, <3>1, <3>2 DEF ArgumentAt, Optarg
  <2>3. CASE LastLetter /\ ~Separate
    <3>1. ~Takes(s) /\ ~(i < Len(s.letters))
          BY <1>1, <2>3
    <3> QED BY <1>1, <2>3, <3>1 DEF ArgumentAt, Optarg
  <2> QED BY <2>1, <2>2, <2>3
<1>8. ArgumentAt(given, o, i) \in OptValues
  <2>1. o < N => given[o + 1] \in Tokens
        BY <1>1
  <2>2. s.arg \in OptValues /\ None \in OptValues
        BY <1>2 DEF OptValues, Tokens
  <2>3. Tokens \subseteq OptValues
        BY DEF OptValues
  <2> QED BY <2>1, <2>2, <2>3 DEF ArgumentAt
<1> HIDE DEF t
<1> QED BY <1>3, <1>4, <1>5, <1>6, <1>7, <1>8 DEF t

(* On a line of the documented form getopt_long returns only the options of *)
(* the synopsis, and a command never ends the line.                         *)
LEMMA SynopsisLetter ==
    ASSUME given \in Argvs, Scanning, IsOption, SynopsisOf(given, posixly_correct)
    PROVE  LET t == TypedOf(given, posixly_correct)
               q == <<optind, place + 1>>
           IN  /\ ~Refused
               /\ Letter \in WithArgument \cup {"-l"}
               /\ t[q][2] = Optarg
               /\ IsCommand(Letter) /\ OptionOf(IF Separate THEN 2 ELSE 1) =>
                     ~(optind' > Len(argv))
<1> DEFINE o == optind
           i == place + 1
           N == Len(given)
           s == Meant(given[o])
           q == <<o, i>>
           t == TypedOf(given, posixly_correct)
<1>1. /\ o \in 1..N /\ N \in Nat /\ Here = given[o]
      /\ Letter = s.letters[i] /\ i \in Nat
      /\ LastLetter <=> i = Len(s.letters)
      /\ Separate <=> LastLetter /\ Takes(s)
      /\ Roles(given, posixly_correct)[o] = "option"
      /\ AtEnd <=> o = N /\ Len(argv) = N
      /\ given \in Seq(Tokens) /\ Len(argv) = N
      BY OptionFacts, HereFacts
<1>2. /\ IsTyped(given, posixly_correct, o, i)
      /\ q \in DOMAIN t /\ t[q][1] = Letter
      /\ Separate /\ AtEnd => t[q][2] = None
      /\ ~(Separate /\ AtEnd) => t[q][2] = Optarg
      BY LetterTyped
<1>3. Letter = "-l" \/ (Letter \in WithArgument /\ t[q][2] # None)
      BY <1>1, <1>2, SynopsisFacts
<1>4. ~CommandLastIn(given, posixly_correct)
      BY <1>1, SynopsisFacts
<1> HIDE DEF t
<1>5. Separate => Letter \in WithArgument
      BY <1>1 DEF Takes, Last
<1>6. ~(Separate /\ AtEnd)
      BY <1>2, <1>3, <1>5 DEF WithArgument
<1>7. ~Refused /\ Letter \in WithArgument \cup {"-l"} /\ t[q][2] = Optarg
      BY <1>2, <1>3, <1>6 DEF Refused, WithArgument
<1>8. ASSUME IsCommand(Letter), OptionOf(IF Separate THEN 2 ELSE 1)
      PROVE  ~(optind' > Len(argv))
  <2>1. i = Len(s.letters)
    <3>1. Letter \notin WithoutArgument
          BY <1>8 DEF IsCommand, WithoutArgument
    <3> QED BY <1>1, <1>2, <3>1, ArgumentLast
  <2>2. LastLetter /\ Last(s.letters) \in {"-m", "-p"}
        BY <1>1, <1>8, <2>1 DEF Last, IsCommand
  <2>3. o # N
        BY <1>1, <1>4, <2>2 DEF CommandLastIn
  <2>4. CASE Separate
    <3>1. Takes(s) /\ Here \notin Words \cup {"--"} /\ optind' = o + 2
          BY <1>1, <1>8, <2>2, <2>4 DEF IsOption, OptionOf
    <3>2. Roles(given, posixly_correct)[o] = Fresh(given[o], posixly_correct)
          BY <1>1 DEF Scanning, Scans, At
    <3>3. Roles(given, posixly_correct)[o + 1] = "argument"
          BY <1>1, <2>3, <3>1, <3>2, NextRoles
    <3>4. o + 1 # N
      <4> SUFFICES ASSUME o + 1 = N PROVE FALSE
          OBVIOUS
      <4>1. N - 1 = o
            BY <1>1
      <4> QED BY <1>4, <2>2, <3>3, <4>1 DEF CommandLastIn
    <3> QED BY <1>1, <2>3, <3>1, <3>4
  <2>5. CASE ~Separate
    <3>1. optind' = o + 1
          BY <1>8, <2>2, <2>5 DEF OptionOf
    <3> QED BY <1>1, <2>3, <3>1
  <2> QED BY <2>4, <2>5
<1> QED BY <1>7, <1>8 DEF t

(* The options getopt_long has returned.                                    *)
SeenNow == Seen(given, posixly_correct, optind, place)

(* One option more has been seen when getopt_long has returned it.          *)
LEMMA SeenOption ==
    ASSUME given \in Argvs, Scanning, IsOption, ~Refused,
           OptionOf(IF Separate THEN 2 ELSE 1)
    PROVE  LET q == <<optind, place + 1>>
           IN  /\ Latest(SeenNow, q)
               /\ Seen(given, posixly_correct, optind', place') = SeenNow \cup {q}
<1> DEFINE o == optind
           i == place + 1
           N == Len(given)
           s == Meant(given[o])
           q == <<o, i>>
<1>1. /\ o \in 1..N /\ N \in Nat /\ Here = given[o] /\ place \in Nat
      /\ place + 1 \in 1..Len(s.letters)
      /\ LastLetter <=> place + 1 = Len(s.letters)
      /\ Separate <=> LastLetter /\ Takes(s)
      /\ Roles(given, posixly_correct)[o] = "option"
      /\ AtEnd <=> o = N
      /\ given \in Seq(Tokens) /\ Here \notin Words \cup {"--"}
      BY OptionFacts, HereFacts
<1> DEFINE D == Seen(given, posixly_correct, o, place) \cup {q}
<1>2. /\ \A p \in Seen(given, posixly_correct, o, place) : Earlier(p, q) /\ ~Earlier(q, p)
      /\ ~Earlier(q, q)
      /\ Seen(given, posixly_correct, o, place + 1) = D
      /\ place + 1 = Len(s.letters) =>
            /\ Seen(given, posixly_correct, o + 1, 0) = D
            /\ o < N /\ Roles(given, posixly_correct)[o + 1] # "option" =>
                  Seen(given, posixly_correct, o + 2, 0) = D
      BY <1>1, SeenNext
<1>3. Latest(SeenNow, q)
      BY <1>2 DEF Latest, SeenNow
<1> HIDE DEF D
<1>4. Seen(given, posixly_correct, optind', place') = D
  <2>1. CASE ~LastLetter
    <3>1. optind' = o /\ place' = place + 1
          BY <2>1 DEF OptionOf
    <3> QED BY <1>2, <3>1
  <2>2. CASE LastLetter /\ ~Separate
    <3>1. optind' = o + 1 /\ place' = 0
          BY <2>2 DEF OptionOf
    <3> QED BY <1>1, <1>2, <2>2, <3>1
  <2>3. CASE Separate
    <3>1. LastLetter /\ ~AtEnd /\ Takes(s)
          BY <1>1, <2>3 DEF Refused
    <3>2. optind' = o + 2 /\ place' = 0
          BY <2>3, <3>1 DEF OptionOf
    <3>3. o < N /\ o <= N
          BY <1>1, <3>1
    <3>4. Roles(given, posixly_correct)[o] = Fresh(given[o], posixly_correct)
          BY <3>3 DEF Scanning, Scans, At
    <3>5. Roles(given, posixly_correct)[o + 1] = "argument"
          BY <1>1, <3>1, <3>3, <3>4, NextRoles
    <3> QED BY <1>1, <1>2, <3>1, <3>2, <3>3, <3>5
  <2> QED BY <2>1, <2>2, <2>3
<1> QED BY <1>3, <1>4 DEF D, SeenNow

(* An operand is none.                                                      *)
LEMMA SeenPast ==
    ASSUME given \in Argvs, Scanning, SkipOperand
    PROVE  Seen(given, posixly_correct, optind', place') = SeenNow
<1> DEFINE o == optind
           N == Len(given)
<1>1. More /\ Here \in Words /\ ~posixly_correct /\ optind' = o + 1 /\ place' = place
      BY DEF SkipOperand
<1>2. o \in 1..N /\ Here = given[o] /\ given \in Seq(Tokens) /\ o <= N
      BY <1>1, HereFacts
<1>3. /\ Roles(given, posixly_correct)[o] = Fresh(given[o], posixly_correct)
      /\ place # 0 => given[o] \notin Words
      BY <1>2 DEF Scanning, Scans, At
<1>4. Roles(given, posixly_correct)[o] = "operand"
      BY <1>1, <1>2, <1>3, NextRoles
<1>5. place = 0
      BY <1>1, <1>2, <1>3
<1> QED BY <1>1, <1>2, <1>4, <1>5, SeenOperand DEF SeenNow

(* When it returns -1, all of them have been seen.                          *)
LEMMA SeenEnd ==
    ASSUME given \in Argvs, Scanning, NoMoreOptions
    PROVE  SeenNow = DOMAIN TypedOf(given, posixly_correct)
<1> DEFINE o == optind
           N == Len(given)
           px == posixly_correct
<1>1. /\ given \in Seq(Tokens) /\ N \in Nat /\ o \in 1..(N + 1)
      /\ More => o \in 1..N /\ Here = given[o]
      /\ ~More => o = N + 1
      BY HereFacts
<1>2. /\ o <= N => Roles(given, px)[o] = Fresh(given[o], px)
      /\ place # 0 => o <= N /\ given[o] \notin Words \cup {"--"}
      BY DEF Scanning, Scans, At
<1>3. place = 0 /\ \A k \in o..N : Roles(given, px)[k] # "option"
  <2>1. CASE ~More
        BY <1>1, <1>2, <2>1
  <2>2. CASE More /\ Here = "--"
    <3>1. o \in 1..N /\ given[o] = "--" /\ o <= N
          BY <1>1, <2>2
    <3>2. Roles(given, px)[o] = "end" /\ \A k \in (o + 1)..N : Roles(given, px)[k] = "behind"
          BY <1>1, <1>2, <3>1, NextRoles
    <3>3. \A k \in o..N : k = o \/ k \in (o + 1)..N
          BY <3>1
    <3> QED BY <1>2, <3>1, <3>2, <3>3
  <2>3. CASE More /\ Here \in Words /\ px
    <3>1. o \in 1..N /\ given[o] \in Words /\ o <= N
          BY <1>1, <2>3
    <3>2. \A k \in o..N : Roles(given, px)[k] = "behind"
          BY <1>1, <1>2, <2>3, <3>1, NextRoles
    <3> QED BY <1>2, <3>1, <3>2
  <2> QED BY <2>1, <2>2, <2>3 DEF NoMoreOptions
<1> QED BY <1>1, <1>3, SeenAll DEF SeenNow

(* A line of the documented form is not empty.                              *)
LEMMA SynopsisHasOperand ==
    ASSUME NEW line \in Seq(Tokens), NEW px, SynopsisOf(line, px)
    PROVE  line # <<>>
<1>1. PICK c : c \in DOMAIN TypedOf(line, px)
      BY SynopsisFacts
<1>2. PICK j, i : IsTyped(line, px, j, i) /\ c = <<j, i>>
      BY <1>1, TypedFacts
<1>3. j \in 1..Len(line)
      BY <1>2 DEF IsTyped
<1>4. line = <<>> => Len(line) = 0
      OBVIOUS
<1> QED BY <1>3, <1>4

-----------------------------------------------------------------------------
(* The evaluations, and what main writes.                                   *)

(* Append, as a function.                                                   *)
LEMMA AppendIs ==
    ASSUME NEW T, NEW s \in Seq(T), NEW x \in T
    PROVE  Append(s, x) = [i \in 1..(Len(s) + 1) |-> IF i \in 1..Len(s) THEN s[i] ELSE x]
<1> DEFINE a == Append(s, x)
           f == [i \in 1..(Len(s) + 1) |-> IF i \in 1..Len(s) THEN s[i] ELSE x]
<1>1. /\ a \in Seq(T) /\ Len(a) = Len(s) + 1 /\ Len(s) \in Nat
      /\ \A i \in 1..Len(s) : a[i] = s[i]
      /\ a[Len(s) + 1] = x
      OBVIOUS
<1> HIDE DEF a
<1>2. DOMAIN a = 1..(Len(s) + 1) /\ a = [i \in DOMAIN a |-> a[i]]
      BY <1>1
<1>3. a = [i \in 1..(Len(s) + 1) |-> a[i]]
      BY <1>2
<1>4. \A i \in 1..(Len(s) + 1) : a[i] = IF i \in 1..Len(s) THEN s[i] ELSE x
  <2> TAKE i \in 1..(Len(s) + 1)
  <2>1. i \notin 1..Len(s) => i = Len(s) + 1
        BY <1>1
  <2> QED BY <1>1, <2>1
<1>5. [i \in 1..(Len(s) + 1) |-> a[i]] = f
      BY <1>4
<1> QED BY <1>3, <1>5 DEF a

(* The evaluations of s that succeeded, of which each is one that worked.   *)
Succeeded(s) == Kept(s, {i \in DOMAIN s : s[i].ok})
Worked(run) == run.ok

(* What succeeds goes behind what has succeeded.                            *)
LEMMA SucceededNext ==
    ASSUME NEW T, NEW s \in Seq(T), NEW x \in T
    PROVE  /\ Succeeded(s) \in Seq(T)
           /\ Succeeded(Append(s, x)) =
                 IF Worked(x) THEN Append(Succeeded(s), x) ELSE Succeeded(s)
<1> DEFINE n == Len(s)
           t == Append(s, x)
           js == {i \in 1..n : Worked(s[i])}
           ks == {i \in 1..(n + 1) : Worked(t[i])}
           c == Kept(s, js)
           d == Kept(t, ks)
           r == Rank(js, n)
<1>1. n \in Nat /\ DOMAIN s = 1..n /\ DOMAIN t = 1..(n + 1)
      OBVIOUS
<1>2. t[n + 1] = x /\ \A i \in 1..n : t[i] = s[i] /\ s[i] \in T
      OBVIOUS
<1>3. Succeeded(s) = c /\ Succeeded(t) = d
      BY <1>1 DEF Succeeded, Worked
<1> HIDE DEF t, n
<1>4. js \in SUBSET (1..n) /\ ks \in SUBSET (1..(n + 1)) /\ n + 1 \in Nat
      BY <1>1
<1>5. KeptFrom(c, s, js, n) /\ KeptFrom(d, t, ks, n + 1)
  <2> HIDE DEF c, d, js, ks
  <2> QED BY <1>1, <1>4, KeptFacts DEF c, d
<1>6. \A i : i \in ks <=> i \in js \/ (i = n + 1 /\ Worked(x))
      BY <1>1, <1>2
<1> HIDE DEF c, d, js, ks
<1>7. \A j \in 1..n : Rank(ks, j) = Rank(js, j)
  <2> TAKE j \in 1..n
  <2>1. \A i : i \in ks /\ i <= j <=> i \in js /\ i <= j
        BY <1>1, <1>6
  <2>2. {i \in ks : i <= j} = {i \in js : i <= j}
        BY <2>1
  <2> QED BY <2>2 DEF Rank
<1>8. r \in Nat /\ Rank(ks, n + 1) = IF Worked(x) THEN r + 1 ELSE r
  <2>1. js \in SUBSET (Nat \ {0}) /\ ks \in SUBSET (Nat \ {0})
        BY <1>1, <1>4
  <2>2. r \in Nat /\ Rank(js, 0) = 0 /\ Rank(ks, 0) = 0
        BY <1>1, <2>1, RankStep
  <2>3. Rank(ks, n) = r
        BY <1>1, <1>7, <2>2
  <2>4. Rank(ks, n + 1) = IF n + 1 \in ks THEN Rank(ks, n) + 1 ELSE Rank(ks, n)
        BY <1>1, <2>1, RankStep
  <2>5. n + 1 \in ks <=> Worked(x)
        BY <1>1, <1>4, <1>6
  <2> QED BY <2>2, <2>3, <2>4, <2>5
<1> HIDE DEF r
<1>9. \A m \in 1..r : d[m] = c[m] /\ c[m] \in T
  <2> TAKE m \in 1..r
  <2>1. PICK j \in js : Rank(js, j) = m /\ c[m] = s[j]
        BY <1>5 DEF KeptFrom, r
  <2>2. j \in ks /\ j \in 1..n
        BY <1>4, <1>6, <2>1
  <2>3. d[Rank(ks, j)] = t[j]
        BY <1>5, <2>2 DEF KeptFrom
  <2> QED BY <1>2, <1>7, <2>1, <2>2, <2>3
<1>10. Worked(x) => d[r + 1] = x
  <2> SUFFICES ASSUME Worked(x) PROVE d[r + 1] = x
      OBVIOUS
  <2>1. n + 1 \in ks
        BY <1>6
  <2>2. d[Rank(ks, n + 1)] = t[n + 1]
        BY <1>5, <2>1 DEF KeptFrom
  <2> QED BY <1>2, <1>8, <2>2
<1>11. c = [m \in 1..r |-> c[m]] /\ d = [m \in 1..Rank(ks, n + 1) |-> d[m]]
      BY <1>5 DEF KeptFrom, Listed, r
<1>12. c \in Seq(T) /\ Len(c) = r
  <2> DEFINE f == [m \in 1..r |-> c[m]]
  <2>1. f \in Seq(T) /\ Len(f) = r
        BY <1>8, <1>9
  <2>2. c = f
        BY <1>11
  <2> HIDE DEF f
  <2> QED BY <2>1, <2>2
<1>13. CASE ~Worked(x)
  <2>1. d = [m \in 1..r |-> d[m]]
        BY <1>8, <1>11, <1>13
  <2>2. [m \in 1..r |-> d[m]] = [m \in 1..r |-> c[m]]
        BY <1>9
  <2>3. d = c
        BY <1>11, <2>1, <2>2
  <2> QED BY <1>3, <1>12, <1>13, <2>3 DEF t
<1>14. CASE Worked(x)
  <2>1. d = [m \in 1..(r + 1) |-> d[m]]
        BY <1>8, <1>11, <1>14
  <2>2. \A m \in 1..(r + 1) : d[m] = IF m <= r THEN c[m] ELSE x
    <3> TAKE m \in 1..(r + 1)
    <3>1. m <= r => m \in 1..r
          BY <1>8
    <3>2. ~(m <= r) => m = r + 1
          BY <1>8
    <3> QED BY <1>9, <1>10, <1>14, <3>1, <3>2
  <2>3. [m \in 1..(r + 1) |-> d[m]] = [m \in 1..(r + 1) |-> IF m <= r THEN c[m] ELSE x]
        BY <2>2
  <2>4. Append(c, x) = [m \in 1..(r + 1) |-> IF m <= r THEN c[m] ELSE x]
    <3> HIDE DEF t
    <3>1. Append(c, x) = [m \in 1..(Len(c) + 1) |-> IF m \in 1..Len(c) THEN c[m] ELSE x]
          BY <1>9, <1>12, AppendIs
    <3>2. \A m \in 1..(r + 1) : m \in 1..r <=> m <= r
          BY <1>8
    <3>3. [m \in 1..(r + 1) |-> IF m \in 1..r THEN c[m] ELSE x] =
          [m \in 1..(r + 1) |-> IF m <= r THEN c[m] ELSE x]
          BY <3>2
    <3> QED BY <1>12, <3>1, <3>3
  <2>5. d = Append(c, x)
        BY <2>1, <2>3, <2>4
  <2> QED BY <1>3, <1>12, <1>14, <2>5 DEF t
<1> QED BY <1>13, <1>14

(* The blocks written for the evaluations of s.                             *)
Blocks(s, f, g) == [i \in DOMAIN s |-> [run |-> s[i], format |-> f, to |-> g]]

(* The block of the next evaluation goes behind the others.                 *)
LEMMA BlocksNext ==
    ASSUME NEW T, NEW s \in Seq(T), NEW x \in T, NEW f, NEW g
    PROVE  Blocks(Append(s, x), f, g) =
              Append(Blocks(s, f, g), [run |-> x, format |-> f, to |-> g])
<1> DEFINE b(y) == [run |-> y, format |-> f, to |-> g]
           B == {b(y) : y \in T}
           u == [i \in 1..Len(s) |-> b(s[i])]
           v == [i \in 1..(Len(s) + 1) |-> b(Append(s, x)[i])]
<1>1. Len(s) \in Nat /\ DOMAIN s = 1..Len(s) /\ DOMAIN Append(s, x) = 1..(Len(s) + 1)
      OBVIOUS
<1>2. Blocks(s, f, g) = u /\ Blocks(Append(s, x), f, g) = v
      BY <1>1 DEF Blocks
<1>3. \A i \in 1..Len(s) : Append(s, x)[i] = s[i] /\ s[i] \in T
      OBVIOUS
<1>4. Append(s, x)[Len(s) + 1] = x
      OBVIOUS
<1> HIDE DEF b
<1>5. u \in Seq(B) /\ Len(u) = Len(s)
      BY <1>1, <1>3
<1>6. Append(u, b(x)) = [i \in 1..(Len(u) + 1) |-> IF i \in 1..Len(u) THEN u[i] ELSE b(x)]
  <2>1. b(x) \in B
        OBVIOUS
  <2> HIDE DEF u, B
  <2> QED BY <1>5, <2>1, AppendIs
<1>7. \A i \in 1..(Len(s) + 1) : b(Append(s, x)[i]) = IF i \in 1..Len(s) THEN u[i] ELSE b(x)
  <2> TAKE i \in 1..(Len(s) + 1)
  <2>1. i \notin 1..Len(s) => i = Len(s) + 1
        BY <1>1
  <2> QED BY <1>3, <1>4, <2>1
<1> HIDE DEF u
<1>8. v = [i \in 1..(Len(s) + 1) |-> IF i \in 1..Len(s) THEN u[i] ELSE b(x)]
      BY <1>7
<1> HIDE DEF v
<1> QED BY <1>2, <1>5, <1>6, <1>8 DEF b

(* The output after the evaluations of s: these blocks, if it opens.        *)
InOutput(s, f, g) == IF Opens(g) THEN Blocks(s, f, g) ELSE <<>>

(* What the options of a line ask for.                                      *)
TheCommand(t) == t[CHOOSE i \in Commands(t) : TRUE]
TheFormat(t) == IF LastOf(t, "-f", "text") = "json" THEN "json" ELSE "text"
TheOutput(t) == LastOf(t, "-o", "-")
OperandsOf(line, px) == Kept(line, OperandPlaces(line, px))
WantedOf(line, px) == Wanted(TypedOf(line, px), OperandsOf(line, px))

(* What AsAsked says of a line of the documented form.                      *)
Answered(line, px, p, tr, out) ==
    LET t == TypedOf(line, px)
        c == TheCommand(t)
        succeeded == Succeeded(tr)
    IN  /\ Len(tr) <= Len(WantedOf(line, px))
        /\ \A i \in DOMAIN tr :
              /\ tr[i].modality = (c[1] = "-m")
              /\ tr[i].arg = c[2]
              /\ tr[i].file = WantedOf(line, px)[i]
        /\ out = InOutput(succeeded, TheFormat(t), TheOutput(t))
        /\ p # "exit -1"
        /\ p = "exit 0" => Len(tr) = Len(WantedOf(line, px))

(* AsAsked, said of its variables.                                          *)
LEMMA AsAskedIs ==
    AsAsked <=> (pc # "options" /\ SynopsisOf(given, posixly_correct) =>
                    Answered(given, posixly_correct, pc, tried, output))
BY SynopsisIs DEF AsAsked, Answered, Typed, TypedOf, Operands, OperandsOf, OperandPlaces, Role,
       WantedOf, TheCommand, TheFormat, TheOutput, Succeeded, Blocks, InOutput

(* What the options were for.                                               *)
Chosen(line, px, o) ==
    LET t == TypedOf(line, px)
    IN  /\ o \in OptType
        /\ o.format = LastOf(t, "-f", "text")
        /\ o.to = TheOutput(t)
        /\ o.arg = TheCommand(t)[2]
        /\ o.modality <=> TheCommand(t)[1] = "-m"

(* The evaluations main may make.                                           *)
RunType == [modality : BOOLEAN, arg : OptValues, file : Tokens, ok : BOOLEAN]

(* The evaluations made are the first of those wanted, and what has been    *)
(* written is what succeeded.                                               *)
Evaluated(line, px, tr, out) ==
    LET t == TypedOf(line, px)
    IN  /\ tr \in Seq(RunType)
        /\ \A i \in 1..Len(tr) : /\ tr[i].modality <=> TheCommand(t)[1] = "-m"
                                 /\ tr[i].arg = TheCommand(t)[2]
                                 /\ tr[i].file = WantedOf(line, px)[i]
        /\ out = InOutput(Succeeded(tr), TheFormat(t), TheOutput(t))

(* The files still to evaluate are those wanted and not yet tried.          *)
Left(line, px, td, tr) ==
    /\ td \in Seq(Tokens)
    /\ Len(tr) + Len(td) = Len(WantedOf(line, px))
    /\ \A i \in 1..Len(td) : td[i] = WantedOf(line, px)[Len(tr) + i]

(* The inductive invariant behind AsAsked.                                  *)
AskInv ==
    SynopsisOf(given, posixly_correct) =>
        /\ pc = "options" =>
              /\ OptIs(TypedOf(given, posixly_correct), SeenNow, opt)
              /\ tried = <<>> /\ output = <<>>
        /\ pc # "options" =>
              /\ pc \in {"running", "exit 0", "abort"}
              /\ Chosen(given, posixly_correct, opt)
              /\ Evaluated(given, posixly_correct, tried, output)
              /\ Len(tried) <= Len(WantedOf(given, posixly_correct))
              /\ pc # "abort" => Left(given, posixly_correct, todo, tried)
              /\ pc = "exit 0" => todo = <<>>

(* With no file left, as many have been tried as were wanted.               *)
LEMMA NothingLeft ==
    ASSUME NEW T, NEW s \in Seq(T), NEW w, NEW l, l = <<>>, Len(s) + Len(l) = Len(w)
    PROVE  Len(s) = Len(w)
<1>1. Len(s) \in Nat /\ Len(l) = 0
      OBVIOUS
<1>2. Len(s) + 0 = Len(w)
      BY <1>1
<1>3. Len(s) + 0 = Len(s)
      BY <1>1
<1> QED BY <1>2, <1>3

(* The invariant implies AsAsked.                                           *)
LEMMA AskInvAnswers ==
    ASSUME given \in Argvs, AskInv
    PROVE  AsAsked
<1> SUFFICES ASSUME pc # "options", SynopsisOf(given, posixly_correct)
             PROVE  Answered(given, posixly_correct, pc, tried, output)
    BY AsAskedIs
<1> DEFINE t == TypedOf(given, posixly_correct)
           w == WantedOf(given, posixly_correct)
           c == TheCommand(t)
<1>1. /\ pc \in {"running", "exit 0", "abort"}
      /\ Evaluated(given, posixly_correct, tried, output)
      /\ Len(tried) <= Len(w)
      /\ pc # "abort" => Left(given, posixly_correct, todo, tried)
      /\ pc = "exit 0" => todo = <<>>
      BY DEF AskInv
<1> HIDE DEF t, w, c
<1>2. /\ tried \in Seq(RunType)
      /\ output = InOutput(Succeeded(tried), TheFormat(t), TheOutput(t))
      BY <1>1 DEF Evaluated, t
<1>3. DOMAIN tried = 1..Len(tried)
      BY <1>2
<1>4. \A i \in DOMAIN tried : tried[i].modality = (c[1] = "-m")
  <2> TAKE i \in DOMAIN tried
  <2>1. tried[i].modality \in BOOLEAN
    <3>1. tried[i] \in RunType
          BY <1>2
    <3> QED BY <3>1 DEF RunType
  <2>2. tried[i].modality <=> c[1] = "-m"
        BY <1>1, <1>3 DEF Evaluated, t, c
  <2> QED BY <2>1, <2>2, Zenon
<1>5. \A i \in DOMAIN tried : tried[i].arg = c[2] /\ tried[i].file = w[i]
      BY <1>1, <1>3 DEF Evaluated, t, c, w
<1>6. pc = "exit 0" => Len(tried) = Len(w)
  <2> SUFFICES ASSUME pc = "exit 0" PROVE Len(tried) = Len(w)
      OBVIOUS
  <2>1. todo = <<>> /\ tried \in Seq(RunType)
        BY <1>1, <1>2
  <2>2. Len(tried) + Len(todo) = Len(w)
        BY <1>1 DEF Left, w
  <2> QED BY <2>1, <2>2, NothingLeft
<1>7. Len(tried) <= Len(w) /\ pc # "exit -1"
      BY <1>1
<1> QED BY <1>2, <1>4, <1>5, <1>6, <1>7 DEF Answered, t, c, w

(* What main's switch does to its variables with the option returned.       *)
OptUpdated(o, o2) ==
    \/ Letter = "-f" /\ o2 = [o EXCEPT !.format = Optarg]
    \/ Letter = "-o" /\ o2 = [o EXCEPT !.to = Optarg]
    \/ Letter = "-l" /\ o2 = [o EXCEPT !.list = TRUE]
    \/ /\ IsCommand(Letter)
       /\ o2 = [o EXCEPT !.arg = Optarg,
                         !.modality = @ \/ Letter = "-m",
                         !.provider = @ \/ Letter = "-p"]

(* main's switch does with the option returned what it is for.              *)
LEMMA OptionKept ==
    ASSUME given \in Argvs, Scanning, SynopsisOf(given, posixly_correct),
           NEW S, ReturnsOption(S), NEW o, NEW o2,
           OptIs(TypedOf(given, posixly_correct), SeenNow, o), OptUpdated(o, o2)
    PROVE  OptIs(TypedOf(given, posixly_correct),
                 Seen(given, posixly_correct, optind', place'), o2)
<1> DEFINE t == TypedOf(given, posixly_correct)
           q == <<optind, place + 1>>
           D == SeenNow
<1>1. IsOption /\ ~Refused /\ OptionOf(IF Separate THEN 2 ELSE 1)
      BY DEF ReturnsOption
<1>2. /\ Latest(D, q)
      /\ Seen(given, posixly_correct, optind', place') = D \cup {q}
      BY <1>1, SeenOption
<1>3. q \in DOMAIN t /\ t[q][1] = Letter /\ t[q][2] \in OptValues
      BY <1>1, LetterTyped
<1>4. t[q][2] = Optarg
      BY <1>1, SynopsisLetter
<1>5. OneCommand(t, DOMAIN t)
      BY SynopsisFacts, ArgvsAssumption
<1>6. D \subseteq DOMAIN t
      BY DEF SeenNow, Seen
<1>7. OptIs(t, D, o)
      OBVIOUS
<1> HIDE DEF t, q, D
<1>8. OneCommand(t, D \cup {q})
      BY <1>3, <1>5, <1>6 DEF OneCommand
<1>9. \/ t[q][1] = "-f" /\ o2 = [o EXCEPT !.format = t[q][2]]
      \/ t[q][1] = "-o" /\ o2 = [o EXCEPT !.to = t[q][2]]
      \/ t[q][1] = "-l" /\ o2 = [o EXCEPT !.list = TRUE]
      \/ /\ IsCommand(t[q][1])
         /\ o2 = [o EXCEPT !.arg = t[q][2],
                           !.modality = @ \/ t[q][1] = "-m",
                           !.provider = @ \/ t[q][1] = "-p"]
      BY <1>3, <1>4 DEF OptUpdated
<1>10. OptIs(t, D \cup {q}, o2)
       BY <1>2, <1>3, <1>7, <1>8, <1>9, OptIsNext
<1> QED BY <1>2, <1>10 DEF t

(* Once all the options have been seen, the variables are the answer.       *)
LEMMA AllKept ==
    ASSUME NEW line \in Seq(Tokens), NEW px, SynopsisOf(line, px), NEW o,
           OptIs(TypedOf(line, px), DOMAIN TypedOf(line, px), o)
    PROVE  /\ Chosen(line, px, o)
           /\ o.modality \/ o.provider
           /\ o.list <=> \E p \in DOMAIN TypedOf(line, px) : TypedOf(line, px)[p][1] = "-l"
<1> DEFINE t == TypedOf(line, px)
<1>1. PICK c \in DOMAIN t : Commands(t) = {c} /\ IsCommand(t[c][1])
      BY SynopsisFacts
<1>2. TheCommand(t) = t[c]
  <2>1. (CHOOSE i \in Commands(t) : TRUE) = c
        BY <1>1
  <2> QED BY <2>1 DEF TheCommand
<1>3. /\ o \in OptType
      /\ LastIs(t, DOMAIN t, "-f", "text", o.format)
      /\ LastIs(t, DOMAIN t, "-o", "-", o.to)
      /\ ListIs(t, DOMAIN t, o) /\ CommandIs(t, DOMAIN t, o)
      BY DEF OptIs
<1>4. o.format = LastOf(t, "-f", "text") /\ o.to = LastOf(t, "-o", "-")
      BY <1>3, LastIsLastOf
<1> HIDE DEF t
<1>5. /\ o.arg = t[c][2]
      /\ o.modality <=> t[c][1] = "-m"
      /\ o.provider <=> t[c][1] = "-p"
      BY <1>1, <1>3 DEF CommandIs
<1>6. o.modality \/ o.provider
      BY <1>1, <1>5 DEF IsCommand
<1>7. o.list <=> \E p \in DOMAIN t : t[p][1] = "-l"
      BY <1>3 DEF ListIs
<1> QED BY <1>2, <1>3, <1>4, <1>5, <1>6, <1>7 DEF Chosen, TheOutput, t

(* Kept(s, js) is a sequence of elements of s, as long as js has places.    *)
LEMMA KeptSeq ==
    ASSUME NEW N \in Nat, NEW js \in SUBSET (1..N), NEW T, NEW s, \A k \in 1..N : s[k] \in T
    PROVE  Kept(s, js) \in Seq(T) /\ Len(Kept(s, js)) = Rank(js, N)
<1> DEFINE c == Kept(s, js)
           r == Rank(js, N)
           f == [k \in 1..r |-> c[k]]
<1>1. KeptFrom(c, s, js, N)
      BY KeptFacts
<1>2. r \in Nat
  <2>1. js \in SUBSET (Nat \ {0})
        OBVIOUS
  <2> QED BY <2>1, RankStep
<1> HIDE DEF c, r
<1>3. c = f
      BY <1>1 DEF KeptFrom, Listed, r
<1>4. \A n \in 1..r : c[n] \in T
  <2> TAKE n \in 1..r
  <2>1. PICK j \in js : c[n] = s[j]
        BY <1>1 DEF KeptFrom, r
  <2> QED BY <2>1
<1>5. f \in Seq(T) /\ Len(f) = r
      BY <1>2, <1>4
<1> HIDE DEF f
<1> QED BY <1>3, <1>5 DEF c, r

(* The element behind all of s in s \o r is the first of r.                 *)
LEMMA BehindAll ==
    ASSUME NEW T, NEW s \in Seq(T), NEW r \in Seq(T), Len(r) = 1
    PROVE  (s \o r)[Len(s) + 1] = r[1]
<1>1. Len(s) \in Nat /\ 1 \in 1..Len(r)
      OBVIOUS
<1>2. \A i \in 1..(Len(s) + Len(r)) :
          (s \o r)[i] = IF i <= Len(s) THEN s[i] ELSE r[i - Len(s)]
      BY ConcatProperties
<1> DEFINE k == Len(s) + 1
<1>3. k \in 1..(Len(s) + Len(r)) /\ ~(k <= Len(s)) /\ k - Len(s) = 1
      BY <1>1
<1> HIDE DEF k
<1>4. (s \o r)[k] = r[k - Len(s)]
      BY <1>2, <1>3
<1> QED BY <1>3, <1>4 DEF k

(* A sequence of length one has its first element only.                     *)
LEMMA OneLong ==
    ASSUME NEW T, NEW s \in Seq(T), Len(s) = 1
    PROVE  s = <<s[1]>> /\ s[1] \in T
<1>1. s[1] \in T /\ DOMAIN s = 1..1
      OBVIOUS
<1>2. <<s[1]>> \in Seq(T) /\ Len(<<s[1]>>) = 1 /\ <<s[1]>>[1] = s[1]
      BY <1>1
<1>3. \A i \in 1..Len(s) : s[i] = <<s[1]>>[i]
  <2>1. \A i \in 1..Len(s) : i = 1
        OBVIOUS
  <2> QED BY <1>2, <2>1
<1> QED BY <1>1, <1>2, <1>3

(* When argv is arranged, its last token is the only operand.               *)
LEMMA LastIsOperand ==
    ASSUME NEW line \in Seq(Tokens), NEW px, NEW a, NEW o, ArrangedAs(line, px, a, o),
           Len(OperandsOf(line, px)) = 1
    PROVE  /\ a[Len(line)] = OperandsOf(line, px)[1]
           /\ OperandsOf(line, px)[1] \in Tokens
           /\ OperandsOf(line, px) = <<OperandsOf(line, px)[1]>>
<1> DEFINE N == Len(line)
           ps == OptionPlaces(line, px)
           qs == OperandPlaces(line, px)
           u == Kept(line, ps)
           v == Kept(line, qs)
<1>1. N \in Nat /\ \A k \in 1..N : line[k] \in Tokens
      OBVIOUS
<1>2. Split(ps, qs, N)
      BY PlacesSplit
<1> HIDE DEF N, ps, qs
<1>3. /\ ps \in SUBSET (1..N) /\ qs \in SUBSET (1..N)
      /\ ps \cap qs = {} /\ 1..N \subseteq ps \cup qs
      BY <1>2 DEF Split
<1>4. u \in Seq(Tokens) /\ Len(u) = Rank(ps, N)
      BY <1>1, <1>3, KeptSeq
<1>5. v \in Seq(Tokens) /\ Len(v) = Rank(qs, N)
      BY <1>1, <1>3, KeptSeq
<1>6. Rank(ps, N) + Rank(qs, N) = N
  <2>1. ps \in SUBSET (Nat \ {0}) /\ qs \in SUBSET (Nat \ {0}) /\ N \in 0..N
        BY <1>1, <1>3
  <2> QED BY <1>1, <1>3, <2>1, RankBoth
<1>7. a = u \o v /\ Len(v) = 1 /\ OperandsOf(line, px) = v
      BY DEF ArrangedAs, OperandsOf, ps, qs
<1> HIDE DEF u, v
<1>8. N = Len(u) + 1
      BY <1>4, <1>5, <1>6, <1>7
<1>9. a[N] = v[1]
      BY <1>4, <1>5, <1>7, <1>8, BehindAll
<1>10. v = <<v[1]>> /\ v[1] \in Tokens
       BY <1>5, <1>7, OneLong
<1> QED BY <1>7, <1>9, <1>10 DEF N

(* An empty list of evaluations, and nothing written yet.                   *)
LEMMA NothingTried ==
    /\ <<>> \in Seq(RunType)
    /\ \A f, g : InOutput(Succeeded(<<>>), f, g) = <<>>
<1>1. {i \in DOMAIN <<>> : Worked(<<>>[i])} = {}
      OBVIOUS
<1>2. Succeeded(<<>>) = Kept(<<>>, {})
      BY <1>1 DEF Succeeded, Worked
<1>3. Kept(<<>>, {}) = <<>>
  <2>1. Cardinality({}) = 0
        BY FS_EmptySet
  <2>2. 1..0 = {}
        OBVIOUS
  <2> QED BY <2>1, <2>2 DEF Kept
<1>4. \A f, g : InOutput(<<>>, f, g) = <<>>
      BY DEF InOutput, Blocks
<1> QED BY <1>2, <1>3, <1>4

(* When main chooses, what it is about to evaluate is what is wanted.       *)
LEMMA ChooseAnswers ==
    ASSUME given \in Argvs, Scanning, Choose, SynopsisOf(given, posixly_correct),
           OptIs(TypedOf(given, posixly_correct), SeenNow, opt),
           tried = <<>>, output = <<>>
    PROVE  /\ pc' \in {"running", "abort"}
           /\ Chosen(given, posixly_correct, opt')
           /\ Evaluated(given, posixly_correct, tried', output')
           /\ Len(tried') <= Len(WantedOf(given, posixly_correct))
           /\ pc' # "abort" => Left(given, posixly_correct, todo', tried')
<1> DEFINE t == TypedOf(given, posixly_correct)
           u == OperandsOf(given, posixly_correct)
           w == WantedOf(given, posixly_correct)
<1>1. /\ NoMoreOptions /\ opt' = opt /\ tried' = <<>> /\ output' = <<>>
      /\ IF opt.modality \/ opt.provider
         THEN \/ /\ pc' = "running"
                 /\ todo' = IF opt.list THEN Lines[InputFile] ELSE <<InputFile>>
              \/ pc' = "abort" /\ todo' = todo
         ELSE pc' = "exit -1" /\ todo' = todo
      BY DEF Choose
<1>2. given \in Seq(Tokens) /\ Len(argv) = Len(given)
      BY HereFacts
<1>3. OptIs(t, DOMAIN t, opt)
      BY <1>1, SeenEnd
<1>4. /\ Chosen(given, posixly_correct, opt)
      /\ opt.modality \/ opt.provider
      /\ opt.list <=> \E p \in DOMAIN t : t[p][1] = "-l"
      BY <1>2, <1>3, AllKept
<1>5. ArrangedAs(given, posixly_correct, argv', optind')
  <2>1. Arranged'
        BY <1>1, StopArranges
  <2>2. given' = given /\ posixly_correct' = posixly_correct
        BY <1>1 DEF NoMoreOptions, StopAt, getoptVars
  <2> QED BY <2>1, <2>2, ArrangedIs
<1>6. Len(u) = 1
      BY <1>2, SynopsisFacts DEF OperandsOf
<1>7. InputFile = u[1] /\ u[1] \in Tokens /\ u = <<u[1]>>
      BY <1>2, <1>5, <1>6, LastIsOperand DEF InputFile
<1>8. w = IF opt.list THEN Lines[u[1]] ELSE u
      BY <1>4 DEF WantedOf, Wanted
<1> HIDE DEF t, u, w
<1>9. w \in Seq(Tokens)
  <2>1. Lines[u[1]] \in Seq(Words)
        BY <1>7, LinesAssumption
  <2>2. Words \subseteq Tokens
        BY DEF Tokens
  <2>3. Lines[u[1]] \in Seq(Tokens)
        BY <2>1, <2>2
  <2>4. <<u[1]>> \in Seq(Tokens)
        BY <1>7
  <2> QED BY <1>7, <1>8, <2>3, <2>4
<1>10. Len(w) \in Nat /\ Len(<<>>) = 0
       BY <1>9
<1>11. ASSUME pc' # "abort" PROVE Left(given, posixly_correct, todo', tried')
  <2>1. todo' = w
        BY <1>1, <1>4, <1>7, <1>8, <1>11
  <2>2. Len(<<>>) + Len(w) = Len(w) /\ \A i \in 1..Len(w) : w[i] = w[Len(<<>>) + i]
    <3>1. \A i \in 1..Len(w) : 0 + i = i
          BY <1>10
    <3>2. 0 + Len(w) = Len(w)
          BY <1>10
    <3> QED BY <1>10, <3>1, <3>2
  <2> QED BY <1>1, <1>9, <2>1, <2>2 DEF Left, w
<1>12. Evaluated(given, posixly_correct, tried', output')
  <2>1. \A i \in 1..Len(<<>>) : FALSE
        OBVIOUS
  <2> QED BY <1>1, <2>1, NothingTried DEF Evaluated
<1>13. Len(tried') <= Len(w)
  <2>1. 0 <= Len(w)
        BY <1>10
  <2>2. Len(tried') = 0
        BY <1>1, <1>10
  <2> QED BY <2>1, <2>2
<1> QED BY <1>1, <1>4, <1>11, <1>12, <1>13 DEF w

(* One evaluation more, of the next file wanted.                            *)
LEMMA RunAnswers ==
    ASSUME NEW line, NEW px, NEW o, Chosen(line, px, o),
           NEW tr, NEW out, Evaluated(line, px, tr, out),
           NEW td, Left(line, px, td, tr), td # <<>>,
           NEW ok \in BOOLEAN, NEW run,
           run = [modality |-> o.modality, arg |-> o.arg, file |-> Head(td), ok |-> ok],
           NEW out2,
           out2 = IF ok /\ Opens(o.to)
                  THEN Append(out, [run |-> run,
                                    format |-> IF o.format = "json" THEN "json" ELSE "text",
                                    to |-> o.to])
                  ELSE out
    PROVE  /\ Evaluated(line, px, Append(tr, run), out2)
           /\ Left(line, px, Tail(td), Append(tr, run))
           /\ Len(Append(tr, run)) <= Len(WantedOf(line, px))
<1> DEFINE t == TypedOf(line, px)
           w == WantedOf(line, px)
           c == TheCommand(t)
           f == TheFormat(t)
           g == TheOutput(t)
           n == Len(tr)
           a == Append(tr, run)
<1>1. /\ tr \in Seq(RunType) /\ td \in Seq(Tokens)
      /\ out = InOutput(Succeeded(tr), f, g)
      /\ \A i \in 1..n : /\ tr[i].modality <=> c[1] = "-m"
                         /\ tr[i].arg = c[2]
                         /\ tr[i].file = w[i]
      /\ n + Len(td) = Len(w)
      /\ \A i \in 1..Len(td) : td[i] = w[n + i]
      BY DEF Evaluated, Left
<1>2. /\ o \in OptType /\ o.arg = c[2] /\ o.to = g
      /\ f = IF o.format = "json" THEN "json" ELSE "text"
      /\ o.modality <=> c[1] = "-m"
      BY DEF Chosen, TheFormat
<1> HIDE DEF t, c, f, g, w
<1>3. Len(td) \in Nat \ {0} /\ n \in Nat
      BY <1>1
<1>4. Head(td) = td[1] /\ td[1] \in Tokens /\ td[1] = w[n + 1]
      BY <1>1, <1>3
<1>5. run \in RunType
      BY <1>2, <1>4 DEF RunType, OptType
<1>6. /\ run.arg = c[2] /\ run.file = w[n + 1] /\ run.modality = o.modality /\ run.ok = ok
      BY <1>2, <1>4
<1>7. run.modality <=> c[1] = "-m"
      BY <1>2, <1>6
<1>8. /\ a \in Seq(RunType) /\ Len(a) = n + 1
      /\ \A i \in 1..n : a[i] = tr[i]
      /\ a[n + 1] = run
      BY <1>1, <1>5, AppendProperties
<1>9. \A i \in 1..(n + 1) : i \in 1..n \/ i = n + 1
      BY <1>3
<1>10. \A i \in 1..Len(a) : a[i].modality <=> c[1] = "-m"
       BY <1>1, <1>7, <1>8, <1>9
<1>11. \A i \in 1..Len(a) : a[i].arg = c[2] /\ a[i].file = w[i]
       BY <1>1, <1>6, <1>8, <1>9
<1>12. Worked(run) <=> ok
       BY <1>6 DEF Worked
<1>13. /\ Succeeded(tr) \in Seq(RunType)
       /\ Succeeded(a) = IF Worked(run) THEN Append(Succeeded(tr), run) ELSE Succeeded(tr)
       BY <1>1, <1>5, SucceededNext
<1> HIDE DEF a, n
<1>14. out2 = InOutput(Succeeded(a), f, g)
  <2>1. CASE ok /\ Opens(g)
    <3>1. out2 = Append(Blocks(Succeeded(tr), f, g), [run |-> run, format |-> f, to |-> g])
          BY <1>1, <1>2, <2>1 DEF InOutput
    <3>2. Succeeded(a) = Append(Succeeded(tr), run)
          BY <1>12, <1>13, <2>1
    <3>3. Blocks(Append(Succeeded(tr), run), f, g) =
             Append(Blocks(Succeeded(tr), f, g), [run |-> run, format |-> f, to |-> g])
          BY <1>5, <1>13, BlocksNext
    <3> QED BY <2>1, <3>1, <3>2, <3>3 DEF InOutput
  <2>2. CASE ~ok
        BY <1>1, <1>12, <1>13, <2>2
  <2>3. CASE ~Opens(g)
        BY <1>1, <1>2, <2>3 DEF InOutput
  <2> QED BY <2>1, <2>2, <2>3
<1>15. Evaluated(line, px, a, out2)
       BY <1>8, <1>10, <1>11, <1>14 DEF Evaluated, t, c, w, f, g
<1>16. /\ Tail(td) \in Seq(Tokens) /\ Len(Tail(td)) = Len(td) - 1
       /\ \A i \in 1..(Len(td) - 1) : Tail(td)[i] = td[i + 1]
       BY <1>1, <1>3
<1>17. Left(line, px, Tail(td), a)
  <2>1. Len(a) + Len(Tail(td)) = Len(w)
        BY <1>1, <1>3, <1>8, <1>16
  <2>2. \A i \in 1..Len(Tail(td)) : Tail(td)[i] = w[Len(a) + i]
    <3> TAKE i \in 1..Len(Tail(td))
    <3>1. i \in 1..(Len(td) - 1) /\ i + 1 \in 1..Len(td) /\ n + (i + 1) = (n + 1) + i
          BY <1>3, <1>16
    <3>2. Tail(td)[i] = td[i + 1] /\ td[i + 1] = w[n + (i + 1)]
          BY <1>1, <1>16, <3>1
    <3> QED BY <1>8, <3>1, <3>2
  <2> QED BY <1>16, <2>1, <2>2 DEF Left, w
<1>18. Len(a) <= Len(w)
       BY <1>1, <1>3, <1>8
<1> QED BY <1>15, <1>17, <1>18 DEF a, w

(* The invariant holds when main begins ...                                 *)
LEMMA AskInvInit == Init => AskInv
<1> SUFFICES ASSUME Init, SynopsisOf(given, posixly_correct)
             PROVE  /\ pc = "options"
                    /\ OptIs(TypedOf(given, posixly_correct), SeenNow, opt)
                    /\ tried = <<>> /\ output = <<>>
    BY DEF AskInv
<1> DEFINE t == TypedOf(given, posixly_correct)
<1>1. /\ given \in Seq(Tokens) /\ optind = 1 /\ place = 0 /\ pc = "options"
      /\ tried = <<>> /\ output = <<>>
      /\ opt = [format |-> "text", to |-> "-", arg |-> None,
                modality |-> FALSE, provider |-> FALSE, list |-> FALSE]
      BY ArgvsAssumption DEF Init, InitGetopt
<1>2. SeenNow = {}
      BY <1>1, SeenStart DEF SeenNow
<1> HIDE DEF t
<1>3. /\ opt.format = "text" /\ opt.to = "-" /\ opt.arg = None
      /\ ~opt.modality /\ ~opt.provider /\ ~opt.list
      BY <1>1
<1>4. opt \in OptType
      BY <1>1 DEF OptType, OptValues
<1>5. OptIs(t, {}, opt)
      BY <1>3, <1>4 DEF OptIs, LastIs, ListIs, CommandIs
<1> QED BY <1>1, <1>2, <1>5 DEF t

(* ... and whatever main does.                                              *)
LEMMA AskInvNext == LineInv /\ AskInv /\ [Next]_vars => AskInv'
<1> SUFFICES ASSUME LineInv, AskInv, [Next]_vars PROVE AskInv'
    OBVIOUS
<1> DEFINE line == given
           px == posixly_correct
           t == TypedOf(line, px)
           w == WantedOf(line, px)
<1>1. given \in Argvs /\ given' = line /\ posixly_correct' = px /\ line \in Seq(Tokens)
  <2>1. given \in Argvs
        BY DEF LineInv
  <2>2. given' = given /\ posixly_correct' = posixly_correct
        BY DEF Next, vars, getoptVars, NoArguments, Operand, BadOption, HelpOrVersion,
               SetFormat, SetOutput, SetList, Command, ListProviders, Choose,
               RunProvider, RunThrows, Finish, Option, ReturnsOption, ReturnsError,
               OptionOf, SkipOperand, NoMoreOptions, StopAt
  <2> QED BY <2>1, <2>2, ArgvsAssumption
<1> SUFFICES ASSUME SynopsisOf(line, px) PROVE AskInv'
    BY <1>1 DEF AskInv
<1>2. pc = "options" => /\ Scanning /\ OptIs(t, SeenNow, opt)
                        /\ tried = <<>> /\ output = <<>>
      BY DEF LineInv, AskInv
<1>3. pc # "options" =>
         /\ pc \in {"running", "exit 0", "abort"}
         /\ Chosen(line, px, opt)
         /\ Evaluated(line, px, tried, output)
         /\ Len(tried) <= Len(w)
         /\ pc # "abort" => Left(line, px, todo, tried)
         /\ pc = "exit 0" => todo = <<>>
      BY DEF AskInv
<1> HIDE DEF t, w
(* The loop goes on.                                                        *)
<1>4. ASSUME pc' = "options", tried' = <<>>, output' = <<>>,
             OptIs(t, Seen(line, px, optind', place'), opt')
      PROVE  AskInv'
      BY <1>1, <1>4 DEF AskInv, SeenNow, t
(* The evaluations go on, or are over.                                      *)
<1>5. ASSUME pc' \in {"running", "exit 0", "abort"}, opt' = opt, Chosen(line, px, opt),
             Evaluated(line, px, tried', output'), Len(tried') <= Len(w),
             pc' # "abort" => Left(line, px, todo', tried'),
             pc' = "exit 0" => todo' = <<>>
      PROVE  AskInv'
      BY <1>1, <1>5 DEF AskInv, w
(* The arguments are not of the documented form.                            *)
<1>6. ASSUME NEW S, pc = "options", ReturnsOption(S)
      PROVE  S \cap (WithArgument \cup {"-l"}) # {}
  <2>1. IsOption /\ Letter \in S
        BY <1>6 DEF ReturnsOption
  <2>2. Letter \in WithArgument \cup {"-l"}
        BY <1>1, <1>2, <1>6, <2>1, SynopsisLetter
  <2> QED BY <2>1, <2>2
<1>7. CASE NoArguments
  <2>1. pc = "options" /\ argv = <<>>
        BY <1>7 DEF NoArguments
  <2>2. Len(argv) = Len(given) /\ given # <<>>
        BY <1>1, <1>2, <2>1, HereFacts, SynopsisHasOperand
  <2>3. Len(<<>>) = 0 /\ \A s \in Seq(Tokens) : Len(s) = 0 => s = <<>>
        OBVIOUS
  <2> QED BY <1>1, <2>1, <2>2, <2>3
<1>8. CASE Operand
  <2>1. /\ pc = "options" /\ SkipOperand
        /\ pc' = pc /\ opt' = opt /\ tried' = tried /\ output' = output
        BY <1>8 DEF Operand, mainVars
  <2>2. Seen(line, px, optind', place') = SeenNow
        BY <1>1, <1>2, <2>1, SeenPast
  <2> QED BY <1>2, <1>4, <2>1, <2>2
<1>9. CASE BadOption
  <2>1. pc = "options" /\ IsOption /\ Refused
        BY <1>9 DEF BadOption, ReturnsError
  <2> QED BY <1>1, <1>2, <2>1, SynopsisLetter
<1>10. CASE HelpOrVersion
  <2>1. pc = "options" /\ ReturnsOption({"-h", "-V"})
        BY <1>10 DEF HelpOrVersion
  <2>2. {"-h", "-V"} \cap (WithArgument \cup {"-l"}) # {}
        BY <1>6, <2>1
  <2> QED BY <2>2 DEF WithArgument
<1>11. ASSUME NEW S, Option(S), OptUpdated(opt, opt') PROVE AskInv'
  <2>1. /\ pc = "options" /\ ReturnsOption(S)
        /\ pc' = pc /\ tried' = tried /\ output' = output
        BY <1>11 DEF Option
  <2>2. OptIs(t, Seen(line, px, optind', place'), opt')
        BY <1>1, <1>2, <1>11, <2>1, OptionKept DEF t
  <2> QED BY <1>2, <1>4, <2>1, <2>2
<1>12. CASE SetFormat
  <2>1. Option({"-f"}) /\ Letter = "-f" /\ opt' = [opt EXCEPT !.format = Optarg]
        BY <1>12 DEF SetFormat, Option, ReturnsOption
  <2> QED BY <1>11, <2>1 DEF OptUpdated
<1>13. CASE SetOutput
  <2>1. Option({"-o"}) /\ Letter = "-o" /\ opt' = [opt EXCEPT !.to = Optarg]
        BY <1>13 DEF SetOutput, Option, ReturnsOption
  <2> QED BY <1>11, <2>1 DEF OptUpdated
<1>14. CASE SetList
  <2>1. Option({"-l"}) /\ Letter = "-l" /\ opt' = [opt EXCEPT !.list = TRUE]
        BY <1>14 DEF SetList, Option, ReturnsOption
  <2> QED BY <1>11, <2>1 DEF OptUpdated
<1>15. CASE Command
  <2>1. /\ pc = "options" /\ Option({"-m", "-p"}) /\ IsOption /\ IsCommand(Letter)
        /\ OptionOf(IF Separate THEN 2 ELSE 1)
        BY <1>15 DEF Command, Option, ReturnsOption, IsCommand
  <2>2. ~(optind' > Len(argv))
        BY <1>1, <1>2, <2>1, SynopsisLetter
  <2>3. opt' = [opt EXCEPT !.arg = Optarg,
                           !.modality = @ \/ Letter = "-m",
                           !.provider = @ \/ Letter = "-p"]
        BY <1>15, <2>2 DEF Command
  <2>4. OptUpdated(opt, opt')
        BY <2>1, <2>3 DEF OptUpdated
  <2> QED BY <1>11, <2>1, <2>4
<1>16. CASE ListProviders
  <2>1. pc = "options" /\ ReturnsOption({"-P"})
        BY <1>16 DEF ListProviders
  <2>2. {"-P"} \cap (WithArgument \cup {"-l"}) # {}
        BY <1>6, <2>1
  <2> QED BY <2>2 DEF WithArgument
<1>17. CASE Choose
  <2>1. pc = "options" /\ opt' = opt /\ tried' = tried
        BY <1>17 DEF Choose
  <2>2. /\ pc' \in {"running", "abort"}
        /\ Chosen(line, px, opt')
        /\ Evaluated(line, px, tried', output')
        /\ Len(tried') <= Len(w)
        /\ pc' # "abort" => Left(line, px, todo', tried')
        BY <1>1, <1>2, <1>17, <2>1, ChooseAnswers DEF t, w
  <2> QED BY <1>5, <2>1, <2>2
<1>18. ASSUME NEW ok \in BOOLEAN, RunProvider(ok) PROVE AskInv'
  <2>1. /\ pc = "running" /\ todo # <<>> /\ todo' = Tail(todo)
        /\ tried' = Append(tried, Run(ok)) /\ opt' = opt /\ pc' = pc
        /\ output' = IF ok /\ Opens(opt.to) THEN Append(output, Block(Run(ok))) ELSE output
        BY <1>18 DEF RunProvider
  <2>2. Run(ok) = [modality |-> opt.modality, arg |-> opt.arg, file |-> Head(todo), ok |-> ok]
        BY DEF Run
  <2>3. Block(Run(ok)) = [run |-> Run(ok),
                          format |-> IF opt.format = "json" THEN "json" ELSE "text",
                          to |-> opt.to]
        BY DEF Block
  <2>4. /\ Chosen(line, px, opt) /\ Evaluated(line, px, tried, output)
        /\ Left(line, px, todo, tried)
        BY <1>3, <2>1
  <2> DEFINE run == Run(ok)
             block == [run |-> run,
                       format |-> IF opt.format = "json" THEN "json" ELSE "text",
                       to |-> opt.to]
             out2 == IF ok /\ Opens(opt.to) THEN Append(output, block) ELSE output
  <2>5. output' = out2
        BY <2>1, <2>3
  <2> HIDE DEF out2, run
  <2>6. /\ Evaluated(line, px, Append(tried, run), out2)
        /\ Left(line, px, Tail(todo), Append(tried, run))
        /\ Len(Append(tried, run)) <= Len(w)
        BY <2>1, <2>2, <2>4, RunAnswers DEF out2, run, w
  <2> QED BY <1>5, <2>1, <2>4, <2>5, <2>6 DEF run
<1>19. CASE RunThrows
  <2>1. /\ pc = "running" /\ pc' = "abort" /\ opt' = opt /\ tried' = tried
        /\ output' = output
        BY <1>19 DEF RunThrows
  <2> QED BY <1>3, <1>5, <2>1
<1>20. CASE Finish
  <2>1. /\ pc = "running" /\ pc' = "exit 0" /\ todo = <<>>
        /\ opt' = opt /\ tried' = tried /\ output' = output /\ todo' = todo
        BY <1>20 DEF Finish
  <2> QED BY <1>3, <1>5, <2>1
<1>21. CASE UNCHANGED vars
  <2>1. /\ optind' = optind /\ place' = place /\ opt' = opt /\ pc' = pc
        /\ todo' = todo /\ tried' = tried /\ output' = output
        BY <1>21 DEF vars, getoptVars, mainVars
  <2>2. Seen(line, px, optind', place') = SeenNow
        BY <2>1 DEF SeenNow
  <2> QED BY <1>2, <1>3, <1>4, <1>5, <2>1, <2>2
<1> QED BY <1>7, <1>8, <1>9, <1>10, <1>12, <1>13, <1>14, <1>15, <1>16, <1>17,
           <1>18, <1>19, <1>20, <1>21 DEF Next

(* For a command line of the documented form, with its options in any order *)
(* and spelling, main evaluates what was asked for and writes what succeeded *)
(* where and as it was asked to.                                            *)
THEOREM AnswersAsAsked == Spec => []AsAsked
<1>1. Spec => [](LineInv /\ AskInv)
      BY LineInvInit, LineInvNext, AskInvInit, AskInvNext, PTL DEF Spec
<1>2. LineInv /\ AskInv => AsAsked
      BY AskInvAnswers DEF LineInv
<1> QED BY <1>1, <1>2, PTL
=============================================================================
