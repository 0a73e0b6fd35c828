-------------------------------- MODULE Getopt --------------------------------
(***************************************************************************)
(* getopt_long as the command line calls it: options and their arguments,   *)
(* and the permutation of argv that puts the operands behind the options.   *)
(* Source: src/cxx/windows/getopt.h (on other systems the C library's).     *)
(*                                                                          *)
(* argv[i] is argv[i] of C; the program's name, argv[0], is left out, so    *)
(* that Len(argv) is argc - 1.  An option token is given by the letters it  *)
(* is made of and by the argument attached to the last one; a long one, by  *)
(* the name typed and the names of the table it begins.  "-x" is any letter *)
(* that is refused, and "-" is an operand.  A '-' behind a letter ("-l-V")  *)
(* is left out.                                                             *)
(***************************************************************************)
EXTENDS Integers, FiniteSetsExt, SequencesExt

CONSTANTS
    Words,          \* arguments that are no options
    Shorts,         \* Shorts[x]: the letters and the argument of token x
    Longs,          \* Longs[x]: the name and the argument of token x
    Argvs           \* command lines, without the program's name

(* "f:hlo:VP::m:p:": the argument of -P is optional, and has to be attached. *)
WithArgument == {"-m", "-p", "-f", "-o"}
WithoutArgument == {"-l", "-h", "-V", "-x"}
Letters == WithArgument \cup WithoutArgument \cup {"-P"}

LongOptions ==
    <<<<"help", "-h">>, <<"version", "-V">>, <<"providers", "-P">>,
      <<"modality", "-m">>, <<"provider", "-p">>, <<"output-format", "-f">>,
      <<"output", "-o">>, <<"file-list", "-l">>>>
LongNames == {o[1] : o \in Range(LongOptions)}

OptionTokens == DOMAIN Shorts \cup DOMAIN Longs
Tokens == Words \cup OptionTokens \cup {"--"}
None == "none"

(* A letter that takes an argument has the rest of the token as argument.   *)
ASSUME ShortsAssumption ==
    \A x \in DOMAIN Shorts :
        LET s == Shorts[x]
        IN  /\ s.letters \in Seq(Letters) \ {<<>>} /\ s.arg \in Words \cup {None}
            /\ \A i \in 1..(Len(s.letters) - 1) : s.letters[i] \in WithoutArgument
            /\ s.arg # None => Last(s.letters) \in WithArgument \cup {"-P"}
ASSUME LongsAssumption ==
    \A x \in DOMAIN Longs :
        /\ Longs[x].begins \subseteq LongNames
        /\ Longs[x].name \in LongNames => Longs[x].name \in Longs[x].begins
        /\ Longs[x].arg \in Words \cup {None}
ASSUME TokensAssumption ==
    /\ DOMAIN Shorts \cap DOMAIN Longs = {}
    /\ Words \cap (OptionTokens \cup {"--", None}) = {}
ASSUME ArgvsAssumption == Argvs \subseteq Seq(Tokens)

VARIABLES
    given,              \* history: the command line as it was typed
    posixly_correct,    \* was POSIXLY_CORRECT in the environment?
    argv,
    optind,             \* the argument getopt_long goes on with
    place,              \* how many of its letters have been returned
    nonopt_start,       \* the operands skipped since the last permutation,
    nonopt_end          \* and the option after them; -1 for none

getoptVars == <<given, posixly_correct, argv, optind, place,
                nonopt_start, nonopt_end>>

-----------------------------------------------------------------------------
(* permute_args: the blocks [start, end) and [end, opt_end) change places,  *)
(* by as many cyclic exchanges as their lengths have common divisor.        *)

(* Mutant of Gcd: one cycle moves everything.                               *)
OneCycle(a, b) == 1

Gcd(a, b) == Max({d \in 1..b : a % d = 0 /\ b % d = 0})

PermuteArgs(args, start, end, opt_end) ==
    LET nnonopts == end - start
        nopts    == opt_end - end
        ncycle   == Gcd(nnonopts, nopts)
        cyclelen == (opt_end - start) \div ncycle
        (* Where cycle i is after its j-th advance, which is by nopts, round *)
        (* the two blocks.                                                   *)
        Pos(i, j) == start + ((nnonopts + i + j * nopts) % (nnonopts + nopts))
        Exchanged(a, p, q) ==
            [k \in DOMAIN args |-> a[IF k = p THEN q ELSE IF k = q THEN p ELSE k]]
        Walk[n \in 0..(ncycle * cyclelen)] ==
            IF n = 0 THEN args
            ELSE LET i == (n - 1) \div cyclelen
                     j == (n - 1) % cyclelen
                 IN  Exchanged(Walk[n - 1], Pos(i, j + 1), end + i)
    IN  Walk[ncycle * cyclelen]

-----------------------------------------------------------------------------
InitGetopt ==
    /\ given \in Argvs
    /\ posixly_correct \in BOOLEAN
    /\ argv = given
    /\ optind = 1
    /\ place = 0
    /\ nonopt_start = -1
    /\ nonopt_end = -1

More == optind <= Len(argv)
AtEnd == optind = Len(argv)
Here == argv[optind]

(* The operands skipped end here, unless they ended earlier.                *)
OperandsEnd ==
    IF nonopt_start # -1 /\ nonopt_end = -1 THEN optind ELSE nonopt_end

(* Mutant of SkipOperand: operands skipped after a permutation are counted  *)
(* from the start of the first ones.                                        *)
SkipOperandKeepsStart ==
    /\ More /\ Here \in Words
    /\ ~posixly_correct
    /\ IF nonopt_end # -1
       THEN /\ argv' = PermuteArgs(argv, nonopt_start, nonopt_end, optind)
            /\ nonopt_start' = nonopt_start
       ELSE /\ argv' = argv
            /\ nonopt_start' = IF nonopt_start = -1 THEN optind ELSE nonopt_start
    /\ nonopt_end' = -1
    /\ optind' = optind + 1
    /\ UNCHANGED <<given, posixly_correct, place>>

(* getopt_internal passes over an operand; the options between it and those *)
(* before it go in front of them.                                           *)
SkipOperand ==
    /\ More /\ Here \in Words
    /\ ~posixly_correct
    /\ IF nonopt_end # -1
       THEN /\ argv' = PermuteArgs(argv, nonopt_start, nonopt_end, optind)
            /\ nonopt_start' = optind - (nonopt_end - nonopt_start)
       ELSE /\ argv' = argv
            /\ nonopt_start' = IF nonopt_start = -1 THEN optind ELSE nonopt_start
    /\ nonopt_end' = -1
    /\ optind' = optind + 1
    /\ UNCHANGED <<given, posixly_correct, place>>

(* It returns -1, with the options that were last before the operands.      *)
StopAt(end, opt_end) ==
    /\ argv' = IF end = -1 THEN argv
               ELSE PermuteArgs(argv, nonopt_start, end, opt_end)
    /\ optind' = IF end # -1 THEN opt_end - (end - nonopt_start)
                 ELSE IF nonopt_start # -1 THEN nonopt_start ELSE opt_end
    /\ nonopt_start' = -1
    /\ nonopt_end' = -1
    /\ UNCHANGED <<given, posixly_correct, place>>

NoMoreOptions ==
    \/ ~More /\ StopAt(nonopt_end, optind)
    \/ More /\ Here = "--" /\ StopAt(OperandsEnd, optind + 1)
    \/ /\ More /\ Here \in Words
       /\ posixly_correct
       /\ UNCHANGED getoptVars

(* parse_long_options: the entries of the table that the typed name begins, *)
(* up to the one it equals, where the search ends.                          *)
Scanned(l) ==
    {i \in DOMAIN LongOptions :
        /\ LongOptions[i][1] \in l.begins
        /\ \A k \in 1..(i - 1) : LongOptions[k][1] # l.name}

(* Mutant of Matches: the name itself is a match like any other.            *)
MatchesAll(l) == Scanned(l)

(* An exact match forgets the others; no two entries are the same option,   *)
(* so that two partial ones are ambiguous.                                  *)
Matches(l) ==
    IF l.name \in LongNames
    THEN {i \in Scanned(l) : LongOptions[i][1] = l.name}
    ELSE Scanned(l)

(* The letter it returns: an unknown or ambiguous name, or "=" with an      *)
(* option that takes no argument, is refused.                               *)
LongLetter(l) ==
    LET found == {LongOptions[i][2] : i \in Matches(l)}
    IN  IF \/ Cardinality(found) # 1
           \/ found \subseteq WithoutArgument /\ l.arg # None
        THEN "-x"
        ELSE CHOOSE letter \in found : TRUE

Spelled(x) ==
    IF x \in DOMAIN Longs
    THEN [letters |-> <<LongLetter(Longs[x])>>, arg |-> Longs[x].arg]
    ELSE Shorts[x]

(* Does an option spelled s take the token behind it as an argument?        *)
Takes(s) == s.arg = None /\ Last(s.letters) \in WithArgument

(* It returns an option: its letter and optarg (None for a null pointer).   *)
(* A missing argument is an error.                                          *)
IsOption == More /\ Here \notin Words \cup {"--"}
Letter == Spelled(Here).letters[place + 1]
LastLetter == place + 1 = Len(Spelled(Here).letters)
Separate == LastLetter /\ Takes(Spelled(Here))
Refused == Letter = "-x" \/ (Separate /\ AtEnd)
Optarg ==
    IF ~LastLetter THEN None
    ELSE IF Separate THEN argv[optind + 1] ELSE Spelled(Here).arg

(* Mutant of OptionOf: the letters behind the first are forgotten.          *)
OptionOfOneLetter(n) ==
    /\ optind' = optind + n
    /\ place' = 0
    /\ nonopt_end' = OperandsEnd
    /\ UNCHANGED <<given, posixly_correct, argv, nonopt_start>>

(* The token is done with its last letter; n tokens are, with its argument. *)
OptionOf(n) ==
    /\ IF LastLetter
       THEN optind' = optind + n /\ place' = 0
       ELSE optind' = optind /\ place' = place + 1
    /\ nonopt_end' = OperandsEnd
    /\ UNCHANGED <<given, posixly_correct, argv, nonopt_start>>

ReturnsOption(S) ==
    /\ IsOption
    /\ ~Refused
    /\ Letter \in S
    /\ OptionOf(IF Separate THEN 2 ELSE 1)

ReturnsError ==
    /\ IsOption
    /\ Refused
    /\ OptionOf(1)

-----------------------------------------------------------------------------
(* What getopt_long promises (getopt(3)), said of the line as it was typed. *)

(* A long name may be abbreviated if the abbreviation is unique or is an    *)
(* exact match.                                                             *)
Meant(x) ==
    LET l == Longs[x]
        S == {o \in Range(LongOptions) :
                 o[1] = l.name \/ (l.name \notin LongNames /\ o[1] \in l.begins)}
    IN  IF x \in DOMAIN Shorts THEN Shorts[x]
        ELSE [letters |-> IF \E o \in S : S = {o} /\ (l.arg # None => o[2] \notin WithoutArgument)
                          THEN <<(CHOOSE o \in S : TRUE)[2]>> ELSE <<"-x">>,
              arg |-> l.arg]

(* What token j of a line is: part of the options or an operand, "operand"  *)
(* among them or "behind" what ends them: "--", or an operand under         *)
(* POSIXLY_CORRECT.                                                         *)
RoleAfter(before, line, j, posixly) ==
    IF before \in {"end", "behind"} THEN "behind"
    ELSE IF before = "option" /\ Takes(Meant(line[j - 1])) THEN "argument"
    ELSE IF line[j] = "--" THEN "end"
    ELSE IF line[j] \notin Words THEN "option"
    ELSE IF posixly THEN "behind" ELSE "operand"
Roles(line, posixly) ==
    LET R[j \in 0..Len(line)] ==
            IF j = 0 THEN "start" ELSE RoleAfter(R[j - 1], line, j, posixly)
    IN  [j \in 1..Len(line) |-> R[j]]
Role == Roles(given, posixly_correct)

(* The elements of s at the places in js, in their order.                   *)
Kept(s, js) ==
    LET Rank(j) == Cardinality({i \in js : i <= j})
    IN  [n \in 1..Cardinality(js) |-> s[CHOOSE j \in js : Rank(j) = n]]

OptionRoles == {"option", "argument", "end"}
OperandRoles == {"operand", "behind"}
Places(role, roles) == {j \in DOMAIN role : role[j] \in roles}
Operands == Kept(given, Places(Role, OperandRoles))
NoOperands == Kept(given, Places(Role, OptionRoles))

(* The options typed: option i of token j, with its argument, or None, at   *)
(* <<j, i>>.                                                                *)
TypedIn(line, role) ==
    LET At == UNION {{j} \X (1..Len(Meant(line[j]).letters)) : j \in Places(role, {"option"})}
        Argument(j, i) ==
            LET s == Meant(line[j])
            IN  IF i < Len(s.letters) THEN None
                ELSE IF Takes(s) /\ j < Len(line) THEN line[j + 1]
                ELSE s.arg
    IN  [p \in At |-> <<Meant(line[p[1]]).letters[p[2]], Argument(p[1], p[2])>>]
Typed == TypedIn(given, Role)
Earlier(p, q) == p[1] < q[1] \/ (p[1] = q[1] /\ p[2] < q[2])

(* The options with their arguments, in the order they were typed, then the *)
(* operands in theirs, of which optind is the first.                        *)
Arranged ==
    LET first == NoOperands
    IN  argv = first \o Operands /\ optind = Len(first) + 1
=============================================================================
