--------------------------------- MODULE Cli ---------------------------------
(***************************************************************************)
(* The command line: main's loop over the options, the choice of provider   *)
(* or modality, the file or list of files, and what is written.             *)
(* Source: src/cxx/BIQT-cli.cpp.                                            *)
(*                                                                          *)
(* The loop calls getopt_long, module Getopt.  Texts written are abstracted *)
(* to what they are the result of.                                          *)
(***************************************************************************)
EXTENDS Getopt

CONSTANTS
    Lines,          \* Lines[f]: the lines of file f, none if it is not there
    Installed,      \* the modalities of the installed providers
    Unopenable      \* the files that cannot be opened for writing

ASSUME LinesAssumption == Lines \in [Tokens -> Seq(Words)]

VARIABLES
    opt,        \* the variables the options set
    pc,         \* "options", "running", or how the process ended
    todo,       \* the files still to evaluate
    tried,      \* history: the evaluations
    output,     \* the blocks written
    listing     \* what -P printed: the modalities of the providers listed

mainVars == <<opt, pc, todo, tried, output, listing>>
vars == <<getoptVars, mainVars>>

(* How the process ends: exit(0) after -P, main's result or any other       *)
(* exit, or an exception nobody catches.                                    *)
Exits == {"listed", "exit 0", "exit -1", "abort"}

-----------------------------------------------------------------------------
Init ==
    /\ InitGetopt
    /\ opt = [format |-> "text", to |-> "-", arg |-> None,
              modality |-> FALSE, provider |-> FALSE, list |-> FALSE]
    /\ pc = "options"
    /\ todo = <<>>
    /\ tried = <<>>
    /\ output = <<>>
    /\ listing = {}

(* getopt_long passes over an operand before it returns.                    *)
Operand ==
    /\ pc = "options"
    /\ SkipOperand
    /\ UNCHANGED mainVars

(* getopt_long returns one of S, and main's switch goes on with the options.*)
Option(S) ==
    /\ pc = "options"
    /\ ReturnsOption(S)
    /\ UNCHANGED <<pc, todo, tried, output, listing>>

NoArguments ==
    /\ pc = "options"
    /\ argv = <<>>
    /\ NoMoreOptions
    /\ pc' = "exit 0"
    /\ UNCHANGED <<opt, todo, tried, output, listing>>

(* Mutant of BadOption: no progress.                                        *)
BadOptionAgain ==
    /\ pc = "options"
    /\ IsOption /\ Refused
    /\ OptionOf(0)
    /\ UNCHANGED mainVars

(* '?': an unknown option or a missing argument.                            *)
BadOption ==
    /\ pc = "options"
    /\ ReturnsError
    /\ UNCHANGED mainVars

HelpOrVersion ==
    /\ pc = "options"
    /\ ReturnsOption({"-h", "-V"})
    /\ pc' = "exit 0"
    /\ UNCHANGED <<opt, todo, tried, output, listing>>

SetFormat == Option({"-f"}) /\ opt' = [opt EXCEPT !.format = Optarg]

SetOutput == Option({"-o"}) /\ opt' = [opt EXCEPT !.to = Optarg]

SetList == Option({"-l"}) /\ opt' = [opt EXCEPT !.list = TRUE]

(* -m and -p: refused with a message when nothing follows the argument.     *)
Command ==
    /\ Option({"-m", "-p"})
    /\ opt' = IF optind' > Len(argv) THEN opt
              ELSE [opt EXCEPT !.arg = Optarg,
                               !.modality = @ \/ Letter = "-m",
                               !.provider = @ \/ Letter = "-p"]

(* Mutant of Asked: a modality behind a space is not seen.                  *)
AskedAttached == Optarg

(* The modality -P takes: its own argument, or whatever follows it.         *)
Asked ==
    IF Optarg = None /\ ~AtEnd THEN argv[optind + 1] ELSE Optarg
Printed == IF Asked = None THEN Installed ELSE Installed \cap {Asked}

(* -P: creates the BIQT object, whose constructor may throw, prints, exits. *)
ListProviders ==
    /\ pc = "options"
    /\ ReturnsOption({"-P"})
    /\ \/ pc' = "listed" /\ listing' = Printed
       \/ pc' = "abort" /\ listing' = listing
    /\ UNCHANGED <<opt, todo, tried, output>>

(* argv[argc - 1], after getopt_long has rearranged argv.                   *)
InputFile == argv'[Len(argv)]

(* The end of the options: without a command main gives up.  Otherwise it   *)
(* creates the BIQT object.                                                 *)
Choose ==
    /\ pc = "options"
    /\ argv # <<>>
    /\ NoMoreOptions
    /\ IF opt.modality \/ opt.provider
       THEN \/ /\ pc' = "running"
               /\ todo' = IF opt.list THEN Lines[InputFile] ELSE <<InputFile>>
            \/ pc' = "abort" /\ todo' = todo
       ELSE pc' = "exit -1" /\ todo' = todo
    /\ UNCHANGED <<opt, tried, output, listing>>

(* run_provider, with or without a result to write.  The provider's error   *)
(* code is returned to main, which ignores it.                              *)
Run(ok) ==
    [modality |-> opt.modality, arg |-> opt.arg, file |-> Head(todo), ok |-> ok]

Block(run) ==
    [run |-> run, format |-> IF opt.format = "json" THEN "json" ELSE "text",
     to |-> opt.to]

(* "-" is the standard output.  The stream is not tested: what is written   *)
(* to a file that does not open is lost, and nobody is told.                *)
Opens(to) == to = "-" \/ to \notin Unopenable

(* Mutant of RunProvider: the first error ends the list.                    *)
RunProviderOrStop(ok) ==
    /\ pc = "running"
    /\ todo # <<>>
    /\ todo' = IF ok THEN Tail(todo) ELSE <<>>
    /\ tried' = Append(tried, Run(ok))
    /\ output' = IF ok /\ Opens(opt.to) THEN Append(output, Block(Run(ok))) ELSE output
    /\ UNCHANGED <<getoptVars, opt, pc, listing>>

(* Mutant of RunProvider: a block is written for an error as well.          *)
RunProviderWritesAll(ok) ==
    /\ pc = "running"
    /\ todo # <<>>
    /\ todo' = Tail(todo)
    /\ tried' = Append(tried, Run(ok))
    /\ output' = IF Opens(opt.to) THEN Append(output, Block(Run(ok))) ELSE output
    /\ UNCHANGED <<getoptVars, opt, pc, listing>>

RunProvider(ok) ==
    /\ pc = "running"
    /\ todo # <<>>
    /\ todo' = Tail(todo)
    /\ tried' = Append(tried, Run(ok))
    /\ output' = IF ok /\ Opens(opt.to) THEN Append(output, Block(Run(ok))) ELSE output
    /\ UNCHANGED <<getoptVars, opt, pc, listing>>

(* runModality scans again when no provider is known, and that may throw.   *)
RunThrows ==
    /\ pc = "running"
    /\ todo # <<>>
    /\ opt.modality
    /\ pc' = "abort"
    /\ UNCHANGED <<getoptVars, opt, todo, tried, output, listing>>

Finish ==
    /\ pc = "running"
    /\ todo = <<>>
    /\ pc' = "exit 0"
    /\ UNCHANGED <<getoptVars, opt, todo, tried, output, listing>>

Next ==
    \/ NoArguments
    \/ Operand
    \/ BadOption
    \/ HelpOrVersion
    \/ SetFormat
    \/ SetOutput
    \/ SetList
    \/ Command
    \/ ListProviders
    \/ Choose
    \/ \E ok \in BOOLEAN : RunProvider(ok)
    \/ RunThrows
    \/ Finish

Spec == Init /\ [][Next]_vars

(* One thread, which runs, and evaluations that end.                        *)
FairSpec == Spec /\ WF_vars(Next)

-----------------------------------------------------------------------------
(* Properties.                                                              *)

(* When main looks for the input file, argv has the options and their       *)
(* arguments first and the operands last, each in the order they were       *)
(* typed, however they were mixed: main's argv[argc - 1] relies on it.      *)
OperandsLast == pc \in {"running", "exit -1"} => Arranged

(* A command line of the form the synopsis gives: one command, one operand, *)
(* and the options of the synopsis with their arguments.  The command's     *)
(* argument must not end the line, which main refuses.                      *)
Commands(typed) == {i \in DOMAIN typed : typed[i][1] \in {"-m", "-p"}}
CommandLast ==
    LET n == Len(given)
        IsCommand(j) == Last(Meant(given[j]).letters) \in {"-m", "-p"}
        role == Role
    IN  \/ role[n] = "option" /\ IsCommand(n)
        \/ role[n] = "argument" /\ IsCommand(n - 1)
Synopsis(typed, operands) ==
    /\ Len(operands) = 1
    /\ Cardinality(Commands(typed)) = 1
    /\ \A i \in DOMAIN typed :
          \/ typed[i][1] = "-l"
          \/ typed[i][1] \in WithArgument /\ typed[i][2] # None
    /\ ~CommandLast

(* The argument of the last option of that letter, or its default.          *)
LastOf(typed, letter, default) ==
    LET S == {i \in DOMAIN typed : typed[i][1] = letter}
    IN  IF S = {} THEN default
        ELSE typed[CHOOSE i \in S : \A k \in S : ~Earlier(i, k)][2]

Wanted(typed, operands) ==
    IF \E i \in DOMAIN typed : typed[i][1] = "-l"
    THEN Lines[operands[1]] ELSE operands

(* For a command line of the documented form, with its options in any order *)
(* and spelling, main evaluates exactly the named file, or the files of the *)
(* list in their order and all of them whatever fails, with the named       *)
(* provider or modality, and writes what succeeded, in the same order, in   *)
(* the named format to the named output.  If that does not open, it goes on *)
(* all the same, to exit(0), and nothing is written anywhere.               *)
AsAsked ==
    LET typed == Typed
        operands == Operands
        wanted == Wanted(typed, operands)
        command == typed[CHOOSE i \in Commands(typed) : TRUE]
        succeeded == Kept(tried, {i \in DOMAIN tried : tried[i].ok})
        format == IF LastOf(typed, "-f", "text") = "json" THEN "json" ELSE "text"
        to == LastOf(typed, "-o", "-")
    IN  pc # "options" /\ Synopsis(typed, operands) =>
          /\ Len(tried) <= Len(wanted)
          /\ \A i \in DOMAIN tried :
                /\ tried[i].modality = (command[1] = "-m")
                /\ tried[i].arg = command[2]
                /\ tried[i].file = wanted[i]
          /\ output = IF Opens(to)
                      THEN [i \in DOMAIN succeeded |->
                              [run |-> succeeded[i], format |-> format, to |-> to]]
                      ELSE <<>>
          /\ pc # "exit -1"
          /\ pc = "exit 0" => Len(tried) = Len(wanted)

(* -P lists the installed providers of the modality attached to it or typed *)
(* behind it, and all of them when nothing is behind it.                    *)
ListedAsAsked ==
    pc = "listed" =>
        LET role == Role
            Lists(j) == role[j] = "option" /\ Last(Meant(given[j]).letters) = "-P"
            j == CHOOSE j \in DOMAIN given : Lists(j) /\ \A i \in 1..(j - 1) : ~Lists(i)
            arg == Meant(given[j]).arg
        IN  /\ \E i \in DOMAIN given : Lists(i)
            /\ arg # None => listing = Installed \cap {arg}
            /\ arg = None /\ j = Len(given) => listing = Installed
            /\ arg = None /\ j < Len(given) =>
                  (given[j + 1] \in Words =>
                      listing = Installed \cap {given[j + 1]})

(* The process ends, whatever its arguments.                                *)
ProcessEnds == <>(pc \in Exits)
=============================================================================
