-------------------------------- MODULE MCCli --------------------------------
(***************************************************************************)
(* Command lines for Cli.                                                   *)
(***************************************************************************)
EXTENDS Cli, TLC

SomeWords == {"iris", "json", "img", "list", ""}

Short(letters, arg) == [letters |-> letters, arg |-> arg]
Long(name, begins, arg) == [name |-> name, begins |-> begins, arg |-> arg]

(* Each letter alone; with an argument attached; several in one token.      *)
SomeShorts ==
    [x \in Letters \cup {"-Piris", "-fjson", "-lm", "-xl", "-lpiris"} |->
        CASE x = "-Piris"  -> Short(<<"-P">>, "iris")
          [] x = "-fjson"  -> Short(<<"-f">>, "json")
          [] x = "-lm"     -> Short(<<"-l", "-m">>, None)
          [] x = "-xl"     -> Short(<<"-x", "-l">>, None)
          [] x = "-lpiris" -> Short(<<"-l", "-p">>, "iris")
          [] OTHER         -> Short(<<x>>, None)]

(* Exact, abbreviated, ambiguous and unknown names; one that is exact and   *)
(* begins another; arguments that are attached, and one that must not be.   *)
SomeLongs ==
    [x \in {"--provider", "--prov", "--providers=iris", "--modal=iris", "--output",
            "--output-f=json", "--file", "--help=json", "--list"} |->
        CASE x = "--provider" -> Long("provider", {"provider", "providers"}, None)
          [] x = "--prov" -> Long("prov", {"provider", "providers"}, None)
          [] x = "--providers=iris" -> Long("providers", {"providers"}, "iris")
          [] x = "--modal=iris" -> Long("modal", {"modality"}, "iris")
          [] x = "--output" -> Long("output", {"output", "output-format"}, None)
          [] x = "--output-f=json" -> Long("output-f", {"output-format"}, "json")
          [] x = "--file" -> Long("file", {"file-list"}, None)
          [] x = "--help=json" -> Long("help", {"help"}, "json")
          [] x = "--list" -> Long("list", {}, None)]

SomeModalities == {"iris", "face"}

UpTo(S, n) == UNION {[1..k -> S] : k \in 0..n}

(* Every command line of up to two tokens, and of three with single short   *)
(* options; of four and five, lines made of options that do not end the     *)
(* loop at once, and operands; and lines that name an output, which may be  *)
(* the file that does not open.                                             *)
SomeArgvs ==
    UpTo(Tokens, 2)
        \cup UpTo(Words \cup Letters \cup {"-Piris", "-fjson", "--"}, 3)
        \cup UpTo({"-m", "-p", "-l", "-f", "-x", "--", "json", "list"}, 4)
        \cup UpTo({"-lm", "-xl", "--provider", "--modal=iris", "--output",
                   "--file", "iris", "list"}, 4)
        \cup UpTo({"-m", "-l", "-f", "json", "list"}, 5)
        \cup UpTo({"-lpiris", "--prov", "--output-f=json", "--help=json", "--list",
                   "iris", "-P"}, 3)
        \cup UpTo({"-lpiris", "-o", "", "json", "list"}, 4)

(* The empty name is no file's.                                             *)
SomeUnopenable == {""}

(* The list holds an image, an empty line and the image again.              *)
SomeLines == [f \in Tokens |-> IF f = "list" THEN <<"img", "", "img">> ELSE <<>>]
=============================================================================
