----------------------------- MODULE TaskCommand -----------------------------
(***************************************************************************)
(* The argument line of `skynex task`, read twice: by the command itself,  *)
(* and by the sidebar plugin, which watches the shell calls of an agent to *)
(* know when a task may have changed.                                      *)
(*                                                                         *)
(* A line is a sequence of words, after the shell has split it and without *)
(* the bare "--" that the entry point drops.                               *)
(***************************************************************************)
EXTENDS InOrder, Sequences, SequencesExt

CONSTANT UnknownFlags   \* words that start with "--" and are no flag of the command

HelpFlags  == {"--help", "-h"}
ValueFlags == {"--tasks-root", "--task", "--scope", "--done-when", "--evidence",
               "--instruction-file", "--instruction", "--depends-on", "--parent",
               "--expected-revision", "--security", "--reason", "--checkpoint"}
KnownFlags == HelpFlags \cup {"--json"} \cup ValueFlags

Dashed       == KnownFlags \cup UnknownFlags
DoubleDashed == Dashed \ {"-h"}

-----------------------------------------------------------------------------
(* tokenize. *)

\* A value never starts with "--", so no value flag is itself a value.
IsValue(words, i) == i > 1 /\ words[i - 1] \in ValueFlags

WellFormed(words) ==
    \A i \in DOMAIN words :
        /\ words[i] \notin UnknownFlags
        /\ words[i] \in ValueFlags => /\ i < Len(words)
                                      /\ words[i + 1] \notin DoubleDashed

Has(words, flag) == \E i \in DOMAIN words : words[i] = flag /\ ~ IsValue(words, i)

Flags(words) == {words[i] : i \in {j \in DOMAIN words : words[j] \in Dashed /\ ~ IsValue(words, j)}}

AskedHelp(words) == \E flag \in HelpFlags : Has(words, flag)

Positionals(words) == At(words, {i \in DOMAIN words : words[i] \notin Dashed /\ ~ IsValue(words, i)})

ValuesOf(words, flag) == At(words, {i \in DOMAIN words : IsValue(words, i) /\ words[i - 1] = flag})

LastValue(words, flag, default) ==
    LET values == ValuesOf(words, flag) IN IF values = <<>> THEN default ELSE Last(values)

-----------------------------------------------------------------------------
(* resolveCommand: a command is the words it is named by. *)

Commands == {<<"init">>, <<"list">>, <<"status">>,
             <<"next", "show">>, <<"next", "add">>, <<"next", "done">>,
             <<"next", "start">>, <<"next", "block">>,
             <<"checkpoint", "set">>, <<"checkpoint", "show">>, <<"reviews", "set">>}

Unresolved == <<>>

ResolveCommand(argv) ==
    LET named == {c \in Commands : IsPrefix(c, argv)}
    IN  IF named = {} THEN Unresolved ELSE CHOOSE c \in named : TRUE

WordsAfter(command, argv) == SubSeq(argv, Len(command) + 1, Len(argv))

AllowedFlags(command) ==
    {"--tasks-root", "--json"} \cup HelpFlags
    \cup (IF command \in {<<"init">>, <<"list">>} THEN {} ELSE {"--task"})
    \cup CASE command = <<"init">> -> {"--security"}
           [] command = <<"next", "add">> ->
                  {"--scope", "--done-when", "--evidence", "--instruction-file",
                   "--instruction", "--depends-on", "--parent", "--expected-revision"}
           [] command = <<"next", "block">> -> {"--expected-revision", "--checkpoint", "--reason"}
           [] command \in {<<"next", "start">>, <<"next", "done">>, <<"checkpoint", "set">>} ->
                  {"--expected-revision", "--checkpoint"}
           [] command = <<"reviews", "set">> -> {"--expected-revision"}
           [] OTHER -> {}

\* What becomes of the line before its command looks at it.
Reading(argv) ==
    IF argv = <<>> \/ argv[1] \in HelpFlags THEN "help"
    ELSE LET command == ResolveCommand(argv)
             words   == WordsAfter(command, argv)
         IN  IF command = Unresolved \/ ~ WellFormed(words) THEN "INVALID_ARGUMENT"
             ELSE IF AskedHelp(words) THEN "help"
             ELSE IF ~ (Flags(words) \subseteq AllowedFlags(command)) THEN "INVALID_ARGUMENT"
             ELSE "run"

-----------------------------------------------------------------------------
(* The plugin's view of a shell call: mutatesTask. *)

Separators == {";", "&", "|", "newline"}
Unread     == {"expansion", "redirection", "unclosed"}

\* Faulty: the lexer takes any -h for a request for help.
HelpAnywhere(argv, i) == argv[i] \in HelpFlags

\* A help flag counts from the second word on, unless a value flag takes it.
HelpAt(argv, i) ==
    /\ argv[i] \in HelpFlags
    /\ ~ (i > 2 /\ argv[i - 1] \in ValueFlags /\ argv[i] \notin DoubleDashed)

MutatingCommands == {<<"init">>, <<"reviews", "set">>, <<"checkpoint", "set">>}
                        \cup {<<"next", sub>> : sub \in {"add", "start", "block", "done"}}

LineMutates(argv) ==
    /\ \A i \in 2..Len(argv) : ~ HelpAt(argv, i)
    /\ \E c \in MutatingCommands : IsPrefix(c, argv)

\* A call is a sequence of words, separators and marks of what the lexer does
\* not read.  Each command of the list is looked at on its own.
MutatesTask(call) ==
    /\ \A i \in DOMAIN call : call[i] \notin Unread
    /\ \E first \in DOMAIN call, last \in DOMAIN call :
          /\ first = 1 \/ call[first - 1] \in Separators
          /\ last = Len(call) \/ call[last + 1] \in Separators
          /\ \A i \in first..last : call[i] \notin Separators
          /\ IsPrefix(<<"skynex", "task">>, SubSeq(call, first, last))
          /\ LineMutates(SubSeq(call, first + 2, last))
=============================================================================
