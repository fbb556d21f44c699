------------------------------ MODULE MCTaskCli ------------------------------
(* Lines: every transition with every option it shares with the others, every *)
(* command with a help flag, an unknown flag, a flag without its value and a  *)
(* value that looks like help, and additions with texts at their limits.  A   *)
(* title of three characters and a field of four stand for 200 and 2000.      *)
EXTENDS TaskCli

Plain == [raw |-> 1, trimmed |-> 1]

MCTextOf == ("wide" :> [raw |-> 4, trimmed |-> 3]) @@ ("long" :> [raw |-> 5, trimmed |-> 5])
                @@ ("blank" :> [raw |-> 2, trimmed |-> 0]) @@ ("padded" :> [raw |-> 6, trimmed |-> 2])

MCTexts == {Plain} \cup {MCTextOf[w] : w \in DOMAIN MCTextOf}

MCBodies == [title : MCTexts, scope : MCTexts, doneWhen : MCTexts, expectedEvidence : MCTexts]

PlainBody == [title |-> Plain, scope |-> Plain, doneWhen |-> Plain, expectedEvidence |-> Plain]

MCDrafts == [body : {PlainBody}, parent : {NoParent, 1}, dependsOn : {{}}]
                \cup {[body |-> PlainBody, parent |-> NoParent, dependsOn |-> {1}]}

Kept == [keys |-> "canonical", version |-> 1, identifiers |-> TRUE, paths |-> TRUE, note |-> TRUE,
         phase |-> "handoff", candidate |-> "oid", reason |-> Absent, manifest |-> Absent,
         refs |-> <<"a">>, fits |-> TRUE]

MCCheckpointNamed ==
    ("kept" :> Kept) @@ ("reordered" :> [Kept EXCEPT !.keys = "other"])
    @@ ("unexplained" :> [Kept EXCEPT !.candidate = Absent])
    @@ ("large" :> [Kept EXCEPT !.fits = FALSE])
    @@ ("dispatched" :> [Kept EXCEPT !.candidate = Absent, !.reason = "text", !.manifest = "ref"])

MCCheckpoints == {Canonical(MCCheckpointNamed[w]) : w \in {"kept", "reordered", "dispatched"}}

MCStepNamed   == ("s1" :> 1) @@ ("s2" :> 2) @@ ("s3" :> 3)
MCNumberNamed == ("2" :> 2) @@ ("3" :> 3)
Pair(key, value) == [key |-> key, value |-> value]
MCPairNamed   == ("security=on" :> Pair("security", "on")) @@ ("security=off" :> Pair("security", "off"))
                     @@ ("security=maybe" :> Pair("security", "maybe")) @@ ("skills=on" :> Pair("skills", "on"))

File == [place |-> "inside", parents |-> "plain", entry |-> "file", fits |-> TRUE]
MCFileNamed == ("body.md" :> File) @@ (".env" :> [File EXCEPT !.place = "sensitive"])
                   @@ ("gone.md" :> [File EXCEPT !.entry = "missing"])
                   @@ ("big.md" :> [File EXCEPT !.fits = FALSE])

Join(A, B) == {a \o b : a \in A, b \in B}

Here   == {<<"--task", "t">>}
Fences == {<<>>, <<"--expected-revision", "2">>, <<"--expected-revision", "3x">>}
Points == {<<>>} \cup {<<"--checkpoint", w>> : w \in DOMAIN MCCheckpointNamed}

Moves == {<<"next", "start">>, <<"next", "done">>}
Transitions ==
    Join(Join(Join(Moves, {<<"s1">>, <<"s2">>, <<"s3">>}), Here), Join(Points, Fences))
    \cup Join(Join(Join({<<"next", "block">>}, {<<"s1">>}), Here),
              Join({<<"--reason", "wide">>}, Points))
    \cup {<<"next", "block", "s1", "--task", "t", "--reason", w>> : w \in {"blank", "long", "padded"}}

Add(title) == <<"next", "add", title, "--task", "t", "--scope", "x", "--done-when", "x", "--evidence", "x">>

Additions ==
    Join({Add("more"), Add("wide")},
         Join({<<>>, <<"--parent", "s1">>, <<"--parent", "s2">>, <<"--depends-on", "s1">>}, Fences))
    \cup Join({Add("more")}, {<<"--instruction-file", w>> : w \in DOMAIN MCFileNamed})
    \cup Join({Add("more")}, {<<"--scope", w>> : w \in {"blank", "long", "wide", "padded", "-h"}})
    \cup {Add("blank")}

Records == Join({<<"checkpoint", "set", "--task", "t">>}, Join(Points, Fences))
               \cup Join({<<"reviews", "set", "security=on", "--task", "t">>}, Fences)
               \cup Join(Join({<<"reviews", "set">>}, Here),
                         {<<>>, <<"on">>, <<"security=maybe">>, <<"skills=on">>, <<"security=on", "security=off">>})
               \cup Join({<<"next", "show">>}, {<<>>, <<"s1">>, <<"--task", "t">>, <<"s3", "--task", "t">>})

Bases == {<<"init", "name">>, <<"list">>, <<"status">>, <<"next">>, <<"next", "start", "s1">>,
          <<"next", "done", "s1", "--task", "t">>, <<"checkpoint", "set", "--checkpoint", "kept">>,
          <<"reviews", "set", "security=off", "--task", "t">>, <<"init">>, Add("more")}
Oddities == {<<>>, <<"--help">>, <<"-h">>, <<"--json">>, <<"--bogus">>, <<"--task">>, <<"--task", "ghost">>,
             <<"--task", "-h">>, <<"--instruction", "-h">>, <<"--security", "off">>, <<"--security", "-h">>}

MCLines == Transitions \cup Additions \cup Records \cup Join(Bases, Oddities)
               \cup {<<>>, <<"--help">>, <<"init", "blank">>, <<"init", "wide">>, <<"init", "???">>}

\* Step titles with blanks around them that take them past the limit.
MCPaddedLines == {Add("wide"), Add("padded"), <<"next", "start", "s1", "--task", "t">>}
=============================================================================
