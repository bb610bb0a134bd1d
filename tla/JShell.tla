------------------------------- MODULE JShell -------------------------------
(***************************************************************************)
(* The second bash: user/shells/bash2.c with the library under shell_lib.  *)
(* Text to tokens, tokens to a command, and what the loop then runs.       *)
(* A text is a sequence of characters.  Dereferencing a null pointer is    *)
(* the result Crash.                                                       *)
(***************************************************************************)
EXTENDS Integers, Sequences, SequencesExt, TLC

CONSTANTS Keywords,     \* if while for then else fi do done
          Builtins      \* the names register_builtin_commands enters

-----------------------------------------------------------------------------
isspace(c) == c = " "

Symbols == {";", "&", "|", "<", ">", "(", ")"}

Quotes == {"single", "double"}      \* the quote characters

Doubled == {<<";", ";">>, <<"&", "&">>, <<"|", "|">>, <<">", ">">>}

(* The characters of a quoted token, up to the quote or the end. *)
RECURSIVE Quoted(_, _)
Quoted(s, quote) ==
    IF s = <<>> \/ (s # <<>> /\ Head(s) = quote) THEN <<>>
    ELSE <<Head(s)>> \o Quoted(Tail(s), quote)

RECURSIVE Unquoted(_)
Unquoted(s) ==
    IF s = <<>> \/ (s # <<>> /\ (isspace(Head(s)) \/ Head(s) \in Symbols)) THEN <<>>
    ELSE IF Len(s) > 1 /\ s[1] = "*" /\ s[2] = ")" THEN <<"*", ")">>
    ELSE <<Head(s)>> \o Unquoted(Tail(s))

Drop(s, n) == SubSeq(s, n + 1, Len(s))

RECURSIVE tokenize(_)

(* The word w is added, and the n characters it took are passed over. *)
Take(p, w, n) == <<w>> \o tokenize(Drop(p, n))

TakeQuoted(p, w) == Take(p, w, Len(w) + 2)

TakeUnquoted(p, w) == Take(p, w, Len(w))

tokenize(p) ==
    IF p = <<>> THEN <<>>
    ELSE IF isspace(p[1]) THEN tokenize(Tail(p))
    ELSE IF Len(p) > 1 /\ SubSeq(p, 1, 2) \in Doubled THEN Take(p, SubSeq(p, 1, 2), 2)
    ELSE IF p[1] \in Symbols THEN Take(p, <<p[1]>>, 1)
    ELSE IF p[1] \in Quotes THEN TakeQuoted(p, Quoted(Tail(p), p[1]))
    ELSE TakeUnquoted(p, Unquoted(p))

-----------------------------------------------------------------------------
(* The commands.  "file" fields hold a token, or None. *)
Null == [type |-> "NULL"]

Crash == [type |-> "CRASH"]

None == <<>>

Simple == [type |-> "SIMPLE", args |-> <<>>, background |-> FALSE, input_file |-> None,
           output_file |-> None, append_output |-> FALSE, next |-> Null]

Branch(type, then, else) == [type |-> type, then_branch |-> then, else_branch |-> else]

R(cmd, ts) == [cmd |-> cmd, ts |-> ts]

At(ts, words) == ts # <<>> /\ ts[1] \in words

Ends == Keywords \cup {<<";">>, <<"|">>, <<"&", "&">>, <<"|", "|">>}

Outs == {<<">">>, <<">", ">">>}

(* A redirection sign at the end of the line is skipped. *)
Redirected(cmd, ts) ==
    IF Len(ts) = 1 THEN R(cmd, <<>>)
    ELSE IF ts[1] = <<"<">> THEN R([cmd EXCEPT !.input_file = ts[2]], Drop(ts, 2))
    ELSE R([cmd EXCEPT !.output_file = ts[2], !.append_output = ts[1] = <<">", ">">>],
           Drop(ts, 2))

RECURSIVE Args(_, _)

(* Wrong: the redirection's file is left among the arguments. *)
ArgsKeepsFile(cmd, ts) ==
    IF ts = <<>> \/ At(ts, Ends) THEN R(cmd, ts)
    ELSE IF At(ts, {<<"&">>}) THEN Args([cmd EXCEPT !.background = TRUE], Tail(ts))
    ELSE IF At(ts, Outs \cup {<<"<">>}) THEN
        LET r == Redirected(cmd, ts) IN Args(r.cmd, Tail(ts))
    ELSE Args([cmd EXCEPT !.args = Append(@, ts[1])], Tail(ts))

Args(cmd, ts) ==
    IF ts = <<>> \/ At(ts, Ends) THEN R(cmd, ts)
    ELSE IF At(ts, {<<"&">>}) THEN Args([cmd EXCEPT !.background = TRUE], Tail(ts))
    ELSE IF At(ts, Outs \cup {<<"<">>}) THEN
        LET r == Redirected(cmd, ts) IN Args(r.cmd, r.ts)
    ELSE Args([cmd EXCEPT !.args = Append(@, ts[1])], Tail(ts))

(* The tokens up to the closing parenthesis, each followed by a blank. *)
RECURSIVE Nested(_, _, _)
Nested(ts, n, buffer) ==
    IF ts = <<>> THEN [ok |-> FALSE]
    ELSE IF ts[1] = <<")">> /\ n = 1 THEN [ok |-> TRUE, buffer |-> buffer, ts |-> Tail(ts)]
    ELSE Nested(Tail(ts), n + (IF ts[1] = <<"(">> THEN 1 ELSE IF ts[1] = <<")">> THEN -1 ELSE 0),
                buffer \o ts[1] \o <<" ">>)

RECURSIVE SubshellRedirs(_, _)
SubshellRedirs(cmd, ts) ==
    IF ~At(ts, Outs \cup {<<"<">>}) THEN R(cmd, ts)
    ELSE LET r == Redirected(cmd, ts) IN SubshellRedirs(r.cmd, r.ts)

Sh == <<"s", "h">>

MinusC == <<"-", "c">>

Subshell(n) ==
    IF ~n.ok THEN R(Null, <<>>)
    ELSE SubshellRedirs([Simple EXCEPT !.args = <<Sh, MinusC, n.buffer>>], n.ts)

parse_subshell(ts) == Subshell(Nested(Tail(ts), 1, <<>>))

parse_simple(ts) ==
    IF ts = <<>> THEN R(Crash, ts)
    ELSE IF ts[1] = <<"(">> THEN parse_subshell(ts)
    ELSE Args(Simple, ts)

RECURSIVE parse_pipeline(_)

PipeInto(s, p) ==
    IF s.cmd \in {Null, Crash} \/ p.cmd = Crash THEN R(Crash, s.ts)
    ELSE R([s.cmd EXCEPT !.next = p.cmd], p.ts)

PipeFrom(s) ==
    IF At(s.ts, {<<"|">>}) THEN PipeInto(s, parse_pipeline(Tail(s.ts))) ELSE s

parse_pipeline(ts) == PipeFrom(parse_simple(ts))

RECURSIVE parse_command(_)

Operator == (<<";">> :> "SEQUENCE") @@ (<<"&", "&">> :> "AND") @@ (<<"|", "|">> :> "OR")

Combine(type, p, rest) ==
    IF p.cmd = Crash \/ rest.cmd = Crash THEN R(Crash, p.ts)
    ELSE R(Branch(type, p.cmd, rest.cmd), rest.ts)

CommandFrom(p) ==
    IF At(p.ts, DOMAIN Operator)
    THEN Combine(Operator[p.ts[1]], p, parse_command(Tail(p.ts)))
    ELSE p

parse_command(ts) == IF ts = <<>> THEN R(Null, ts) ELSE CommandFrom(parse_pipeline(ts))

parse_input(input) == parse_command(tokenize(input)).cmd

-----------------------------------------------------------------------------
(* What one line does: the argument lists run, in order, whether the loop  *)
(* goes on, or a crash.  Built-in commands and programs are run alike; the *)
(* name of a program is looked up in PATH.                                 *)
lookup_command(name) == name \in Builtins

execute_command(cmd) ==
    IF cmd = Null THEN [ran |-> <<>>, goes |-> TRUE]
    ELSE IF cmd.type # "SIMPLE" THEN [ran |-> <<Crash>>, goes |-> FALSE]   \* args is null
    ELSE IF cmd.args = <<>> THEN [ran |-> <<>>, goes |-> TRUE]
    ELSE [ran |-> <<[builtin |-> lookup_command(cmd.args[1]), argv |-> cmd.args]>>, goes |-> TRUE]

Exit == <<"e", "x">>

Run(cmd) ==
    IF cmd = Crash THEN [ran |-> <<Crash>>, goes |-> FALSE]
    ELSE IF cmd.type = "SIMPLE" /\ (cmd.type = "SIMPLE" => At(cmd.args, {Exit}))
         THEN [ran |-> <<>>, goes |-> FALSE]
    ELSE execute_command(cmd)

shell_loop(input) == Run(parse_input(input))

-----------------------------------------------------------------------------
(* Reference: the text of a command.  A word with a blank or a symbol in   *)
(* it is quoted.                                                           *)
Quote(w) == IF \E i \in DOMAIN w : isspace(w[i]) \/ w[i] \in Symbols
            THEN <<"single">> \o w \o <<"single">> ELSE w

SimpleText(c) ==
    FoldLeft(LAMBDA s, w : s \o Quote(w) \o <<" ">>, <<>>, c.args)
    \o (IF c.input_file = None THEN <<>> ELSE <<"<">> \o Quote(c.input_file))
    \o (IF c.output_file = None THEN <<>>
        ELSE (IF c.append_output THEN <<">", ">">> ELSE <<">">>) \o Quote(c.output_file))
    \o (IF c.background THEN <<"&">> ELSE <<>>)

RECURSIVE PipeText(_)
PipeText(c) == SimpleText(c) \o (IF c.next = Null THEN <<>> ELSE <<" ", "|">> \o PipeText(c.next))

RECURSIVE Text(_)
Text(c) ==
    IF c.type = "SIMPLE" THEN PipeText(c)
    ELSE PipeText(c.then_branch) \o <<" ">>
         \o (CASE c.type = "SEQUENCE" -> <<";">>
               [] c.type = "AND" -> <<"&", "&">>
               [] c.type = "OR" -> <<"|", "|">>)
         \o (IF c.else_branch = Null THEN <<>> ELSE Text(c.else_branch))

(* A line is parsed as what it says: the parser returns the command a text *)
(* was made from, quoted words, redirections and operators included; and a *)
(* line that is one simple command runs exactly its words.                 *)
RunsWords(l, args) ==
    IF args[1] = Exit THEN ~l.goes /\ l.ran = <<>>
    ELSE l.goes /\ Len(l.ran) = 1 /\ l.ran[1].argv = args

LineRead(c) ==
    /\ parse_input(Text(c)) = c
    /\ c.type = "SIMPLE" /\ c.next = Null /\ c.args # <<>> =>
         RunsWords(shell_loop(Text(c)), c.args)
=============================================================================
