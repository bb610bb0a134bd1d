------------------------------- MODULE Shell -------------------------------
(***************************************************************************)
(* The command shells user/sh.c, user/shell.c and user/bash.c, which hold  *)
(* three copies of the same parser and of a runcmd that differs only in    *)
(* how it runs a simple command: text to tokens, tokens to a command tree, *)
(* and the processes, pipes and descriptors with which a tree is run.  A   *)
(* text is a sequence of characters; letters stand for all characters that *)
(* are neither white space nor symbols.                                    *)
(***************************************************************************)
EXTENDS Integers, Sequences, FiniteSets, SequencesExt

CONSTANTS MAXARGS,
          Letters, Trees,    \* the commands that are run
          Internal,          \* the names runInternalCommand knows
          GUI_programs,      \* the names the graphical shell knows to open windows
          NOFILE

VARIABLES sh,                \* which of the three shells
          tree,              \* the command that was typed
          procs,             \* pid |-> process; a pid is its path in the tree
          executed           \* <<pid, argv, standard input, standard output>> of every exec

vars == <<sh, tree, procs, executed>>

-----------------------------------------------------------------------------
whitespace == {" "}

symbols == {"<", "|", ">", "&", ";", "(", ")"}

RECURSIVE Skip(_)
Skip(s) == IF s # <<>> /\ Head(s) \in whitespace THEN Skip(Tail(s)) ELSE s

RECURSIVE Word(_)
Word(s) ==
    IF s = <<>> \/ Head(s) \in whitespace \cup symbols THEN <<>>
    ELSE <<Head(s)>> \o Word(Tail(s))

(* One token: its kind, where it starts and how long it is, and what is    *)
(* left.  A word is a pointer into the line, ended only by nulterminate.   *)
At(s, n) == [s |-> s, n |-> n]

Token(s, t, n) == [tok |-> t, q |-> At(s, n), s |-> Skip(SubSeq(s, n + 1, Len(s)))]

TokenAt(s) ==
    IF s = <<>> THEN Token(s, "end", 0)
    ELSE IF Head(s) = ">" THEN
            IF Len(s) > 1 /\ s[2] = ">" THEN Token(s, "+", 2) ELSE Token(s, ">", 1)
    ELSE IF Head(s) \in symbols THEN Token(s, Head(s), 1)
    ELSE Token(s, "a", Len(Word(s)))

gettoken(ps) == TokenAt(Skip(ps))

peek(ps, toks) == Skip(ps) # <<>> /\ Head(Skip(ps)) \in toks

execcmd(argv) == [type |-> "EXEC", argv |-> argv]

redircmd(cmd, file, fd) == [type |-> "REDIR", cmd |-> cmd, file |-> file, fd |-> fd]

pipecmd(left, right) == [type |-> "PIPE", left |-> left, right |-> right]

listcmd(left, right) == [type |-> "LIST", left |-> left, right |-> right]

backcmd(cmd) == [type |-> "BACK", cmd |-> cmd]

(* The parser: the command and the text left, or a panic, which ends the   *)
(* process.  O_WRONLY|O_CREATE is the mode of ">" and of ">>" alike.       *)
OK(c, s) == [ok |-> TRUE, cmd |-> c, s |-> s]

panic == [ok |-> FALSE]

RECURSIVE parseredirs(_, _)

Redirect(cmd, tok, f) ==
    IF f.tok # "a" THEN panic
    ELSE parseredirs(redircmd(cmd, f.q, IF tok = "<" THEN 0 ELSE 1), f.s)

RedirectBy(cmd, t) == Redirect(cmd, t.tok, gettoken(t.s))

parseredirs(cmd, ps) ==
    IF peek(ps, {"<", ">"}) THEN RedirectBy(cmd, gettoken(ps)) ELSE OK(cmd, ps)

(* The words are stored in the execcmd at the bottom of its redirections. *)
RECURSIVE AddWord(_, _)
AddWord(cmd, w) ==
    IF cmd.type = "EXEC" THEN [cmd EXCEPT !.argv = Append(@, w)]
    ELSE [cmd EXCEPT !.cmd = AddWord(@, w)]

RECURSIVE Argc(_)
Argc(cmd) == IF cmd.type = "EXEC" THEN Len(cmd.argv) ELSE Argc(cmd.cmd)

(* The loop of parseexec: r is the command so far and t the next token. *)
RECURSIVE Words(_)

AddToken(r, t) ==
    IF t.tok = "end" THEN r
    ELSE IF t.tok # "a" \/ Argc(r.cmd) + 1 >= MAXARGS THEN panic
    ELSE Words(parseredirs(AddWord(r.cmd, t.q), t.s))

Words(r) ==
    IF ~r.ok THEN panic
    ELSE IF peek(r.s, {"|", ")", "&", ";"}) THEN r
    ELSE AddToken(r, gettoken(r.s))

RECURSIVE parseline(_)
RECURSIVE parsepipe(_)

CloseBlock(l) ==
    IF ~l.ok THEN panic
    ELSE IF ~peek(l.s, {")"}) THEN panic
    ELSE parseredirs(l.cmd, gettoken(l.s).s)

parseblock(ps) == CloseBlock(parseline(gettoken(ps).s))

parseexec(ps) ==
    IF peek(ps, {"("}) THEN parseblock(ps) ELSE Words(parseredirs(execcmd(<<>>), ps))

(* Two results put together, the right one with the rest of the text. *)
Join(node(_, _), left, right) ==
    IF right.ok THEN OK(node(left.cmd, right.cmd), right.s) ELSE panic

PipeFrom(e) ==
    IF ~e.ok THEN panic
    ELSE IF peek(e.s, {"|"}) THEN Join(pipecmd, e, parsepipe(gettoken(e.s).s))
    ELSE e

parsepipe(ps) == PipeFrom(parseexec(ps))

RECURSIVE Backs(_)
Backs(r) == IF peek(r.s, {"&"}) THEN Backs(OK(backcmd(r.cmd), gettoken(r.s).s)) ELSE r

ListFrom(b) == IF peek(b.s, {";"}) THEN Join(listcmd, b, parseline(gettoken(b.s).s)) ELSE b

LineFrom(p) == IF p.ok THEN ListFrom(Backs(p)) ELSE panic

parseline(ps) == LineFrom(parsepipe(ps))

(* nulterminate ends every word of the tree where its token ended. *)
Cut(w) == SubSeq(w.s, 1, w.n)

RECURSIVE nulterminate(_)
nulterminate(cmd) ==
    CASE cmd.type = "EXEC" -> execcmd([i \in DOMAIN cmd.argv |-> Cut(cmd.argv[i])])
      [] cmd.type = "REDIR" -> redircmd(nulterminate(cmd.cmd), Cut(cmd.file), cmd.fd)
      [] cmd.type = "PIPE" -> pipecmd(nulterminate(cmd.left), nulterminate(cmd.right))
      [] cmd.type = "LIST" -> listcmd(nulterminate(cmd.left), nulterminate(cmd.right))
      [] cmd.type = "BACK" -> backcmd(nulterminate(cmd.cmd))

Whole(l) ==
    IF ~l.ok THEN panic
    ELSE IF Skip(l.s) # <<>> THEN panic
    ELSE OK(nulterminate(l.cmd), l.s)

parsecmd(s) == Whole(parseline(s))

(* The copies in the graphical shell and in bash. *)
shell_gettoken(ps) == gettoken(ps)

shell_nulterminate(cmd) == nulterminate(cmd)

shell_parsecmd(s) == parsecmd(s)

bash_gettoken(ps) == gettoken(ps)

bash_nulterminate(cmd) == nulterminate(cmd)

bash_parsecmd(s) == parsecmd(s)

-----------------------------------------------------------------------------
(* Reference for the parser: the text of a tree, with the parentheses that *)
(* the precedence of | over & over ; asks for and no others.               *)
Space(s, t) == IF s # <<>> /\ t # <<>> /\ Last(s) \in Letters /\ Head(t) \in Letters
               THEN s \o <<" ">> \o t ELSE s \o t

RECURSIVE Text(_)
RECURSIVE Core(_)
RECURSIVE Redirs(_)
Core(t) == IF t.type = "REDIR" THEN Core(t.cmd) ELSE t
Redirs(t) == IF t.type = "REDIR"
             THEN Redirs(t.cmd) \o (IF t.fd = 0 THEN <<"<">> ELSE <<">">>) \o t.file ELSE <<>>
TextExec(t) == LET c == Core(t)
               IN  Space(IF c.type = "EXEC" THEN FoldLeft(Space, <<>>, c.argv)
                         ELSE <<"(">> \o Text(c) \o <<")">>, Redirs(t))
RECURSIVE TextPipe(_)
TextPipe(t) == IF t.type = "PIPE" THEN TextExec(t.left) \o <<"|">> \o TextPipe(t.right)
               ELSE TextExec(t)
RECURSIVE TextBack(_)
TextBack(t) == IF t.type = "BACK" THEN TextBack(t.cmd) \o <<"&">> ELSE TextPipe(t)
Text(t) == IF t.type = "LIST" THEN TextBack(t.left) \o <<";">> \o Text(t.right) ELSE TextBack(t)

-----------------------------------------------------------------------------
(* Running a command.  A process has the command it runs, its descriptors, *)
(* a count of the children it forked, and a place in runcmd.               *)
Fds == 0 .. NOFILE - 1

Closed == [kind |-> "closed"]

Console == [kind |-> "console"]

FileOf(name) == [kind |-> "file", name |-> name]

EndOf(p, e) == [kind |-> "pipe", of |-> p, end |-> e]

Lowest(fd) == CHOOSE i \in Fds : fd[i] = Closed /\ \A j \in Fds : fd[j] = Closed => i <= j

Open(fd, x) == [fd EXCEPT ![Lowest(fd)] = x]

Close(fd, i) == [fd EXCEPT ![i] = Closed]

Child(p) == Append(p, procs[p].kids + 1)

Proc(c, fd) == [cmd |-> c, fd |-> fd, kids |-> 0, pc |-> "runcmd", ends |-> <<>>]

Set(p, q) == procs' = [procs EXCEPT ![p] = q]

(* exit: its descriptors are closed and its children go to init, which     *)
(* waits for them.                                                         *)
Children(p) == {q \in DOMAIN procs : Len(q) = Len(p) + 1 /\ IsPrefix(p, q)}

exit(p) ==
    /\ procs' = [procs EXCEPT ![p].pc = "zombie", ![p].fd = [i \in Fds |-> Closed]]
    /\ UNCHANGED <<sh, tree, executed>>

(* fork1: panic, that is exit, when there is no process left. *)
fork1(p, c, fd, pc) ==
    \/ exit(p)
    \/ /\ procs' = [q \in DOMAIN procs \cup {Child(p)} |->
                      IF q = Child(p) THEN Proc(c, fd)
                      ELSE IF q = p THEN [procs[p] EXCEPT !.kids = @ + 1, !.pc = pc]
                      ELSE procs[q]]
       /\ UNCHANGED <<sh, tree, executed>>

wait(p, q) ==
    LET zs == {c \in Children(p) : procs[c].pc = "zombie"}
    IN  \/ /\ Children(p) = {} /\ Set(p, q) /\ UNCHANGED <<sh, tree, executed>>
        \/ /\ \E z \in zs :
                procs' = [[r \in DOMAIN procs \ {z} |-> procs[r]] EXCEPT ![p] = q]
           /\ UNCHANGED <<sh, tree, executed>>

(* Wrong: the child keeps the end of the pipe that it does not use. *)
PlumbKeeps(fd, ends, i) == Close(Open(Close(fd, i), fd[ends[i + 1]]), ends[i + 1])

(* The child of a pipe puts one end in the place of descriptor i. *)
Plumb(fd, ends, i) == Close(Close(Open(Close(fd, i), fd[ends[i + 1]]), ends[1]), ends[2])

(* pipe: the two lowest free descriptors; the shells give up when it fails.*)
pipe(p, pc) ==
    LET q == procs[p]
        fd1 == Open(q.fd, EndOf(p, "r"))
    IN  \/ exit(p)
        \/ /\ Set(p, [q EXCEPT !.fd = Open(fd1, EndOf(p, "w")),
                               !.ends = <<Lowest(q.fd), Lowest(fd1)>>, !.pc = pc])
           /\ UNCHANGED <<sh, tree, executed>>

(* A simple command: exec, which returns only when it fails; the graphical *)
(* shell looks in /bin, bash in its PATH.  Bash runs its internal commands *)
(* in the forked shell itself, which then exits.                           *)
Did(p) == executed \cup {<<p, procs[p].cmd.argv, procs[p].fd[0], procs[p].fd[1]>>}

exec(p) ==
    \/ exit(p)
    \/ /\ Set(p, [procs[p] EXCEPT !.pc = "program"])
       /\ executed' = Did(p)
       /\ UNCHANGED <<sh, tree>>

runInternalCommand(p) ==
    /\ Set(p, [procs[p] EXCEPT !.pc = "exit"])
    /\ executed' = Did(p)
    /\ UNCHANGED <<sh, tree>>

bash_exec(p) == IF procs[p].cmd.argv[1] \in Internal THEN runInternalCommand(p) ELSE exec(p)

Run(p, Exec(_)) ==
    LET q == procs[p]
        c == q.cmd
    IN  \/ /\ q.pc = "runcmd" /\ c.type = "EXEC"
           /\ IF c.argv = <<>> THEN exit(p) ELSE Exec(p)
        \/ /\ q.pc = "runcmd" /\ c.type = "REDIR"
           /\ \/ exit(p)
              \/ /\ Set(p, [q EXCEPT !.fd = Open(Close(@, c.fd), FileOf(c.file)),
                                     !.cmd = c.cmd])
                 /\ UNCHANGED <<sh, tree, executed>>
        \/ q.pc = "runcmd" /\ c.type = "LIST" /\ fork1(p, c.left, q.fd, "list")
        \/ q.pc = "list" /\ wait(p, [q EXCEPT !.cmd = c.right, !.pc = "runcmd"])
        \/ q.pc = "runcmd" /\ c.type = "PIPE" /\ pipe(p, "left")
        \/ q.pc = "left" /\ fork1(p, c.left, Plumb(q.fd, q.ends, 1), "right")
        \/ q.pc = "right" /\ fork1(p, c.right, Plumb(q.fd, q.ends, 0), "close")
        \/ /\ q.pc = "close"
           /\ Set(p, [q EXCEPT !.fd = Close(Close(@, q.ends[1]), q.ends[2]), !.pc = "wait1"])
           /\ UNCHANGED <<sh, tree, executed>>
        \/ q.pc = "wait1" /\ wait(p, [q EXCEPT !.pc = "wait2"])
        \/ q.pc = "wait2" /\ wait(p, [q EXCEPT !.pc = "exit"])
        \/ q.pc = "runcmd" /\ c.type = "BACK" /\ fork1(p, c.cmd, q.fd, "exit")
        \/ q.pc = "exit" /\ exit(p)

runcmd(p) == Run(p, exec)

shell_runcmd(p) == Run(p, exec)

bash_runcmd(p) == Run(p, bash_exec)

(* External: a program reads its standard input to the end, which a pipe   *)
(* reaches when nobody holds its write end any more, and exits.            *)
Held(x) == \E p \in DOMAIN procs : \E i \in Fds : procs[p].fd[i] = x

Program(p) ==
    LET in == procs[p].fd[0]
    IN  /\ procs[p].pc = "program"
        /\ ~(in.kind = "pipe" /\ Held(EndOf(in.of, "w")))
        /\ exit(p)

(* main of sh and bash: the shell, pid <<>>, forks a child for the command *)
(* and waits.                                                              *)
Init ==
    /\ sh \in {"sh", "shell", "bash"}
    /\ tree \in Trees
    /\ procs = <<>> :> Proc(tree, [i \in Fds |-> IF i <= 2 THEN Console ELSE Closed])
    /\ executed = {}

main ==
    LET q == procs[<<>>]
    IN  \/ q.pc = "runcmd" /\ fork1(<<>>, tree, q.fd, "main")
        \/ q.pc = "main" /\ wait(<<>>, [q EXCEPT !.pc = "prompt"])

(* inputHandler, the graphical shell's main: the command writes to a pipe  *)
(* that the shell reads to the end; the child keeps the write end twice,   *)
(* the shell the read end, and nobody waits for the child.  A program with *)
(* a window is not listened to.                                            *)
Gui == tree.type = "EXEC" /\ Len(tree.argv) = 1 /\ tree.argv[1] \in GUI_programs

inputHandler ==
    LET q == procs[<<>>]
        e == q.ends
        ChildFds == IF Gui THEN q.fd ELSE Open(Close(Close(q.fd, e[1]), 1), q.fd[e[2]])
        Goto(pc, fd) == /\ Set(<<>>, [q EXCEPT !.pc = pc, !.fd = fd])
                        /\ UNCHANGED <<sh, tree, executed>>
    IN  \/ q.pc = "runcmd" /\ pipe(<<>>, "fork")
        \/ q.pc = "fork" /\ fork1(<<>>, tree, ChildFds, IF Gui THEN "prompt" ELSE "listen")
        \/ q.pc = "listen" /\ Goto("read", Open(Close(Close(q.fd, e[2]), 0), q.fd[e[1]]))
        \/ q.pc = "read" /\ ~Held(EndOf(<<>>, "w")) /\ Goto("prompt", q.fd)

Next ==
    \/ sh # "shell" /\ main
    \/ sh = "shell" /\ inputHandler
    \/ \E p \in DOMAIN procs \ {<<>>} :
         \/ sh = "sh" /\ runcmd(p)
         \/ sh = "shell" /\ shell_runcmd(p)
         \/ sh = "bash" /\ bash_runcmd(p)
         \/ Program(p)

-----------------------------------------------------------------------------
(* What a tree means: which program runs with which input and output; the  *)
(* process p has forked k children before.                                 *)
RECURSIVE Meaning(_, _, _, _, _)
Meaning(t, p, k, in, out) ==
    CASE t.type = "EXEC" -> IF t.argv = <<>> THEN {} ELSE {<<p, t.argv, in, out>>}
      [] t.type = "REDIR" ->
           IF t.fd = 0 THEN Meaning(t.cmd, p, k, FileOf(t.file), out)
           ELSE Meaning(t.cmd, p, k, in, FileOf(t.file))
      [] t.type = "LIST" -> Meaning(t.left, Append(p, k + 1), 0, in, out)
                            \cup Meaning(t.right, p, k + 1, in, out)
      [] t.type = "PIPE" -> Meaning(t.left, Append(p, k + 1), 0, in, EndOf(p, "w"))
                            \cup Meaning(t.right, Append(p, k + 2), 0, EndOf(p, "r"), out)
      [] t.type = "BACK" -> Meaning(t.cmd, Append(p, k + 1), 0, in, out)

(* Every program gets the input and the output its command names, and no   *)
(* descriptor of a pipe of the command beyond those two.                   *)
Wired ==
    /\ executed \subseteq
         Meaning(tree, <<1>>, 0, Console,
                 IF sh = "shell" /\ ~Gui THEN EndOf(<<>>, "w") ELSE Console)
    /\ \A p \in DOMAIN procs : procs[p].pc = "program" =>
         \A i \in Fds \ {0, 1} : procs[p].fd[i].kind = "pipe" => procs[p].fd[i].of = <<>>

(* The shell never hangs: until it prompts again (or has no process for a  *)
(* child and exits) some process can take a step; in particular no reader  *)
(* of a pipe waits for an end of file that a forgotten descriptor holds up.*)
ShellReturns == procs[<<>>].pc \in {"prompt", "zombie"} \/ ENABLED Next
=============================================================================
