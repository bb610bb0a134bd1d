-------------------------------- MODULE Text --------------------------------
(***************************************************************************)
(* The string and formatting functions: kernel/string.c, printint and      *)
(* cprintf of kernel/console.c, skipelem of kernel/fs.c, and the C library *)
(* of user programs (printf.c, sprintf.c, stdlib.c, string.c, math.c).     *)
(* A string is a sequence of characters without its NUL.  A character is   *)
(* an integer: a digit is its value, the others are named below; NUL is    *)
(* -9.  An int has WORD values, kept as -WORD/2 .. WORD/2 - 1.             *)
(***************************************************************************)
EXTENDS Integers, Sequences, FiniteSets, SequencesExt

CONSTANTS WORD, DIRSIZ

(* The characters that the functions tell apart. *)
NUL == -9
MINUS == -1
SPACE == -2
PERCENT == -3
SLASH == -4
CharD == 20
CharX == 21
CharS == 22
CharC == 23
Letter == 24
isdigit(c) == c \in 0 .. 9

-----------------------------------------------------------------------------
(* Numbers: printint (user, console), sprintint and itoa are four copies   *)
(* of one loop, over an unsigned word.                                     *)
RECURSIVE Digits(_, _)
Digits(x, base) ==
    (IF x \div base # 0 THEN Digits(x \div base, base) ELSE <<>>) \o <<x % base>>

printint(xx, base, sgn) ==
    IF sgn /\ xx < 0 THEN <<MINUS>> \o Digits((-xx) % WORD, base) ELSE Digits(xx % WORD, base)

console_printint(xx, base, sign) == printint(xx, base, sign)

sprintint(xx, base, sgn) == printint(xx, base, sgn)

itoa(xx, base, sgn) == printint(xx, base, sgn)

RECURSIVE Number(_, _)
Number(n, s) ==
    IF s = <<>> \/ (s # <<>> /\ ~isdigit(Head(s))) THEN n ELSE Number(n * 10 + Head(s), Tail(s))

atoi(s) == Number(0, s)

(* int2str of a number that is not negative: the digits, the last first,   *)
(* filled up with zeroes and turned round by reverse.                      *)
RECURSIVE LastFirst(_)
LastFirst(x) == IF x = 0 THEN <<>> ELSE <<x % 10>> \o LastFirst(x \div 10)

reverse(str) == [i \in 1 .. Len(str) |-> str[Len(str) + 1 - i]]

int2str(x, d) ==
    LET s == LastFirst(x)
    IN  reverse(s \o [i \in 1 .. d - Len(s) |-> 0])

(* ftoa of ipart + fpart / 10^precision. *)
ftoa(ipart, fpart, precision) ==
    int2str(ipart, 0) \o (IF precision = 0 THEN <<>> ELSE <<CharD>> \o int2str(fpart, precision))

RECURSIVE Sum(_, _)
Sum(x, k) == IF k = 0 THEN 0 ELSE x + Sum(x, k - 1)

(* pow: each round adds the last answer a - 1 times to itself. *)
RECURSIVE pow(_, _)
pow(a, b) == IF b = 0 THEN 1 ELSE IF b = 1 THEN a ELSE pow(a, b - 1) + Sum(pow(a, b - 1), a - 1)

-----------------------------------------------------------------------------
(* Wrong: a number is always filled up on the right. *)
FillRight(st, v) == v \o [k \in 1 .. atoi(st.prefix) - Len(v) |-> SPACE]

(* printf: one character of the format.  Only d, s and unknown characters  *)
(* end a conversion: after x, c, % and - the next character is still read  *)
(* as a conversion.  %d prints an unsigned number.                         *)
Fill(st, v) ==
    LET pad == [k \in 1 .. atoi(st.prefix) - Len(v) |-> SPACE]
    IN  IF st.left THEN v \o pad ELSE pad \o v

Emit(st, v) == [st EXCEPT !.out = @ \o v]

printf_char(st, c) ==
    LET arg == Head(st.ap)
        Use(s, v, on) == [Emit(s, v) EXCEPT !.ap = Tail(@), !.on = on]
    IN  IF ~st.on THEN
            IF c = PERCENT THEN [st EXCEPT !.on = TRUE, !.prefix = <<>>] ELSE Emit(st, <<c>>)
        ELSE IF isdigit(c) THEN
            [st EXCEPT !.prefix = IF st.run THEN Append(@, c) ELSE <<c>>, !.run = TRUE]
        ELSE LET s == [st EXCEPT !.run = FALSE]
             IN  CASE c = CharD   -> Use(s, Fill(s, itoa(arg, 10, FALSE)), FALSE)
                   [] c = CharS   -> Use(s, Fill(s, arg), FALSE)
                   [] c = CharX   -> Use(s, printint(arg, 16, TRUE), TRUE)
                   [] c = CharC   -> Use(s, <<arg>>, TRUE)
                   [] c = MINUS   -> [s EXCEPT !.left = TRUE]
                   [] c = PERCENT -> Emit(s, <<PERCENT>>)
                   [] OTHER       -> [Emit(s, <<c>>) EXCEPT !.on = FALSE]

printf(fmt, ap) ==
    FoldLeft(printf_char, [out |-> <<>>, on |-> FALSE, prefix |-> <<>>, run |-> FALSE,
                           left |-> FALSE, ap |-> ap], fmt).out

(* sprintf: nothing is printed for x, c, % and unknown characters, and the *)
(* argument of x and c stays where it is.                                  *)
sprintf_char(st, c) ==
    LET arg == Head(st.ap)
        Use(v) == [Emit(st, v) EXCEPT !.ap = Tail(@), !.on = FALSE]
    IN  IF ~st.on THEN IF c = PERCENT THEN [st EXCEPT !.on = TRUE] ELSE Emit(st, <<c>>)
        ELSE CASE c = CharD -> Use(sprintint(arg, 10, TRUE))
               [] c = CharS -> Use(arg)
               [] OTHER     -> [st EXCEPT !.on = FALSE]

sprintf(fmt, ap) ==
    FoldLeft(sprintf_char, [out |-> <<>>, on |-> FALSE, ap |-> ap], fmt).out

cprintf_char(st, c) ==
    LET arg == Head(st.ap)
        Use(v) == [Emit(st, v) EXCEPT !.ap = Tail(@), !.on = FALSE]
    IN  IF ~st.on THEN IF c = PERCENT THEN [st EXCEPT !.on = TRUE] ELSE Emit(st, <<c>>)
        ELSE CASE c = CharD   -> Use(console_printint(arg, 10, TRUE))
               [] c = CharX   -> Use(console_printint(arg, 16, FALSE))
               [] c = CharS   -> Use(arg)
               [] c = PERCENT -> [Emit(st, <<PERCENT>>) EXCEPT !.on = FALSE]
               [] OTHER       -> [Emit(st, <<PERCENT, c>>) EXCEPT !.on = FALSE]

cprintf(fmt, ap) ==
    FoldLeft(cprintf_char, [out |-> <<>>, on |-> FALSE, ap |-> ap], fmt).out

-----------------------------------------------------------------------------
(* Memory: m is an array of bytes, addresses start at 1. *)
RECURSIVE Up(_, _, _, _)
Up(m, d, s, n) == IF n = 0 THEN m ELSE Up([m EXCEPT ![d] = m[s]], d + 1, s + 1, n - 1)

RECURSIVE Down(_, _, _, _)
Down(m, d, s, n) ==
    IF n = 0 THEN m ELSE Down([m EXCEPT ![d + n - 1] = m[s + n - 1]], d, s, n - 1)

memmove(m, dst, src, n) ==
    IF src < dst /\ src + n > dst THEN Down(m, dst, src, n) ELSE Up(m, dst, src, n)

(* The memmove of user programs copies upwards only. *)
user_memmove(m, dst, src, n) == Up(m, dst, src, n)

(* A string in memory: t followed by its NUL. *)
At(t, i) == IF i <= Len(t) THEN t[i] ELSE NUL

(* strncpy and safestrcpy: the bytes written to s. *)
RECURSIVE Copy(_, _, _)
Copy(t, i, n) ==
    IF n <= 0 THEN [s |-> <<>>, n |-> n - 1]
    ELSE IF At(t, i) = NUL THEN [s |-> <<NUL>>, n |-> n - 1]
    ELSE LET r == Copy(t, i + 1, n - 1) IN [r EXCEPT !.s = <<t[i]>> \o @]

strncpy(t, n) ==
    LET r == Copy(t, 1, n) IN r.s \o [k \in 1 .. r.n |-> NUL]

user_strncpy(t, n) == strncpy(t, n)

safestrcpy(t, n) ==
    IF n <= 0 THEN <<>>
    ELSE LET r == Copy(t, 1, n - 1) IN IF r.s # <<>> /\ Last(r.s) = NUL THEN r.s ELSE Append(r.s, NUL)

strcpy(t) == Append(t, NUL)

strcat(dest, src) == strcpy(dest \o src)

RECURSIVE Compare(_, _, _, _)
Compare(p, q, i, n) ==
    IF n = 0 THEN 0
    ELSE IF At(p, i) # NUL /\ At(p, i) = At(q, i) THEN Compare(p, q, i + 1, n - 1)
    ELSE At(p, i) - At(q, i)

strncmp(p, q, n) == Compare(p, q, 1, n)

strcmp(p, q) == Compare(p, q, 1, Len(p) + 1)

strchr(s, c) == \E i \in 1 .. Len(s) : s[i] = c

namecmp(s, t) == strncmp(s, t, DIRSIZ)

(* skipelem: the next element of a path, cut to DIRSIZ characters, and the *)
(* rest; ok is false at the end of the path.                               *)
RECURSIVE Slashes(_)
Slashes(path) == IF path # <<>> /\ Head(path) = SLASH THEN Slashes(Tail(path)) ELSE path

RECURSIVE Name(_)
Name(path) ==
    IF path = <<>> \/ Head(path) = SLASH THEN <<>> ELSE <<Head(path)>> \o Name(Tail(path))

skipelem(path) ==
    LET s == Slashes(path)
        n == Name(s)
    IN  IF s = <<>> THEN [ok |-> FALSE]
        ELSE [ok |-> TRUE, name |-> SubSeq(n, 1, IF Len(n) >= DIRSIZ THEN DIRSIZ ELSE Len(n)),
              path |-> Slashes(SubSeq(s, Len(n) + 1, Len(s)))]

(* gets: a line, at most max - 1 characters of it; the rest stays unread. *)
RECURSIVE gets(_, _, _)
gets(input, max, eol) ==
    IF max <= 1 \/ input = <<>> THEN <<>>
    ELSE <<Head(input)>> \o (IF Head(input) = eol THEN <<>> ELSE gets(Tail(input), max - 1, eol))

-----------------------------------------------------------------------------
(* References. *)
RECURSIVE Value(_, _)
Value(s, base) ==
    IF s = <<>> THEN 0
    ELSE IF Head(s) = MINUS THEN -Value(Tail(s), base)
    ELSE Value(Front(s), base) * base + Last(s)

(* Every int is printed as the digits of its value, the smallest one       *)
(* included; what itoa prints atoi reads back; pow is the power.           *)
NumberSound(x) ==
    /\ \A base \in {2, 10, 16} : Value(printint(x, base, TRUE), base) = x
    /\ x >= 0 => /\ atoi(itoa(x, 10, FALSE)) = x
                 /\ x > 0 => int2str(x, 0) = itoa(x, 10, FALSE)
                 /\ \A d \in 1 .. 3 :
                      /\ atoi(int2str(x, d)) = x /\ Len(int2str(x, d)) >= d
                      /\ x > 0 => ftoa(x, x % 10, d) = itoa(x, 10, FALSE) \o <<CharD>>
                                                      \o [i \in 1 .. d - 1 |-> 0] \o <<x % 10>>
    /\ \A b \in 0 .. 3 : x \in 1 .. 4 => pow(x, b) = x ^ b

(* A format is spelled from pieces: a letter, or a conversion with the     *)
(* argument v and, when w > 0, a width.                                    *)
Spell(p) == IF p.k = Letter THEN <<Letter>>
            ELSE <<PERCENT>> \o (IF p.w > 0 THEN <<p.w>> ELSE <<>>) \o <<p.k>>

Arg(p) == CASE p.k \in {Letter, PERCENT} -> <<>> [] p.k = CharS -> <<p.s>> [] OTHER -> <<p.v>>

Show(p) ==
    LET v == CASE p.k = Letter -> <<Letter>> [] p.k = PERCENT -> <<PERCENT>> [] p.k = CharS -> p.s
               [] p.k = CharX -> Digits(p.v % WORD, 16)
               [] p.k = CharD -> IF p.v < 0 THEN <<MINUS>> \o Digits(-p.v, 10) ELSE Digits(p.v, 10)
    IN  [i \in 1 .. p.w - Len(v) |-> SPACE] \o v

All(F(_), ps) == FoldLeft(LAMBDA a, p : a \o F(p), <<>>, ps)

(* printf prints strings and numbers that are not negative, with or        *)
(* without a width, as C does; sprintf and cprintf do so for every number, *)
(* and cprintf for %x and %% too.                                          *)
FormatSound(ps) ==
    /\ (\A i \in DOMAIN ps : ps[i].k \in {Letter, CharS} \/ (ps[i].k = CharD /\ ps[i].v >= 0))
         => printf(All(Spell, ps), All(Arg, ps)) = All(Show, ps)
    /\ (\A i \in DOMAIN ps : ps[i].k \in {Letter, CharS, CharD} /\ ps[i].w = 0)
         => sprintf(All(Spell, ps), All(Arg, ps)) = All(Show, ps)
    /\ (\A i \in DOMAIN ps : ps[i].w = 0)
         => cprintf(All(Spell, ps), All(Arg, ps)) = All(Show, ps)

(* memmove moves the old bytes also when the areas overlap; the user's     *)
(* does unless the destination lies behind the start of the source.        *)
MoveSound(m, d, s, n) ==
    LET moved == [i \in DOMAIN m |-> IF i \in d .. d + n - 1 THEN m[s + i - d] ELSE m[i]]
    IN  /\ memmove(m, d, s, n) = moved
        /\ ~(s < d /\ d < s + n) => user_memmove(m, d, s, n) = moved

(* strncpy writes n bytes, the string and NULs; safestrcpy writes at most  *)
(* n and ends with a NUL; strcmp and strncmp are 0 for equal strings only, *)
(* namecmp for names equal in the characters a directory keeps; gets       *)
(* returns a line, cut to what the buffer holds.                           *)
CopySound(p, q, n) ==
    /\ strncpy(p, n) = [i \in 1 .. n |-> At(p, i)]
    /\ n > 0 => safestrcpy(p, n) = Append(SubSeq(p, 1, IF Len(p) < n THEN Len(p) ELSE n - 1), NUL)
    /\ (strcmp(p, q) = 0) = (p = q)
    /\ (strncmp(p, q, n) = 0) = (strncpy(p, n) = strncpy(q, n))
    /\ (namecmp(p, q) = 0) = (strncpy(p, DIRSIZ) = strncpy(q, DIRSIZ))
    /\ \A eol \in {1, Letter} :
         LET line == gets(p, n, eol)
         IN  /\ line = SubSeq(p, 1, Len(line)) /\ (n > 0 => Len(line) < n)
             /\ Len(line) \in {n - 1, Len(p)} \/ line = <<>> \/ Last(line) = eol
             /\ ~strchr(SubSeq(line, 1, Len(line) - 1), eol)

(* Taking elements off a path gives the names between its slashes, and no  *)
(* empty one; the last element leaves an empty path, which is how namex    *)
(* knows it.                                                               *)
RECURSIVE Elements(_)
Elements(path) ==
    LET e == skipelem(path) IN IF e.ok THEN <<e.name>> \o Elements(e.path) ELSE <<>>

PathSound(path) ==
    LET starts == SelectSeq([i \in 1 .. Len(path) |-> i],
                            LAMBDA i : path[i] # SLASH /\ (i = 1 \/ path[i - 1] = SLASH))
        Upto(i) == {j \in i .. Len(path) : \A k \in i .. j : path[k] # SLASH}
        Cut(s) == SubSeq(s, 1, IF Len(s) > DIRSIZ THEN DIRSIZ ELSE Len(s))
        e == skipelem(path)
    IN  /\ Elements(path) = [x \in DOMAIN starts |->
              Cut([y \in 1 .. Cardinality(Upto(starts[x])) |-> path[starts[x] + y - 1]])]
        /\ (e.ok /\ Len(starts) = 1) => e.path = <<>>
=============================================================================
