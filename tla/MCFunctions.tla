---------------------------- MODULE MCFunctions ----------------------------
(***************************************************************************)
(* The functions of the system, checked against their references over      *)
(* bounded inputs: each state is one input, and the first is none.  MCLib- *)
(* rary runs them.                                                         *)
(***************************************************************************)
EXTENDS Integers, Sequences

CONSTANTS W, H, CW, CH, SCREEN_WIDTH, START_ICON_WIDTH, SHOW_DESKTOP_ICON_WIDTH,
          DOCK_PROGRAM_NORMAL_WIDTH, TITLE_HEIGHT           \* Drawing
CONSTANTS WORD, DIRSIZ                                      \* Text, Programs
CONSTANTS MaxBits                                           \* Gif
CONSTANTS MAXARGS, Letters, NOFILE                          \* Shell

VARIABLE arg

Keywords == {<<"i", "f">>}
Builtins == {<<"b">>}

D == INSTANCE Drawing
T == INSTANCE Text
P == INSTANCE Programs
G == INSTANCE Gif
J == INSTANCE JShell
S == INSTANCE Shell WITH Trees <- {}, Internal <- {}, GUI_programs <- {}, sh <- "sh", tree <- <<>>,
                         procs <- <<>>, executed <- {}

Strings(C, n) == UNION {[1 .. k -> C] : k \in 0 .. n}

-----------------------------------------------------------------------------
(* Shapes inside, across and outside every edge of the screen, lines in    *)
(* every direction, up to 20 windows in the dock, two widgets that overlap *)
(* in every way, in a window scrolled or not.                              *)
Widget == [type : {"BUTTON", "IMAGE"}, xmin : {-1, 0, 3}, xmax : {4, 6}, ymin : {0, 2},
           ymax : {3}, scrollable : BOOLEAN]

Shapes ==
    [k : {"shape"}, x : -3 .. 9, y : -3 .. 7, w : 0 .. 4, h : 0 .. 4]
    \cup [k : {"line"}, x : -2 .. 4, y : -2 .. 4, w : -2 .. 4, h : -2 .. 4]
    \cup [k : {"dock"}, n : 1 .. 20]
    \cup [k : {"bar"}, xmax : {70, 200}]
    \cup [k : {"widgets"}, a : Widget, b : Widget, off : {<<0, 0>>, <<0, 2>>, <<1, 1>>}]

(* All numbers of a word, formats of up to three pieces, all overlaps of   *)
(* moves in five bytes, short strings and paths.                           *)
Letter == T!Letter

Pieces ==
    [k : {Letter, T!PERCENT}, w : {0}, v : {0}]
    \cup [k : {T!CharD}, w : {0, 3}, v : {-12, 0, 7}]
    \cup [k : {T!CharX}, w : {0}, v : {-1, 20}]
    \cup [k : {T!CharS}, w : {0, 3}, s : {<<>>, <<Letter, Letter>>}]

Texts ==
    [k : {"number"}, x : -(WORD \div 2) .. (WORD \div 2) - 1]
    \cup [k : {"format"}, ps : Strings(Pieces, 3)]
    \cup {a \in [k : {"move"}, d : 1 .. 5, s : 1 .. 5, n : 0 .. 4] :
             a.d + a.n <= 6 /\ a.s + a.n <= 6}
    \cup [k : {"copy"}, p : Strings({1, Letter}, 3), q : Strings({1, Letter}, 3), n : 0 .. 4]
    \cup [k : {"path"}, path : Strings({T!SLASH, Letter}, 7)]

(* Patterns of up to four characters, files cut anywhere by a read, copies *)
(* on a disk that fills up at any write, dates around every month's end.   *)
Files == [{"f"} -> {P!Dir, <<>>, <<1, 2>>}]
         \cup [{"f", "g"} -> {P!Dir, <<>>, <<3>>, <<1, 2>>, <<4, 5, 6>>}]

Uses ==
    [k : {"grep"}, re : Strings({"x", ".", "*", "$", "^"}, 4), l : Strings({"x", "*"}, 3)]
    \cup [k : {"wc"}, a : Strings({"x", P!Blank, P!NL}, 3), b : Strings({"x", P!Blank, P!NL}, 3)]
    \cup [k : {"names"}, path : Strings({"x", "/", "."}, 5)]
    \cup [k : {"cp"}, files : Files, fds : {{0, 1, 2}, {1, 2}}, n : 0 .. 3]
    \cup [k : {"bitmap"}, w : 1 .. 9, bits : {24, 32}, i : 0 .. 3, j : 0 .. 8]
    \cup [k : {"clock"}, t : [year : {0, 1, 4, 99}, month : 1 .. 12, day : {1, 28},
                              hour : {0, 23}, min : {59}, sec : {0, 59}]]
    \cup [k : {"mouse"}, lead : Strings({0, 5}, 2), ps : Strings({8, 9, 12} \X {0, 5, 12} \X {0, 12}, 2)]

(* Commands two levels deep, for each of the shells; images whose          *)
(* dictionaries grow, are cleared, and meet codes before they are defined. *)
Exec == {S!execcmd(<<>>), S!execcmd(<<<<"a">>>>), S!execcmd(<<<<"a", "b">>, <<"a">>>>)}

Deeper(C) ==
    C \cup {S!redircmd(c, <<"f">>, i) : c \in C, i \in {0, 1}}
      \cup {S!pipecmd(c, d) : c \in C, d \in C}
      \cup {S!listcmd(c, d) : c \in C, d \in C}
      \cup {S!backcmd(c) : c \in C}

Word == {<<"a">>, <<"a", "*">>, <<"b", " ", "|">>, J!Exit}

Plain(Args) ==
    [type : {"SIMPLE"}, args : Args, background : BOOLEAN, input_file : {<<>>, <<"f">>},
     output_file : {<<>>, <<";", "f">>}, append_output : {FALSE}, next : {J!Null}]

Short == {[J!Simple EXCEPT !.args = <<w>>] : w \in Word}
         \cup {[J!Simple EXCEPT !.args = <<<<"a">>>>, !.output_file = <<"f">>,
                                !.append_output = TRUE]}

Pipes == {[c EXCEPT !.next = d] : c \in Short, d \in Short}

Lists(C) == {J!Branch(t, c, d) : t \in {"SEQUENCE", "AND", "OR"}, c \in Short, d \in C}

Pixels ==
    Strings({0, 1}, 6)
    \cup {[i \in 1 .. n |-> ((i * i * 7) + (i \div 3)) % 4] : n \in 8 .. 14}
    \cup {[i \in 1 .. n |-> 2] : n \in 7 .. 45}

Sources ==
    [k : {"shell"}, t : Deeper(Deeper(Exec))]
    \cup [k : {"line"}, c : Plain(Strings(Word, 2) \ {<<>>}) \cup Pipes \cup Lists(Pipes)
                            \cup Lists(Lists(Short \cup {J!Null}))]
    \cup [k : {"gif"}, px : Pixels]

-----------------------------------------------------------------------------
InitArg == arg = [of |-> "none"]

Draw == arg.of = "none" /\ \E a \in Shapes : arg' = [of |-> "drawing", in |-> a]

Write == arg.of = "none" /\ \E a \in Texts : arg' = [of |-> "text", in |-> a]

Use == arg.of = "none" /\ \E a \in Uses : arg' = [of |-> "programs", in |-> a]

Parse == arg.of = "none" /\ \E a \in Sources : arg' = [of |-> "source", in |-> a]

NextArg == Draw \/ Write \/ Use \/ Parse

-----------------------------------------------------------------------------
(***************************************************************************)
(* graphics.c, bga.c, amiga.c, window_manager.c and user_window.c: what is *)
(* clipped is drawn exactly where it is visible, lines connect their ends, *)
(* no two pixels share memory, and the press that a user aims at the dock, *)
(* the title bar or a widget reaches what is painted there.                *)
(***************************************************************************)
PixelsSound ==
    arg.of = "drawing" =>
        LET a == arg.in
        IN  CASE a.k = "shape"   -> D!ClippedAt(a.x, a.y, a.w, a.h)
              [] a.k = "line"    -> D!LineSound(a.x, a.y, a.w, a.h)
              [] a.k = "dock"    -> D!DockSound(a.n)
              [] a.k = "bar"     -> D!BarSound(a.xmax) /\ D!PixelsApart
              [] a.k = "widgets" -> D!ClicksSound(<<a.a, a.b>>, a.off)

(***************************************************************************)
(* string.c, console.c, the user library and small programs: numbers are   *)
(* printed and read back, also the smallest int; the formats print what C  *)
(* prints where they agree with C at all; overlapping moves keep the       *)
(* bytes; copies never write past their end; paths fall into their         *)
(* elements; grep finds exactly the lines its pattern occurs in; wc does   *)
(* not depend on where reads cut the file; mv never loses a file when a    *)
(* write fails; the bitmap readers find every pixel; the clock counts;     *)
(* the mouse driver puts the bytes of a packet together.                   *)
(***************************************************************************)
TextsSound ==
    LET a == arg.in
    IN  /\ arg.of = "text" =>
             CASE a.k = "number" -> T!NumberSound(a.x)
               [] a.k = "format" -> T!FormatSound(a.ps)
               [] a.k = "move"   -> T!MoveSound(<<11, 12, 13, 14, 15>>, a.d, a.s, a.n)
               [] a.k = "copy"   -> T!CopySound(a.p, a.q, a.n)
               [] a.k = "path"   -> T!PathSound(a.path)
        /\ arg.of = "programs" =>
             CASE a.k = "grep"   -> P!GrepSound(a.re, a.l)
               [] a.k = "wc"     -> P!WcSound(a.a, a.b)
               [] a.k = "names"  -> P!NamesSound(a.path)
               [] a.k = "cp"     -> P!CopiesSound(a.files, "f", "g", a.fds, a.n)
               [] a.k = "bitmap" -> P!BitmapSound(a.w, a.bits, a.i, a.j)
               [] a.k = "clock"  -> P!ClockSound(a.t)
               [] a.k = "mouse"  -> P!PacketsSound(a.lead, a.ps)

(***************************************************************************)
(* The parsers of sh.c, shell.c, bash.c and shell_lib/parser.c read a line *)
(* as the command it was written for, precedence, quotes and redirections  *)
(* included; gif.c recovers every pixel from a compressed image.           *)
(***************************************************************************)
ParsersSound ==
    arg.of = "source" =>
        LET a == arg.in
        IN  CASE a.k = "shell" -> /\ S!parsecmd(S!Text(a.t)) = S!OK(a.t, <<>>)
                                  /\ S!shell_parsecmd(S!Text(a.t)) = S!OK(a.t, <<>>)
                                  /\ S!bash_parsecmd(S!Text(a.t)) = S!OK(a.t, <<>>)
              [] a.k = "line"  -> J!LineRead(a.c)
              [] a.k = "gif"   -> /\ G!ImagesRead(2, <<a.px>>, <<>>, 255, TRUE)
                                  /\ G!ImagesRead(3, <<a.px, <<1, 2>>>>,
                                                  <<G!GRAPHIC_CONTROL, G!PLAINTEXT_EXTENSION>>,
                                                  3, FALSE)
=============================================================================
