------------------------------ MODULE Programs ------------------------------
(***************************************************************************)
(* What the small user programs and helpers compute: user/grep.c,          *)
(* user/wc.c, user/cp.c, user/mv.c, the bitmap readers of ulib/bitmap.c,   *)
(* fmtname of user/ls.c (and its copies in user/bash.c and                 *)
(* user/explorer.c), the clock arithmetic of kernel/cmos.c, and how        *)
(* kernel/mouse.c puts packets together.  Each is compared with a          *)
(* reference that says what the result should be.                          *)
(***************************************************************************)
EXTENDS Integers, Sequences, FiniteSets, SequencesExt

CONSTANT DIRSIZ

NL == "newline"
Blank == "blank"

-----------------------------------------------------------------------------
(* grep: the matcher of ^ . * and $ over strings without their final NUL. *)

RECURSIVE matchhere(_, _), matchstar(_, _, _)

matchstar(c, re, text) ==
    \/ matchhere(re, text)
    \/ /\ text # <<>> /\ (Head(text) = c \/ c = ".")
       /\ matchstar(c, re, Tail(text))

matchhere(re, text) ==
    IF re = <<>> THEN TRUE
    ELSE IF Len(re) > 1 /\ re[2] = "*" THEN matchstar(re[1], SubSeq(re, 3, Len(re)), text)
    ELSE IF re = <<"$">> THEN text = <<>>
    ELSE /\ text # <<>>
         /\ re[1] \in {".", Head(text)}
         /\ matchhere(Tail(re), Tail(text))

match(re, text) ==
    IF re # <<>> /\ re[1] = "^" THEN matchhere(Tail(re), text)
    ELSE \E i \in 0..Len(text) : matchhere(re, SubSeq(text, i + 1, Len(text)))

(* grep's loop over a file that one read returns whole. *)
RECURSIVE grep(_, _)
grep(pattern, rest) ==
    IF NL \notin Range(rest) THEN <<>>
    ELSE LET q == CHOOSE i \in 1..Len(rest) :
                      rest[i] = NL /\ \A j \in 1..(i - 1) : rest[j] # NL
             p == SubSeq(rest, 1, q - 1)
         IN  (IF match(pattern, p) THEN Append(p, NL) ELSE <<>>)
             \o grep(pattern, SubSeq(rest, q + 1, Len(rest)))

(* The items of a pattern: a character, and whether a star follows it. *)
RECURSIVE Items(_)
Items(re) ==
    IF re = <<>> THEN <<>>
    ELSE IF Len(re) > 1 /\ re[2] = "*" THEN <<<<re[1], TRUE>>>> \o Items(SubSeq(re, 3, Len(re)))
    ELSE <<<<re[1], FALSE>>>> \o Items(Tail(re))

(* text[a+1..b] is the text one item stands for. *)
Stands(item, text, a, b) ==
    /\ item[2] \/ b = a + 1
    /\ \A i \in (a + 1)..b : item[1] \in {".", text[i]}

(* A pattern occurs in a text: the text has cut points, one between each   *)
(* two items, and what lies between two of them is what the item between   *)
(* them stands for.                                                        *)
Occurs(re, text) ==
    LET front == re # <<>> /\ re[1] = "^"
        items == Items(IF front THEN Tail(re) ELSE re)
        end == items # <<>> /\ items[Len(items)] = <<"$", FALSE>>
        n == IF end THEN Len(items) - 1 ELSE Len(items)
    IN  \E cut \in [0..n -> 0..Len(text)] :
            /\ \A i \in 1..n : /\ cut[i - 1] <= cut[i]
                               /\ Stands(items[i], text, cut[i - 1], cut[i])
            /\ front => cut[0] = 0
            /\ end => cut[n] = Len(text)

(* grep prints a line exactly when the pattern occurs in it. *)
GrepSound(re, line) ==
    grep(re, Append(line, NL)) = IF Occurs(re, line) THEN Append(line, NL) ELSE <<>>

-----------------------------------------------------------------------------
(* wc, over the pieces in which its reads return the file. *)

Spaces == {Blank, NL}

wcRead(st, piece) ==
    LET Step(s, c) == [c |-> s.c + 1,
                       l |-> s.l + (IF c = NL THEN 1 ELSE 0),
                       w |-> s.w + (IF c \notin Spaces /\ ~s.inword THEN 1 ELSE 0),
                       inword |-> c \notin Spaces]
    IN  FoldLeft(Step, st, piece)

wc(pieces) == FoldLeft(wcRead, [c |-> 0, l |-> 0, w |-> 0, inword |-> FALSE], pieces)

(* wc counts the characters, the newlines and the words of the whole file, *)
(* wherever its reads cut it.                                              *)
WcSound(a, b) ==
    LET t == a \o b
        n == wc(<<a, b>>)
    IN  /\ n.c = Len(t)
        /\ n.l = Cardinality({i \in 1..Len(t) : t[i] = NL})
        /\ n.w = Cardinality({i \in 1..Len(t) : t[i] \notin Spaces
                                               /\ (i = 1 \/ t[i - 1] \in Spaces)})

-----------------------------------------------------------------------------
(* fmtname: the last element of a path, padded with blanks to DIRSIZ in    *)
(* ls and bash; getFileExtension: what follows the last dot.               *)

AfterLast(str, c) ==
    LET ps == {0} \cup {i \in 1..Len(str) : str[i] = c}
        p == CHOOSE i \in ps : \A j \in ps : j <= i
    IN  SubSeq(str, p + 1, Len(str))

fmtname(path) ==
    LET name == AfterLast(path, "/")
    IN  name \o [i \in 1..(DIRSIZ - Len(name)) |-> Blank]

bash_fmtname(path) == fmtname(path)

explorer_fmtname(path) == AfterLast(path, "/")

getFileExtension(filename) == AfterLast(filename, ".")

(* All of them end with the last element, or the extension, and with       *)
(* nothing but blanks after it; none is shortened.                         *)
NamesSound(path) ==
    LET name == explorer_fmtname(path)
        ext == getFileExtension(path)
    IN  /\ IsPrefix(name, fmtname(path)) /\ Len(fmtname(path)) >= DIRSIZ
        /\ \A i \in (Len(name) + 1)..Len(fmtname(path)) : fmtname(path)[i] = Blank
        /\ bash_fmtname(path) = fmtname(path)
        /\ IsSuffix(name, path) /\ "/" \notin Range(name)
        /\ name = path \/ path[Len(path) - Len(name)] = "/"
        /\ IsSuffix(ext, path) /\ "." \notin Range(ext)
        /\ ext = path \/ path[Len(path) - Len(ext)] = "."

-----------------------------------------------------------------------------
(* cp and mv.  A directory maps names to contents (sequences of buffers)   *)
(* or to Dir; fds is the set of descriptors open at the start; writes is   *)
(* the number of writes that succeed before the disk is full.              *)

Dir == <<-1>>                                        \* a directory

Lowest(fds) == CHOOSE i \in 0..Cardinality(fds) :
                   i \notin fds /\ \A j \in 0..(i - 1) : j \in fds

(* Buffers d[1..n] written over the beginning of a file. *)
Over(file, d, n) == SubSeq(d, 1, n) \o SubSeq(file, n + 1, Len(file))

(* What both programs do before they differ: [files, done], where done     *)
(* says the loop ran to the end.  `fd2 = open(...) < 0` is `fd2 = 0`: the  *)
(* descriptor it writes to is the one open just returned because close(0)  *)
(* made 0 the lowest; were 0 the source's, reading it would fail.          *)
Copy(files, src, dst, fds, writes) ==
    LET fd1 == Lowest(fds)
        created == IF dst \in DOMAIN files THEN files
                   ELSE [f \in DOMAIN files \cup {dst} |-> IF f = dst THEN <<>> ELSE files[f]]
        n == Len(files[src])
    IN  IF created[dst] = Dir THEN [files |-> files, done |-> FALSE]
        ELSE IF fd1 = 0 THEN [files |-> created, done |-> FALSE]
        ELSE LET k == IF writes < n THEN writes ELSE n
             IN  [files |-> [created EXCEPT ![dst] = Over(@, files[src], k)], done |-> k = n]

cp(files, src, dst, fds, writes) ==
    IF src \notin DOMAIN files \/ files[src] = Dir THEN files
    ELSE Copy(files, src, dst, fds, writes).files

Unlink(files, f) == [g \in DOMAIN files \ {f} |-> files[g]]

(* A directory is reported, and then unlinked all the same (it is empty in *)
(* what is modelled here, so that unlink removes it).                      *)
mv(files, src, dst, fds, writes) ==
    IF src \notin DOMAIN files THEN files
    ELSE IF files[src] = Dir THEN Unlink(files, src)
    ELSE LET res == Copy(files, src, dst, fds, writes)
         IN  IF res.done THEN Unlink(res.files, src) ELSE res.files

(* A copy that ends is a copy: the target begins with the source (what was *)
(* longer in it before stays), and no other file changes.  A move of a     *)
(* file to another name never loses it: wherever a write fails, the source *)
(* is still there or the target begins with it.                            *)
CopiesSound(files, src, dst, fds, writes) ==
    LET after == cp(files, src, dst, fds, writes)
        moved == mv(files, src, dst, fds, writes)
    IN  src \in DOMAIN files /\ files[src] # Dir /\ src # dst =>
          /\ after[src] = files[src]
          /\ \A f \in DOMAIN files \ {dst} : after[f] = files[f]
          /\ src \in DOMAIN moved \/ IsPrefix(files[src], moved[dst])
          /\ 0 \in fds /\ writes >= Len(files[src]) /\ after[dst] # Dir =>
                 IsPrefix(files[src], after[dst])

-----------------------------------------------------------------------------
(* The bitmap readers: the place in the file, after the headers, of the    *)
(* first byte of pixel (row i, column j).                                  *)

Padding(n) == (4 - (n % 4)) % 4

readBitmapFile(column, bits, i, j) ==
    LET rowBytes == (column * bits) \div 8
        used == IF bits = 32 THEN rowBytes ELSE column * 3
    IN  i * (used + Padding(rowBytes)) + j * (IF bits = 32 THEN 4 ELSE 3)

read24BitmapFile(column, bits, i, j) ==
    LET rowBytes == column * 3
        used == IF bits = 24 THEN rowBytes ELSE column * 4
    IN  i * (used + Padding(rowBytes)) + j * (IF bits = 24 THEN 3 ELSE 4)

(* The format: a row is padded to a multiple of four bytes. *)
PixelAt(column, bits, i, j) ==
    i * (4 * (((column * bits) + 31) \div 32)) + j * (bits \div 8)

(* Both readers find every pixel; read24BitmapFile pads a 32-bit file's    *)
(* rows as if it had 24 bits, so that it does for a width it need not pad. *)
BitmapSound(column, bits, i, j) ==
    /\ readBitmapFile(column, bits, i, j) = PixelAt(column, bits, i, j)
    /\ bits = 24 \/ column % 4 = 0 =>
           read24BitmapFile(column, bits, i, j) = PixelAt(column, bits, i, j)

-----------------------------------------------------------------------------
(* The clock: BCD digits, the Julian day and the seconds since 1970. *)

bcd2dec(bcd) == (bcd \div 16) * 10 + (bcd % 16)

cmos_to_julian(t) ==
    LET a == (14 - t.month) \div 12
        y == (t.year + 2000) + 4800 - a
        m == t.month + 12 * a - 3
    IN  t.day + ((153 * m + 2) \div 5) + 365 * y
        + (y \div 4) - (y \div 100) + (y \div 400) - 32045

(* Days since 1970 and the seconds of the day: the two digits of unixtime  *)
(* in base 86400, which update_unixtime adds up in 64 bits.                *)
update_unixtime(t) ==
    <<cmos_to_julian(t) - 2440588, t.sec + t.min * 60 + t.hour * 3600>>

(* The registers of the clock, in BCD, for a date and time. *)
cmos_read_values(reg) == [f \in DOMAIN reg |-> bcd2dec(reg[f])]

Leap(year) == year % 4 = 0 /\ (year % 100 # 0 \/ year % 400 = 0)
DaysIn(month, year) == CASE month = 2 -> (IF Leap(year) THEN 29 ELSE 28)
                         [] month \in {4, 6, 9, 11} -> 30
                         [] OTHER -> 31
Bcd(n) == (n \div 10) * 16 + (n % 10)

(* The number of days before a year, and before a month of it, by counting. *)
DaysBefore(t) ==
    LET year == 2000 + t.year
        Years == 365 * (year - 1970) + Cardinality({z \in 1970 .. year - 1 : Leap(z)})
        Months == FoldLeft(LAMBDA s, z : s + DaysIn(z, year), 0,
                           [i \in 1..(t.month - 1) |-> i])
    IN  Years + Months + t.day - 1

(* rtcintr turns the registers into the number of seconds since 1970. *)
ClockSound(t) ==
    update_unixtime(cmos_read_values([f \in DOMAIN t |-> Bcd(t[f])]))
        = <<DaysBefore(t), t.sec + 60 * (t.min + 60 * t.hour)>>

-----------------------------------------------------------------------------
(* The mouse: mouseintr takes one byte.  Bit 3 marks a packet's first one. *)

NoPacket == [count |-> 0, recovery |-> 0, packet |-> <<0, 0, 0>>, sent |-> <<>>]

Recovery(recovery, data) ==
    IF recovery \in {0, 1} /\ data = 0 THEN recovery + 1
    ELSE IF data = 12 THEN 0 ELSE -1

mouseintr(s, data) ==
    LET n == s.count + 1
        stray == n = 1 /\ (data \div 8) % 2 = 0
        recovery == Recovery(s.recovery, data)
        packet == IF stray THEN s.packet ELSE [s.packet EXCEPT ![n] = data]
    IN  [count    |-> IF stray \/ n = 3 \/ recovery = 2 THEN 0 ELSE n,
         recovery |-> IF recovery = 2 THEN -1 ELSE recovery,
         packet   |-> packet,
         sent     |-> IF n = 3 /\ recovery # 2 THEN Append(s.sent, packet) ELSE s.sent]

(* After any bytes without bit 3 every packet reaches genMouseMessage as   *)
(* it was sent, but one: the middle button down and no movement is taken   *)
(* for a mouse that was plugged in again.                                  *)
PacketsSound(lead, packets) ==
    FoldLeft(mouseintr, NoPacket, lead \o FlattenSeq(packets)).sent
        = SelectSeq(packets, LAMBDA p : p # <<12, 0, 0>>)
=============================================================================
