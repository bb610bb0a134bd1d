------------------------------ MODULE Console ------------------------------
(***************************************************************************)
(* kernel/console.c, uart.c: the console's input ring, edited by the       *)
(* keyboard and UART interrupts and read by processes, and the cursor of   *)
(* the text screen.  Characters are "c", "nl" and the control characters   *)
(* the interrupt handler treats apart.  Processes that write to the screen *)
(* and the handler that echoes move the same cursor.                       *)
(***************************************************************************)
EXTENDS Integers, Sequences

CONSTANTS Reader,
          INPUT_BUF,
          COLS, ROWS, TAB,    \* 80, 24 and 8: the screen that scrolls
          MaxRead,            \* the largest n of a read
          MaxKeys             \* characters typed

VARIABLES buf, r, w, e,       \* input
          pc, want,           \* per reader: state, bytes still wanted
          killed, pos, panicked,
          typed               \* the characters committed and not yet read, in order

vars == <<buf, r, w, e, pc, want, killed, pos, panicked, typed>>
readers == <<pc, want, killed>>

Init ==
    /\ buf = [i \in 0 .. INPUT_BUF - 1 |-> "none"] /\ r = 0 /\ w = 0 /\ e = 0
    /\ pc = [p \in Reader |-> "idle"] /\ want = [p \in Reader |-> 0]
    /\ killed = [p \in Reader |-> FALSE]
    /\ pos = 0 /\ panicked = FALSE /\ typed = <<>>

-----------------------------------------------------------------------------
(* The screen: where the cursor is after a character. *)
Moved(p, c) ==
    IF c = "nl" THEN p + COLS - (p % COLS)
    ELSE IF c = "BS" THEN IF p > 0 THEN p - 1 ELSE p
    ELSE p + 1

cgaputc(p, c) ==
    LET q == Moved(p, c) IN IF q \div COLS >= ROWS THEN q - COLS ELSE q

RECURSIVE Spaces(_, _)
Spaces(p, n) == IF n = 0 THEN p ELSE Spaces(cgaputc(p, "c"), n - 1)

consputc(p, c) == IF c = "tab" THEN Spaces(p, TAB - (p % TAB)) ELSE cgaputc(p, c)

RECURSIVE Erased(_, _)
Erased(p, n) == IF n = 0 THEN p ELSE Erased(consputc(p, "BS"), n - 1)

-----------------------------------------------------------------------------
(* consoleintr, one character per step, under input.lock. *)
At(i) == buf[i % INPUT_BUF]

(* ^U: back to the start of the uncommitted line. *)
RECURSIVE KillTo(_)
KillTo(x) == IF x = w \/ At(x - 1) = "nl" THEN x ELSE KillTo(x - 1)

KillLine ==
    /\ e' = KillTo(e)
    /\ pos' = Erased(pos, e - KillTo(e))
    /\ UNCHANGED <<buf, r, w, readers, panicked, typed>>

Backspace ==
    /\ e' = IF e # w THEN e - 1 ELSE e
    /\ pos' = IF e # w THEN consputc(pos, "BS") ELSE pos
    /\ UNCHANGED <<buf, r, w, readers, panicked, typed>>

(* ^D: show_disk_free reads the disk in the handler; it sleeps, with       *)
(* input.lock held, when a block is not at hand, and sched panics.         *)
DiskFree ==
    /\ panicked' \in BOOLEAN
    /\ UNCHANGED <<buf, r, w, e, readers, pos, typed>>

Woken == [p \in Reader |-> IF pc[p] = "asleep" THEN "ready" ELSE pc[p]]

(* Wrong: only a newline wakes the readers, a full ring does not. *)
StoreLineOnly(c) ==
    LET b == [buf EXCEPT ![e % INPUT_BUF] = c]
    IN  /\ e - r < INPUT_BUF
        /\ buf' = b /\ e' = e + 1
        /\ pos' = consputc(pos, c)
        /\ IF c = "nl"
           THEN /\ w' = e + 1 /\ pc' = Woken
                /\ typed' = typed \o [i \in 1 .. e + 1 - w |-> b[(w + i - 1) % INPUT_BUF]]
           ELSE UNCHANGED <<w, pc, typed>>
        /\ UNCHANGED <<r, want, killed, panicked>>

Store(c) ==
    LET b == [buf EXCEPT ![e % INPUT_BUF] = c]
    IN  /\ e - r < INPUT_BUF
        /\ buf' = b /\ e' = e + 1
        /\ pos' = consputc(pos, c)
        /\ IF c = "nl" \/ e + 1 = r + INPUT_BUF
           THEN /\ w' = e + 1 /\ pc' = Woken
                /\ typed' = typed \o [i \in 1 .. e + 1 - w |-> b[(w + i - 1) % INPUT_BUF]]
           ELSE UNCHANGED <<w, pc, typed>>
        /\ UNCHANGED <<r, want, killed, panicked>>

consoleintr ==
    /\ e < MaxKeys
    /\ \/ KillLine
       \/ Backspace
       \/ DiskFree
       \/ \E c \in {"c", "nl", "tab"} : Store(c)

-----------------------------------------------------------------------------
(* consoleread: it holds input.lock until it sleeps or returns. *)
RECURSIVE Taken(_, _)
Taken(i, n) ==
    IF n = 0 \/ i = w THEN <<>>
    ELSE IF At(i) = "nl" THEN <<"nl">>
    ELSE <<At(i)>> \o Taken(i + 1, n - 1)

Take(p, n) ==
    LET s == Taken(r, n)
        done == Len(s) = n \/ (s # <<>> /\ s[Len(s)] = "nl")
    IN  /\ r' = r + Len(s)
        /\ typed' = SubSeq(typed, Len(s) + 1, Len(typed))
        /\ want' = [want EXCEPT ![p] = IF done THEN 0 ELSE n - Len(s)]
        /\ pc' = [pc EXCEPT ![p] =
                    IF done THEN "idle" ELSE IF killed[p] THEN "failed" ELSE "asleep"]
        /\ UNCHANGED <<buf, w, e, killed, pos, panicked>>

Read == \E p \in Reader, n \in 1 .. MaxRead : pc[p] = "idle" /\ Take(p, n)

Resume == \E p \in Reader : pc[p] = "ready" /\ Take(p, want[p])

Kill ==
    \E p \in Reader :
        /\ ~killed[p]
        /\ killed' = [killed EXCEPT ![p] = TRUE]
        /\ pc' = [pc EXCEPT ![p] = IF @ = "asleep" THEN "ready" ELSE @]
        /\ UNCHANGED <<buf, r, w, e, want, pos, panicked, typed>>

(* consolewrite and cprintf move the cursor under cons.lock. *)
consolewrite ==
    /\ \E c \in {"c", "nl", "tab", "BS"} : pos' = consputc(pos, c)
    /\ UNCHANGED <<buf, r, w, e, readers, panicked, typed>>

Next == ~panicked /\ (consoleintr \/ Read \/ Resume \/ Kill \/ consolewrite)

-----------------------------------------------------------------------------
(* The bytes between the reader and the edit index never outgrow the ring, *)
(* and what is committed is read as it was typed.                          *)
RingSound ==
    /\ r <= w /\ w <= e /\ e - r <= INPUT_BUF
    /\ typed = [i \in 1 .. w - r |-> At(r + i - 1)]

(* A reader sleeps only while there is nothing committed, so neither a     *)
(* newline nor a full ring can leave it behind, and a full ring is always  *)
(* committed: editing cannot block the line.                               *)
ReaderAwake ==
    /\ \A p \in Reader : pc[p] = "asleep" => r = w
    /\ e - r = INPUT_BUF => w > r

(* The cursor stays on the rows that scroll. *)
CursorOnScreen == pos \in 0 .. COLS * ROWS - 1
=============================================================================
