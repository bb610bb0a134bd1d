-------------------------------- MODULE Game --------------------------------
(***************************************************************************)
(* user/snake.c and the key ring of the graphics mode it plays from        *)
(* (kernel/graphics.c and kernel/bga.c: graphicsintr fills it under the    *)
(* lock, getkey takes no lock).  `buf[e++ % INPUT_BUF] = c` leaves the     *)
(* order of its two stores to the compiler, and getkey can run between     *)
(* them on another processor: Deposit and Advance come in either order.    *)
(***************************************************************************)
EXTENDS Integers

CONSTANTS
    LeftWall, RightWall,    \* columns 99 and 539
    TopWall, BottomWall,    \* rows 74 and 405
    StartX, StartY,         \* 320 and 240
    INPUT_BUF,              \* 128
    MaxKeys                 \* bound on the keys pressed

VARIABLES
    buf, r, e,      \* the key ring
    pending,        \* the key graphicsintr is storing, 0 for none
    stored,         \* whether its byte, "buf", or its index, "e", is written
    x, y, curdir,   \* the snake
    moves,          \* the directions of its last two moves
    food,           \* where draw_food drew
    alive

vars == <<buf, r, e, pending, stored, x, y, curdir, moves, food, alive>>

KEY_RT == -27
KEY_LF == -28
KEY_DN == -29
KEY_UP == -30
Other == 97                                          \* any other key
Arrows == {KEY_RT, KEY_LF, KEY_DN, KEY_UP}
Keys == Arrows \cup {Other}

Opposite(d) == CASE d = KEY_RT -> KEY_LF [] d = KEY_LF -> KEY_RT
                 [] d = KEY_DN -> KEY_UP [] d = KEY_UP -> KEY_DN

(* The square draw_food fills, for a value of the random state: xfood++    *)
(* leaves the old value in xxfood.                                         *)
draw_food(rx, ry) ==
    LET xxfood == LeftWall + 1 + (rx % (RightWall - LeftWall - 2))
        yyfood == TopWall + 1 + (ry % (BottomWall - TopWall - 2))
    IN  (xxfood .. xxfood + 1) \X (yyfood .. yyfood + 1)

Init ==
    /\ buf = [i \in 0..(INPUT_BUF - 1) |-> 0] /\ r = 0 /\ e = 0
    /\ pending = 0 /\ stored = {}
    /\ x = StartX /\ y = StartY /\ curdir = KEY_UP /\ moves = <<KEY_UP, KEY_UP>>
    /\ food \in {draw_food(i, i) : i \in 0..20}
    /\ alive = TRUE

-----------------------------------------------------------------------------
Snake == <<x, y, curdir, moves, food, alive>>

Room == e - r < INPUT_BUF

(* graphicsintr: a key that finds the ring full is dropped. *)
graphicsintr ==
    /\ pending = 0 /\ e < MaxKeys /\ Room
    /\ pending' \in Keys
    /\ stored' = {}
    /\ UNCHANGED <<buf, r, e, Snake>>

Written(s) == IF s = {"buf", "e"} THEN pending' = 0 /\ stored' = {}
                                  ELSE pending' = pending /\ stored' = s

Deposit ==
    /\ pending # 0 /\ "buf" \notin stored
    /\ buf' = [buf EXCEPT ![(IF "e" \in stored THEN e - 1 ELSE e) % INPUT_BUF] = pending]
    /\ Written(stored \cup {"buf"})
    /\ UNCHANGED <<r, e, Snake>>

Advance ==
    /\ pending # 0 /\ "e" \notin stored
    /\ e' = e + 1
    /\ Written(stored \cup {"e"})
    /\ UNCHANGED <<buf, r, Snake>>

-----------------------------------------------------------------------------
(* A key is followed unless it is the opposite of the direction the snake  *)
(* moves in; once another key was followed no direction is left to turn    *)
(* from.                                                                   *)
Turn(k) == IF curdir \in Arrows /\ k # Opposite(curdir) THEN k ELSE curdir

draw_snake(d) ==
    /\ curdir' = d
    /\ x' = x + (CASE d = KEY_RT -> 1 [] d = KEY_LF -> -1 [] OTHER -> 0)
    /\ y' = y + (CASE d = KEY_DN -> 1 [] d = KEY_UP -> -1 [] OTHER -> 0)
    /\ alive' = ~ \/ d = KEY_RT /\ x' >= RightWall
                  \/ d = KEY_LF /\ x' <= LeftWall
                  \/ d = KEY_DN /\ y' >= BottomWall
                  \/ d = KEY_UP /\ y' <= TopWall
    /\ moves' = IF d \in Arrows THEN <<moves[2], d>> ELSE moves
    /\ UNCHANGED <<food, buf, e, pending, stored>>

(* One turn of the loop of main: getkey, then a move; -1 is no key. *)
main ==
    /\ alive
    /\ IF r = e
       THEN draw_snake(curdir) /\ r' = r
       ELSE draw_snake(Turn(buf[r % INPUT_BUF])) /\ r' = r + 1

Next == graphicsintr \/ Deposit \/ Advance \/ main

Spec == Init /\ [][Next]_vars

-----------------------------------------------------------------------------
(***************************************************************************)
(* Whatever keys arrive, a byte getkey read before it was stored included, *)
(* the snake never turns back on itself, it is between the walls as long   *)
(* as it lives and on a wall when it dies, the food is inside the walls    *)
(* and the ring never holds more than INPUT_BUF keys.                      *)
(***************************************************************************)
GameSound ==
    /\ alive => x \in (LeftWall + 1)..(RightWall - 1) /\ y \in (TopWall + 1)..(BottomWall - 1)
    /\ ~alive => x \in {LeftWall, RightWall} \/ y \in {TopWall, BottomWall}
    /\ food \subseteq ((LeftWall + 1)..(RightWall - 1)) \X ((TopWall + 1)..(BottomWall - 1))
    /\ moves[2] # Opposite(moves[1])
    /\ r <= e /\ e - r <= INPUT_BUF
=============================================================================
