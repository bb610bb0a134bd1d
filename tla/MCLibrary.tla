----------------------------- MODULE MCLibrary -----------------------------
(***************************************************************************)
(* The small state machines of the system, each on its own: the initial    *)
(* state picks one of them, and only that one moves.  So the states of the *)
(* components add up and do not multiply.  One of the parts is the         *)
(* functions of MCFunctions, whose states are their inputs.                *)
(***************************************************************************)
EXTENDS MCFunctions, TLC

CONSTANTS Sizes, More, Ceiling                                   \* Umalloc
CONSTANTS HashKeys, Values, INITIAL_CAPACITY, MaxCapacity        \* HashTable
CONSTANTS MaxBytes                                               \* Keyboard
CONSTANTS Reader, INPUT_BUF, COLS, ROWS, TAB, MaxRead, MaxKeys   \* Console
CONSTANTS MAX_WIDGET_SIZE, charPerLine, CellW, CellH, MaxText, MaxFiles \* Widgets
CONSTANTS Inodes, BSIZE, NDIRECT, NINDIRECT, usedblocks, nblocks, nlog,
          Lengths, MaxAppends, MaxOps                            \* DiskImage
CONSTANTS CPU, Lock, NULL                                        \* Spinlock
CONSTANTS LeftWall, RightWall, TopWall, BottomWall, StartX, StartY \* Game

VARIABLES part                                                   \* the one that moves
VARIABLES ptr, size, freep, brk, held, failed
VARIABLES entries, capacity, length, content
VARIABLES down, wire, shift, sent, caps
VARIABLES buf, r, w, e, pc, want, killed, pos, panicked, typed
VARIABLES prog, prev, next, head, tail, type, keyfocus, full, text, current_pos
VARIABLES sh, tree, procs, executed
VARIABLES disk, mounted, file, ops
VARIABLES locked, cpu, FL_IF, ncli, intena, frames, halted
VARIABLES ring, taken, put, pending, stored, x, y, curdir, moves, food, alive

heap == <<ptr, size, freep, brk, held, failed>>
table == <<entries, capacity, length, content>>
keyboard == <<down, wire, shift, sent, caps>>
console == <<buf, r, w, e, pc, want, killed, pos, panicked, typed>>
widgets == <<prog, prev, next, head, tail, type, keyfocus, full, text, current_pos>>
shell == <<sh, tree, procs, executed>>
image == <<disk, mounted, file, ops>>
locks == <<locked, cpu, FL_IF, ncli, intena, frames, halted>>
game == <<ring, taken, put, pending, stored, x, y, curdir, moves, food, alive>>

(* Keys with equal hashes, hashes that differ by a multiple of the         *)
(* capacity, and a chain that wraps around the end of the table.           *)
Hash == (1 :> 3) @@ (2 :> 3) @@ (3 :> 2) @@ (4 :> 7) @@ (5 :> 11)

(* Commands with two levels of redirections, pipes, lists and &, and one   *)
(* that bash runs itself and that opens a window in the graphical shell.   *)
Internal == {<<"b">>}

GUI_programs == {<<"b">>}

Simple(word) == [type |-> "EXEC", argv |-> <<word>>]

Grow(C) ==
    C \cup {[type |-> "REDIR", cmd |-> c, file |-> <<"f">>, fd |-> i] : c \in C, i \in {0, 1}}
      \cup {[type |-> k, left |-> c, right |-> d] : k \in {"PIPE", "LIST"}, c \in C, d \in C}
      \cup {[type |-> "BACK", cmd |-> c] : c \in C}

Trees == Grow(Grow({Simple(<<"a">>)}))
         \cup {Simple(<<"b">>),
               [type |-> "PIPE", left |-> Simple(<<"b">>), right |-> Simple(<<"a">>)]}

Heap == INSTANCE Umalloc
Table == INSTANCE HashTable
Kbd == INSTANCE Keyboard
Cons == INSTANCE Console
Win == INSTANCE Widgets WITH CW <- CellW, CH <- CellH
Sh == INSTANCE Shell
Image == INSTANCE DiskImage
Locks == INSTANCE Spinlock WITH panicked <- halted
Snake == INSTANCE Game WITH buf <- ring, r <- taken, e <- put

-----------------------------------------------------------------------------
Init ==
    /\ part \in {"heap", "table", "keyboard", "console", "widgets", "shell", "image",
                 "locks", "game", "functions"}
    /\ Heap!Init /\ Table!Init /\ Kbd!Init /\ Cons!Init /\ Image!Init /\ Locks!Init
    /\ InitArg
    /\ Win!Init /\ (part # "widgets" => prog = "shell")
    /\ Snake!Init /\ (part # "game" => food = Snake!draw_food(0, 0))
    /\ Sh!Init /\ (part # "shell" => sh = "sh" /\ tree = Simple(<<"a">>))

Devices == <<keyboard, console, image, locks>>

User == <<heap, table, widgets, shell, game, arg>>

HeapStep == part = "heap" /\ Heap!Next
            /\ UNCHANGED <<Devices, table, widgets, shell, game, arg>>

TableStep == part = "table" /\ Table!Next
             /\ UNCHANGED <<Devices, heap, widgets, shell, game, arg>>

WindowStep == part = "widgets" /\ Win!Next
              /\ UNCHANGED <<Devices, heap, table, shell, game, arg>>

ShellStep == part = "shell" /\ Sh!Next
             /\ UNCHANGED <<Devices, heap, table, widgets, game, arg>>

GameStep == part = "game" /\ Snake!Next
            /\ UNCHANGED <<Devices, heap, table, widgets, shell, arg>>

FunctionStep == part = "functions" /\ NextArg
                /\ UNCHANGED <<Devices, heap, table, widgets, shell, game>>

KeyboardStep == part = "keyboard" /\ Kbd!Next
                /\ UNCHANGED <<User, console, image, locks>>

ConsoleStep == part = "console" /\ Cons!Next
               /\ UNCHANGED <<User, keyboard, image, locks>>

ImageStep == part = "image" /\ Image!Next
             /\ UNCHANGED <<User, keyboard, console, locks>>

LockStep == part = "locks" /\ Locks!Next
            /\ UNCHANGED <<User, keyboard, console, image>>

Next ==
    /\ UNCHANGED part
    /\ \/ HeapStep \/ TableStep \/ WindowStep \/ ShellStep \/ GameStep
       \/ KeyboardStep \/ ConsoleStep \/ ImageStep \/ LockStep
       \/ FunctionStep

Spec == Init /\ [][Next]_<<part, Devices, User>>

-----------------------------------------------------------------------------
(***************************************************************************)
(* The stores of the user library.  umalloc.c: whatever order blocks are   *)
(* taken and freed in, every unit below the break is in exactly one block, *)
(* free neighbours are joined, the list is in the order of addresses, and  *)
(* malloc fails only when no free block is large enough.  hashtable.c:     *)
(* ht_get answers every key as a map would, across collisions, expansions  *)
(* and failed expansions, and a search always meets an empty slot.         *)
(***************************************************************************)
StoresSound ==
    /\ part = "heap" => Heap!HeapPartition /\ Heap!Coalesced /\ Heap!FailsWhenFull
    /\ part = "table" => Table!IsMap /\ Table!RoomToProbe

(***************************************************************************)
(* What is typed.  kbd.c: no modifier is stuck once all keys are up.       *)
(* console.c: the ring never overflows, what is committed is read as it    *)
(* was typed, no reader sleeps while something is committed, a full ring   *)
(* is committed, the cursor stays on the screen.  user_window.c: the list  *)
(* of widgets is the same in both directions, the keys go to an input      *)
(* field, its cursor stays in the text and a click finds its character.    *)
(* snake.c and getkey: the snake stays between the walls and never turns   *)
(* back on itself, also when getkey reads a key before it is stored.       *)
(***************************************************************************)
InputSound ==
    /\ part = "keyboard" => Kbd!ModifiersFollowKeys
    /\ part = "console" => Cons!RingSound /\ Cons!ReaderAwake /\ Cons!CursorOnScreen
    /\ part = "widgets" => Win!WidgetListSound /\ Win!KeysReachInput /\ Win!CursorSound
    /\ part = "game" => Snake!GameSound

(***************************************************************************)
(* runcmd of the three shells: every program starts with the input and     *)
(* the output its command names and holds no other end of a pipe, and      *)
(* until the shell prompts again some process can go on (the graphical one *)
(* reads the command's output to its end before), also when fork,          *)
(* pipe, open or exec fails on the way.                                    *)
(***************************************************************************)
ShellSound == part = "shell" => Sh!Wired /\ Sh!ShellReturns

(***************************************************************************)
(* mkfs.c and fs.c: what readi returns is what mkfs and writei wrote, the  *)
(* bitmap marks the metadata and the blocks of the files and nothing else, *)
(* and no block has two owners, after any sequence of appends, writes,     *)
(* truncations and reads.                                                  *)
(***************************************************************************)
ImageSound == part = "image" => Image!FilesKept /\ Image!BitmapExact

(***************************************************************************)
(* spinlock.c: a lock has one holder, no context spins on a lock its own   *)
(* processor holds, and the interrupt flag is restored when the last lock  *)
(* is released, with interrupts taken between any two steps.  SpinInv is   *)
(* the inductive invariant the proofs of the two rest on.                  *)
(***************************************************************************)
LocksSound == part = "locks" => Locks!Exclusion /\ Locks!FlagRestored /\ Locks!SpinInv
=============================================================================
