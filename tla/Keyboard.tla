------------------------------ MODULE Keyboard ------------------------------
(***************************************************************************)
(* kernel/kbd.c: scan codes to characters.  The keyboard (external) sends  *)
(* one code when a key goes down and one when it goes up, with an 0xE0     *)
(* byte before those of the keys in E0Key.  The bits of "shift" are a set. *)
(***************************************************************************)
EXTENDS Integers, Sequences

CONSTANTS MaxBytes    \* bytes the controller holds before the handler runs

VARIABLES down,       \* keys that are down
          wire,       \* bytes sent and not yet read
          shift,      \* kbdgetc's static shift
          sent,       \* the last key: <<character for the window, for the console, shift>>
          caps        \* how often caps lock went down, modulo 2

vars == <<down, wire, shift, sent, caps>>

Plain == [code |-> "A", e0 |-> FALSE]
LShift == [code |-> "LSHIFT", e0 |-> FALSE]
RShift == [code |-> "RSHIFT", e0 |-> FALSE]
LCtl == [code |-> "CTL", e0 |-> FALSE]
RCtl == [code |-> "CTL", e0 |-> TRUE]
Caps == [code |-> "CAPS", e0 |-> FALSE]
Keys == {Plain, LShift, RShift, LCtl, RCtl, Caps}

E0 == [code |-> "E0", up |-> FALSE]

(* The tables of kbd.h, for these keys. *)
shiftcode(code) ==
    IF code \in {"LSHIFT", "RSHIFT"} THEN {"SHIFT"} ELSE IF code = "CTL" THEN {"CTL"} ELSE {}

togglecode(code) == IF code = "CAPS" THEN {"CAPSLOCK"} ELSE {}

charcode(mods, code) ==
    IF code # "A" THEN "NO"
    ELSE IF "CTL" \in mods THEN "^A" ELSE IF "SHIFT" \in mods THEN "A" ELSE "a"

Swapped(c) == IF c = "a" THEN "A" ELSE IF c = "A" THEN "a" ELSE c

(* The device. *)
Send(key, up) ==
    /\ Len(wire) + 2 <= MaxBytes
    /\ wire' = wire \o (IF key.e0 THEN <<E0>> ELSE <<>>) \o <<[code |-> key.code, up |-> up]>>

Press ==
    \E key \in Keys \ down :
        /\ Send(key, FALSE)
        /\ down' = down \cup {key}
        /\ caps' = IF key = Caps THEN 1 - caps ELSE caps
        /\ UNCHANGED <<shift, sent>>

Release ==
    \E key \in down :
        /\ Send(key, TRUE) /\ down' = down \ {key}
        /\ UNCHANGED <<shift, sent, caps>>

(* One call of kbdgetc. *)
GotEscape ==
    /\ Head(wire) = E0
    /\ shift' = shift \cup {"E0ESC"}
    /\ UNCHANGED sent

KeyUp == shift \ (shiftcode(Head(wire).code) \cup {"E0ESC"})

GotUp ==
    /\ Head(wire) # E0 /\ Head(wire).up
    /\ shift' = KeyUp
    /\ UNCHANGED sent

Toggled(s, t) == (s \ t) \cup (t \ s)

GotDown ==
    /\ Head(wire) # E0 /\ ~Head(wire).up
    /\ LET code == Head(wire).code
           s    == Toggled((shift \ {"E0ESC"}) \cup shiftcode(code), togglecode(code))
           gui  == charcode(IF s = {"SHIFT"} THEN {"SHIFT"} ELSE {}, code)
           c    == charcode(s \cap {"CTL", "SHIFT"}, code)
       IN  /\ shift' = s
           /\ sent' = <<gui, IF "CAPSLOCK" \in s THEN Swapped(c) ELSE c, s>>

kbdgetc ==
    /\ wire # <<>>
    /\ GotEscape \/ GotUp \/ GotDown
    /\ wire' = Tail(wire)
    /\ UNCHANGED <<down, caps>>

Init == down = {} /\ wire = <<>> /\ shift = {} /\ sent = <<>> /\ caps = 0

Next == Press \/ Release \/ kbdgetc

(* Once every key is up and every byte is read no modifier is stuck, and   *)
(* caps lock is what its key made it; a window is sent the character the   *)
(* console gets unless control or caps lock is on.                         *)
ModifiersFollowKeys ==
    /\ wire = <<>> /\ down = {} => shift = IF caps = 1 THEN {"CAPSLOCK"} ELSE {}
    /\ sent # <<>> /\ sent[3] \subseteq {"SHIFT"} => sent[1] = sent[2]
=============================================================================
