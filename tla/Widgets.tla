------------------------------ MODULE Widgets ------------------------------
(***************************************************************************)
(* The widgets of a window: ulib/user_window.c (the list of widgets),      *)
(* ulib/user_handler.c (editing an input field) and the programs user/     *)
(* shell.c, user/explorer.c and user/editor.c, one of which runs.  A       *)
(* widget is a slot with a type; -1 ends the list, a slot whose links      *)
(* point to itself is free.  A text is a sequence of "c" and "n" (a        *)
(* newline).  Scrolling is left out.                                       *)
(***************************************************************************)
EXTENDS Integers, Sequences, FiniteSets

CONSTANTS MAX_WIDGET_SIZE,
          charPerLine,        \* the width of the field in characters
          CW, CH,             \* CHARACTER_WIDTH, CHARACTER_HEIGHT
          MaxText,            \* the length of the text stays below MAX_LONG_STRLEN
          MaxFiles            \* entries in a directory explorer lists

VARIABLES prog,               \* the program the window belongs to
          prev, next, head, tail, type,
          keyfocus,           \* the widget that gets the keys
          full,               \* some addWidget has found no free slot
          text, current_pos   \* the input field that is being edited

list == <<prog, prev, next, head, tail, type, keyfocus, full>>
field == <<text, current_pos>>
vars == <<list, field>>

Slots == 0 .. MAX_WIDGET_SIZE - 1

-----------------------------------------------------------------------------
(* The list, as a record l with the fields p, n, h, t (prev, next, head,   *)
(* tail) and y (type).                                                     *)
Free(l) == {i \in Slots : l.p[i] = i /\ l.n[i] = i}

findNextAvailable(l) ==
    IF Free(l) = {} THEN -1 ELSE CHOOSE i \in Free(l) : \A j \in Free(l) : i <= j

addToWidgetListTail(l, i) ==
    [l EXCEPT !.p[i] = l.t,
              !.n = [j \in Slots |-> IF j = i THEN -1 ELSE IF j = l.t THEN i ELSE l.n[j]],
              !.t = i]

addWidget(l, ty) ==
    LET i == findNextAvailable(l)
    IN  IF i = -1 THEN l
        ELSE addToWidgetListTail([l EXCEPT !.h = IF @ = -1 THEN i ELSE @, !.y[i] = ty], i)

addColorFillWidget(l) == addWidget(l, "COLORFILL")

addTextWidget(l) == addWidget(l, "TEXT")

addInputFieldWidget(l) == addWidget(l, "INPUTFIELD")

addButtonWidget(l) == addWidget(l, "BUTTON")

(* Nothing is added when the picture's file cannot be opened. *)
add_image(l, opened) == IF opened THEN addWidget(l, "IMAGE") ELSE l

(* The new head is the successor of the tail: right only when i is alone,  *)
(* or is not the head.                                                     *)
removeFromWidgetList(l, i) ==
    LET h == IF l.h = i THEN l.n[l.t] ELSE l.h
        t == IF l.t = i THEN l.p[l.t] ELSE l.t
        n == [j \in Slots |-> IF j = i THEN i ELSE IF j = l.p[i] THEN l.n[i] ELSE l.n[j]]
        p == [j \in Slots |-> IF j = i THEN i ELSE IF j = l.n[i] THEN l.p[i] ELSE l.p[j]]
    IN  [l EXCEPT !.h = h, !.t = t, !.n = n, !.p = p]

removeWidget(l, i) == IF i \in Slots \ Free(l) THEN removeFromWidgetList(l, i) ELSE l

List == [p |-> prev, n |-> next, h |-> head, t |-> tail, y |-> type]

SetList(l) ==
    UNCHANGED prog /\ prev' = l.p /\ next' = l.n /\ head' = l.h /\ tail' = l.t /\ type' = l.y

create_window ==
    /\ prog \in {"shell", "explorer", "editor"}
    /\ prev = [i \in Slots |-> i] /\ next = [i \in Slots |-> i] /\ head = -1 /\ tail = -1
    /\ type = [i \in Slots |-> "none"]
    /\ keyfocus = -1 /\ full = FALSE
    /\ text = <<>> /\ current_pos = 0

RECURSIVE Forward(_, _)
Forward(l, i) == IF i = -1 THEN <<>> ELSE <<i>> \o Forward(l, l.n[i])

RECURSIVE Backward(_, _)
Backward(l, i) == IF i = -1 THEN <<>> ELSE Backward(l, l.p[i]) \o <<i>>

-----------------------------------------------------------------------------
(* The widgets each program starts with. *)
Main ==
    /\ head = -1
    /\ LET bg == addColorFillWidget(List)
           l  == IF prog = "explorer" THEN bg ELSE addInputFieldWidget(bg)
       IN  /\ SetList(IF prog = "editor" THEN addButtonWidget(l) ELSE l)
           /\ keyfocus' = IF prog = "explorer" THEN -1 ELSE l.t
    /\ UNCHANGED <<full, field>>

(* shell.c, a newline in inputHandler: the command and its output replace  *)
(* the input field, and a new one follows.                                 *)
Added(l) == findNextAvailable(l) # -1

inputHandler ==
    /\ prog = "shell"
    /\ keyfocus # -1 /\ type[keyfocus] = "INPUTFIELD"
    /\ text # <<>>
    /\ LET l1 == removeWidget(List, keyfocus)
           l2 == addTextWidget(l1)
           l3 == addTextWidget(l2)
           l4 == addInputFieldWidget(l3)
       IN  /\ SetList(l4)
           /\ keyfocus' = IF Added(l3) THEN l4.t ELSE keyfocus
           /\ full' = ~(Added(l1) /\ Added(l2) /\ Added(l3))
    /\ text' = <<>> /\ current_pos' = 0

(* explorer.c: gui_ls removes the texts one by one and lists a directory   *)
(* of k entries, an image and a text for each.                             *)
RECURSIVE WithoutTexts(_)
WithoutTexts(l) ==
    LET ts == SelectSeq(Forward(l, l.h), LAMBDA i : l.y[i] = "TEXT")
    IN  IF ts = <<>> THEN l ELSE WithoutTexts(removeWidget(l, ts[1]))

RECURSIVE Entries(_, _, _)
Entries(l, k, icon) == IF k = 0 THEN l
                       ELSE Entries(addTextWidget(add_image(l, icon)), k - 1, icon)

gui_ls ==
    /\ prog = "explorer"
    /\ head # -1
    /\ \E k \in 0 .. MaxFiles, icon \in BOOLEAN :
        LET l == Entries(WithoutTexts(List), k, icon)
        IN  /\ SetList(l)
            /\ full' = (full \/ Free(l) = {})
    /\ UNCHANGED <<keyfocus, field>>

-----------------------------------------------------------------------------
(* The input field: the cell of a position, and the position of a cell. *)
Below(c, xy) ==
    IF c # "n" /\ xy[1] + 1 <= charPerLine THEN <<xy[1] + 1, xy[2]>> ELSE <<0, xy[2] + 1>>

RECURSIVE Cell(_, _)
Cell(str, n) == IF n = 0 THEN <<0, 0>> ELSE Below(str[n], Cell(str, n - 1))

getMouseXFromOffset(str, offset) == Cell(str, offset)[1]

getMouseYFromOffset(str, offset) == Cell(str, offset)[2]

(* The first position in that cell, else the last one on the line unless   *)
(* it is 0, else the end.                                                  *)
getInputOffsetFromMousePosition(str, x, y) ==
    LET hit  == {i \in 0 .. Len(str) - 1 : Cell(str, i) = <<x, y>>}
        line == {i \in 0 .. Len(str) - 1 : Cell(str, i)[2] = y}
        last == IF line = {} THEN 0 ELSE CHOOSE i \in line : \A j \in line : j <= i
    IN  IF y < 0 THEN 0
        ELSE IF hit # {} THEN CHOOSE i \in hit : TRUE
        ELSE IF last > 0 THEN last
        ELSE Len(str)

(* drawInputFieldWidget: where the cursor is drawn, in pixels, in a field  *)
(* that is high enough and charPerLine characters wide.                    *)
RECURSIVE Drawn(_, _)
Drawn(str, n) ==
    IF n = 0 THEN <<0, 0>>
    ELSE LET d == Drawn(str, n - 1)
         IN  IF str[n] # "n" /\ d[1] + CW <= charPerLine * CW THEN <<d[1] + CW, d[2]>>
             ELSE <<0, d[2] + CH>>

drawInputFieldWidget == Drawn(text, current_pos)

Edit(t, p) == text' = t /\ current_pos' = p /\ UNCHANGED list

Insert ==
    /\ Len(text) < MaxText
    /\ \E c \in IF prog = "shell" /\ text # <<>> THEN {"c"} ELSE {"c", "n"} :
        Edit(SubSeq(text, 1, current_pos) \o <<c>> \o SubSeq(text, current_pos + 1, Len(text)),
             current_pos + 1)

Left == current_pos > 0 /\ Edit(text, current_pos - 1)

Right == current_pos < Len(text) /\ Edit(text, current_pos + 1)

UpDown ==
    \E dy \in {-1, 1} :
        Edit(text, getInputOffsetFromMousePosition(text, getMouseXFromOffset(text, current_pos),
                                                   getMouseYFromOffset(text, current_pos) + dy))

Delete ==
    /\ current_pos > 0
    /\ Edit(SubSeq(text, 1, current_pos - 1) \o SubSeq(text, current_pos + 1, Len(text)),
            current_pos - 1)

inputFieldKeyHandler == Insert \/ Left \/ Right \/ UpDown \/ Delete

inputMouseLeftClickHandler ==
    \E x \in 0 .. charPerLine, y \in 0 .. MaxText :
        Edit(text, getInputOffsetFromMousePosition(text, x, y))

(* updateWindow: the keys go to the focused widget, whose handler edits    *)
(* only in an input field; a click on an input field also focuses it.      *)
updateWindow ==
    /\ keyfocus # -1
    /\ \/ type[keyfocus] = "INPUTFIELD" /\ (inputHandler \/ inputFieldKeyHandler)
       \/ /\ \E p \in Slots \ Free(List) : type[p] = "INPUTFIELD"
          /\ inputMouseLeftClickHandler

Init == create_window

Next == Main \/ gui_ls \/ updateWindow

-----------------------------------------------------------------------------
(* The list read forwards is the list read backwards, holds every widget   *)
(* in use once and starts with the background.                             *)
WidgetListSound ==
    LET f == Forward(List, head)
    IN  /\ f = Backward(List, tail)
        /\ {f[i] : i \in 1 .. Len(f)} = Slots \ Free(List)
        /\ Len(f) = Cardinality(Slots \ Free(List))
        /\ f # <<>> => type[f[1]] = "COLORFILL"

(* Until a window runs out of slots, the keys go to an input field that is *)
(* on the list.                                                            *)
KeysReachInput ==
    keyfocus # -1 /\ ~full => keyfocus \notin Free(List) /\ type[keyfocus] = "INPUTFIELD"

(* The cursor is in the text and is drawn in its own cell; a click on the  *)
(* cell of a character puts the cursor on that character.                  *)
CursorSound ==
    /\ current_pos \in 0 .. Len(text)
    /\ drawInputFieldWidget =
         <<CW * getMouseXFromOffset(text, current_pos), CH * getMouseYFromOffset(text, current_pos)>>
    /\ \A i \in 0 .. Len(text) - 1 :
        getInputOffsetFromMousePosition(text, Cell(text, i)[1], Cell(text, i)[2]) = i
=============================================================================
