---------------------------- MODULE WindowManager ----------------------------
(***************************************************************************)
(* kernel/window_manager.c with its users: the mouse driver and the        *)
(* keyboard (kernel/mouse.c, kernel/kbd.c), which send it messages from    *)
(* interrupts, and the programs, which run the loops of ulib/user_window.c *)
(* (updateWindow, updatePopupWindow, the desktop's main).                  *)
(*                                                                         *)
(* Every function of the window manager runs under wmlock and is one step. *)
(* Where the pointer is, and which windows lie under it, is chosen freely  *)
(* for every press: windows can be dragged anywhere.                       *)
(***************************************************************************)
EXTENDS Integers, Sequences, FiniteSets, SequencesExt

CONSTANTS
  App,              \* programs with a window, besides the desktop
  Starter,          \* processes that run startWindow, which opens the popup
  MAX_WINDOW_CNT,
  MSG_BUF_SIZE,
  Buttons,          \* values of the button bits a packet may have
  MaxEvents         \* bound: mouse packets, keys and programs started

Win == 0 .. MAX_WINDOW_CNT - 1
None == -1
POPUP == MAX_WINDOW_CNT    \* the popup's queue is the last one
Desktop == "desktop"

ASSUME WindowAssumption ==
  /\ MAX_WINDOW_CNT \in Nat \ {0} /\ MSG_BUF_SIZE \in Nat \ {0}
  /\ 0 \in Buttons /\ Desktop \notin App \cup Starter

VARIABLES
  wm,       \* window_manager.c's static data, a record
  mouse,    \* mouse.c: lastbtn; whether lastdowntick, lastclicktick are set
  irq,      \* the messages the driver's interrupt has still to send
  st,       \* per process: "off", "run", or the message it is handling
  win,      \* per program: the handler its window structure holds
  seen,     \* per starter: the desktop's queue as sys_GUI_select_style read it
  hung,     \* a traversal of the list goes round for ever, with wmlock held
  headClosed,    \* history: a window was closed while it was the list's head
  events

procs == <<st, win, seen>>
vars == <<wm, mouse, irq, procs, hung, headClosed, events>>

-----------------------------------------------------------------------------
(* The queues, msg_buf: a ring with its count. *)
initMessageQueue == [front |-> 0, rear |-> 0, cnt |-> 0,
                     data |-> [i \in 0 .. MSG_BUF_SIZE - 1 |-> "INPUT"]]

NextSlot(i) == (i + 1) % MSG_BUF_SIZE

(* Input messages but the left click differ only in what the program's     *)
(* widgets do with them.                                                   *)
Payload(m) == IF m \in {"MOVE", "DOWN", "UP", "RIGHT", "DBCLICK", "KEY"} THEN "INPUT" ELSE m

(* Wrong: a full queue is not tested for. *)
dispatchNoTest(s, w, m) ==
  IF w = None THEN s
  ELSE LET b == s.buf[w] IN
       [s EXCEPT !.buf[w] = [b EXCEPT !.cnt = @ + 1, !.data[b.rear] = Payload(m), !.rear = NextSlot(@)]]

(* A message for a full queue is dropped.  Window -1, when there is none,  *)
(* is memory before the array.                                             *)
dispatchMessage(s, w, m) ==
  IF w = None \/ s.buf[w].cnt >= MSG_BUF_SIZE THEN s
  ELSE LET b == s.buf[w] IN
       [s EXCEPT !.buf[w] = [b EXCEPT !.cnt = @ + 1, !.data[b.rear] = Payload(m), !.rear = NextSlot(@)]]

(* getMessage: the message, and the queue without it. *)
First(s, w) == s.buf[w].data[s.buf[w].front]
getMessage(s, w) == [s EXCEPT !.buf[w] = [@ EXCEPT !.cnt = @ - 1, !.front = NextSlot(@)]]

-----------------------------------------------------------------------------
(* The list.  A slot is free when it points to itself. *)
InUse(s) == {w \in Win : ~(s.prev[w] = w /\ s.next[w] = w)}

(* A link of slot i is set; slot -1 is memory before the array. *)
Link(f, i, v) == [j \in Win |-> IF j = i THEN v ELSE f[j]]

addToWindowList(s, w) ==
  [s EXCEPT !.prev = Link(@, w, s.tail), !.next = Link(Link(@, w, None), s.tail, w), !.tail = w]

removeFromWindowList(s, w) ==
  LET s1 == [s EXCEPT !.tail = IF @ = w THEN s.prev[w] ELSE @]
      s2 == IF s1.prev[w] # None THEN [s1 EXCEPT !.next[s1.prev[w]] = s1.next[w]] ELSE s1
  IN IF s2.next[w] # None THEN [s2 EXCEPT !.prev[s2.next[w]] = s2.prev[w]] ELSE s2

(* Wrong: the new head of the list keeps its prev. *)
focusKeepsPrev(s, w) ==
  IF w = None \/ w = s.tail THEN s
  ELSE addToWindowList(IF w = s.head THEN [s EXCEPT !.head = s.next[w]]
                       ELSE [s EXCEPT !.next = Link(@, s.prev[w], s.next[w]),
                                      !.prev = Link(@, s.next[w], s.prev[w])], w)

focusWindow(s, w) ==
  IF w = None \/ w = s.tail THEN s
  ELSE addToWindowList(IF w = s.head
                       THEN [s EXCEPT !.prev = Link(@, s.next[w], None), !.head = s.next[w]]
                       ELSE [s EXCEPT !.next = Link(@, s.prev[w], s.next[w]),
                                      !.prev = Link(@, s.next[w], s.prev[w])], w)

(* The windows met from w on along f, until one step after it must have    *)
(* come round.                                                             *)
Walk(f, w) ==
  LET at[k \in 0 .. MAX_WINDOW_CNT + 1] ==
        IF k = 0 THEN w ELSE LET v == at[k - 1] IN IF v = None THEN None ELSE f[v]
  IN [k \in 1 .. MAX_WINDOW_CNT + 2 |-> at[k - 1]]
Ends(f, w) == Last(Walk(f, w)) = None
Path(f, w) == SelectSeq(Walk(f, w), LAMBDA x : x # None)

-----------------------------------------------------------------------------
(* wmHandleMessage.  g says where the pointer is: inside the popup, over   *)
(* which windows, on which part of the one it hits, on which dock item.    *)
START == -2
SHOW == -3
TitleParts == {"close", "minimize", "bar"}
AnyPlace == [popup |-> FALSE, over |-> {}, title |-> "", content |-> TRUE, dock |-> None]

(* The window pressed: the topmost shown one under the pointer, or the     *)
(* desktop.                                                                *)
Hit(s, g) == SelectSeq(Path(s.prev, s.tail),
                       LAMBDA w : w # s.desktopId /\ ~s.minimized[w] /\ w \in g.over)
Pressed(s, g) == IF Hit(s, g) = <<>> THEN s.desktopId ELSE Head(Hit(s, g))

MouseDown(s, g) ==
  IF s.caller # None /\ g.popup THEN [s EXCEPT !.onPopup = TRUE]
  ELSE LET s1 == dispatchMessage(s, POPUP, "CLOSE")
           s2 == focusWindow(s1, Pressed(s1, g))
           w == s2.tail
           s3 == CASE g.title = "close"    -> dispatchMessage(s2, w, "CLOSE")
                   [] g.title = "minimize" -> dispatchMessage(s2, w, "MINIMIZE")
                   [] g.title = "bar"      -> [s2 EXCEPT !.onTitle = TRUE]
                   [] OTHER -> s2
       IN IF g.content THEN dispatchMessage([s3 EXCEPT !.onContent = TRUE], w, "DOWN") ELSE s3

MouseMove(s) ==
  IF ~s.onTitle /\ s.onContent THEN dispatchMessage(s, s.tail, "MOVE") ELSE s

(* The dock: a program's bar, the strip that shows the desktop, the start  *)
(* icon.                                                                   *)
handleDesktopDockClick(s, g, m) ==
  LET shown == SelectSeq(Path(s.next, s.head), LAMBDA w : w # s.desktopId) IN
  CASE g.dock \in Range(shown) ->
         IF s.minimized[g.dock] THEN dispatchMessage(s, g.dock, "MAXIMIZE") ELSE focusWindow(s, g.dock)
    [] g.dock = SHOW ->
         FoldLeft(LAMBDA t, w : dispatchMessage(t, w, "MINIMIZE"), s,
                  SelectSeq(shown, LAMBDA w : ~s.minimized[w]))
    [] g.dock = START /\ m = "LEFT" /\ s.caller # s.desktopId -> dispatchMessage(s, s.desktopId, m)
    [] OTHER -> s

MouseUp(s, m) ==
  LET s1 == IF s.onContent THEN dispatchMessage(s, s.tail, m) ELSE s
  IN [s1 EXCEPT !.onPopup = FALSE, !.onContent = FALSE, !.onTitle = FALSE]

(* A click goes on into the code for M_MOUSE_UP. *)
OnDock(s, g) == s.tail = s.desktopId /\ g.dock # None
MouseClick(s, g, m) ==
  MouseUp(IF s.onPopup THEN dispatchMessage([s EXCEPT !.onPopup = FALSE], POPUP, m)
          ELSE IF ~s.onContent THEN s
          ELSE LET t == [s EXCEPT !.onContent = FALSE] IN
               IF OnDock(s, g) THEN handleDesktopDockClick(t, g, m) ELSE dispatchMessage(t, t.tail, m),
          m)

Clicks == {"LEFT", "RIGHT", "DBCLICK"}
Keys == {"KEY"}
wmHandleMessage(s, m, g) ==
  CASE m = "MOVE" -> MouseMove(s)
    [] m = "DOWN" -> MouseDown(s, g)
    [] m \in Clicks -> MouseClick(s, g, m)
    [] m = "UP" -> MouseUp(s, m)
    [] m \in Keys -> dispatchMessage(s, s.tail, m)
    [] OTHER -> s

(* The places that make a difference to m.  The row where title bar and    *)
(* content meet belongs to both; the desktop has content everywhere.       *)
Places(s, m) ==
  CASE m = "DOWN" ->
         {g \in [popup : {FALSE}, over : {{}} \cup {{w} : w \in Range(Hit(s, [over |-> Win]))},
                 dock : {None}, title : TitleParts \cup {""}, content : BOOLEAN] :
            g.content \/ (g.title # "" /\ g.over # {})}
           \cup {[AnyPlace EXCEPT !.popup = s.caller # None]}
    [] m \in Clicks /\ s.tail = s.desktopId ->
         {[AnyPlace EXCEPT !.dock = d] : d \in {START, SHOW, None} \cup InUse(s)}
    [] OTHER -> {AnyPlace}

(* The loops over the list that m's handler runs must come to an end. *)
Loops(s, m, g) ==
  \/ m = "DOWN" /\ ~(s.caller # None /\ g.popup) /\ ~Ends(s.prev, s.tail) /\ Hit(s, g) = <<>>
  \/ m \in Clicks /\ ~s.onPopup /\ s.onContent /\ OnDock(s, g) /\ ~Ends(s.next, s.head)

-----------------------------------------------------------------------------
(* The system calls on windows; w is the handler the program passes. *)
findNextAvailableWindowId(s) == IF InUse(s) = Win THEN None ELSE Min(Win \ InUse(s))

create_window(s, p) ==
  LET w == findNextAvailableWindowId(s)
      t == addToWindowList([s EXCEPT !.head = IF @ = None THEN w ELSE @], w)
  IN IF w = None THEN s
     ELSE [t EXCEPT !.desktopId = IF @ = None THEN w ELSE @, !.proc[w] = p, !.minimized[w] = FALSE,
                    !.buf[w] = initMessageQueue]

close_window(s, w) ==
  LET t == [removeFromWindowList(s, w) EXCEPT !.prev[w] = w, !.next[w] = w, !.buf[w] = initMessageQueue]
  IN IF w = t.tail THEN focusWindow(t, t.prev[w]) ELSE t

minimizeWindow(s, w) ==
  LET t == [s EXCEPT !.minimized[w] = TRUE] IN
  IF w = t.tail THEN focusWindow(t, t.prev[w]) ELSE t

maximizeWindow(s, w) == focusWindow([s EXCEPT !.minimized[w] = FALSE], w)

createPopupWindow(s, caller) ==
  IF s.caller # None THEN s ELSE [s EXCEPT !.caller = caller, !.buf[POPUP] = initMessageQueue]

closePopupWindow(s) == [s EXCEPT !.caller = None, !.buf[POPUP] = initMessageQueue]

-----------------------------------------------------------------------------
(* wmInit, and the desktop has created its window. *)
wmInit == [next |-> [w \in Win |-> w], prev |-> [w \in Win |-> w], head |-> None, tail |-> None,
           desktopId |-> None, proc |-> [w \in Win |-> ""], minimized |-> [w \in Win |-> FALSE],
           buf |-> [w \in Win \cup {POPUP} |-> initMessageQueue], caller |-> None,
           onTitle |-> FALSE, onContent |-> FALSE, onPopup |-> FALSE]

Program == App \cup {Desktop}

Init ==
  /\ wm = create_window(wmInit, Desktop)
  /\ mouse = [lastbtn |-> 0, down |-> FALSE, click |-> FALSE]
  /\ irq = <<>>
  /\ st = [p \in Program \cup Starter |-> IF p = Desktop THEN "run" ELSE "off"]
  /\ win = [p \in Program |-> 0]
  /\ seen = [q \in Starter |-> initMessageQueue]
  /\ hung = FALSE /\ headClosed = FALSE /\ events = 0

Event == ~hung /\ events < MaxEvents /\ events' = events + 1
NoEvent == ~hung /\ UNCHANGED events

(* The window manager takes a message from an interrupt. *)
Receive(m) ==
  \E g \in Places(wm, m) :
    IF Loops(wm, m, g) THEN hung' = TRUE /\ UNCHANGED wm
    ELSE wm' = wmHandleMessage(wm, m, g) /\ UNCHANGED hung

Send(msgs) == Receive(Head(msgs)) /\ irq' = Tail(msgs)

(* genMouseMessage for a packet.  A release that is not a click sends      *)
(* M_MOUSE_UP and then a message it never filled in; after M_MOUSE_UP only *)
(* M_MOUSE_DOWN and keys have an effect, any other type is as good as one. *)
Stale == {"DOWN", "KEY", "other"}
genMouseMessage ==
  /\ Event /\ irq = <<>>
  /\ \/ \E btns \in Buttons :    \* a movement
          /\ Send((IF btns # mouse.lastbtn THEN <<"UP">> ELSE <<>>) \o <<"MOVE">>)
          /\ mouse' = [lastbtn |-> btns, down |-> FALSE, click |-> FALSE]
     \/ \E btns \in Buttons \ {0} :
          Send(<<"DOWN">>) /\ mouse' = [mouse EXCEPT !.lastbtn = btns, !.down = TRUE]
     \/ mouse.down /\ \E dbl \in {FALSE, mouse.click} :    \* soon after a press
          /\ Send(<<IF dbl THEN "DBCLICK" ELSE IF mouse.lastbtn % 2 = 1 THEN "LEFT" ELSE "RIGHT">>)
          /\ mouse' = [mouse EXCEPT !.lastbtn = 0, !.click = ~dbl]
     \/ \E stale \in Stale :
          Send(<<"UP", stale>>) /\ mouse' = [mouse EXCEPT !.lastbtn = 0]
  /\ UNCHANGED <<procs, headClosed>>

(* Its second message. *)
MouseMessage ==
  /\ NoEvent /\ irq # <<>> /\ Send(irq)
  /\ UNCHANGED <<mouse, procs, headClosed>>

Key ==
  /\ Event /\ Receive("KEY")
  /\ UNCHANGED <<mouse, irq, procs, headClosed>>

-----------------------------------------------------------------------------
(* A program starts and creates its window.  If there is none left, the    *)
(* handler stays what it was in its data, 0.                               *)
Launch(p) ==
  /\ Event /\ st[p] = "off"
  /\ wm' = create_window(wm, p)
  /\ win' = [win EXCEPT ![p] = LET w == findNextAvailableWindowId(wm) IN IF w = None THEN 0 ELSE w]
  /\ st' = [st EXCEPT ![p] = "run"]
  /\ UNCHANGED <<mouse, irq, seen, hung, headClosed>>

(* updateWindow: sys_GUI_getMessage.  The count is tested before wmlock is *)
(* taken; only the window's process takes messages out.  What its widgets  *)
(* do with an input has no effect here.                                    *)
GetMessage(p) ==
  LET w == win[p] IN
  /\ NoEvent /\ st[p] = "run" /\ wm.proc[w] = p /\ wm.buf[w].cnt # 0
  /\ st' = [st EXCEPT ![p] = IF First(wm, w) = "INPUT" THEN "run" ELSE First(wm, w)]
  /\ wm' = getMessage(wm, w)
  /\ UNCHANGED <<mouse, irq, win, seen, hung, headClosed>>

(* Wrong: the program goes on after its window is closed. *)
RunsOn == "run"

(* closeWindow of the library ends in exit(). *)
Exits == "off"

(* updateWindow: what the program does with the message it took.  After    *)
(* closeWindow it exits.  A click may make the desktop fork startWindow.   *)
Handle(p) ==
  LET w == win[p] m == st[p] IN
  /\ NoEvent /\ m \notin {"off", "run"}
  /\ CASE m = "CLOSE" -> /\ wm' = close_window(wm, w)
                         /\ st' = [st EXCEPT ![p] = Exits]
                         /\ headClosed' = (headClosed \/ w = wm.head)
       [] m = "MINIMIZE" -> wm' = minimizeWindow(wm, w) /\ st' = [st EXCEPT ![p] = "run"]
                              /\ UNCHANGED headClosed
       [] m = "MAXIMIZE" -> wm' = maximizeWindow(wm, w) /\ st' = [st EXCEPT ![p] = "run"]
                              /\ UNCHANGED headClosed
       [] OTHER -> /\ \/ st' = [st EXCEPT ![p] = "run"]
                      \/ /\ m = "LEFT" /\ p = Desktop
                         /\ \E q \in Starter : st[q] = "off" /\ st' = [st EXCEPT ![p] = "run", ![q] = "exec"]
                   /\ UNCHANGED <<wm, headClosed>>
  /\ UNCHANGED <<mouse, irq, win, seen, hung>>

(* The desktop's loop draws the windows in the order of the list. *)
update_screen ==
  /\ NoEvent /\ st[Desktop] = "run"
  /\ hung' = ~Ends(wm.next, wm.head)
  /\ UNCHANGED <<wm, mouse, irq, procs, headClosed>>

-----------------------------------------------------------------------------
(* startWindow: opens the popup, without asking whether that worked, and   *)
(* runs updatePopupWindow.  Its argument is the desktop's handler.         *)
PopupOpen(q) ==
  /\ NoEvent /\ st[q] = "exec"
  /\ wm' = createPopupWindow(wm, win[Desktop])
  /\ st' = [st EXCEPT ![q] = "run"]
  /\ UNCHANGED <<mouse, irq, win, seen, hung, headClosed>>

(* sys_GUI_getPopupMessage tests without the lock, and does not ask whose  *)
(* popup it is.                                                            *)
PopupTest(q) ==
  /\ NoEvent /\ st[q] = "run" /\ wm.caller # None /\ wm.buf[POPUP].cnt # 0
  /\ st' = [st EXCEPT ![q] = "take"]
  /\ UNCHANGED <<wm, mouse, irq, win, seen, hung, headClosed>>

(* Two starters may both pass the test for one message, and the count     *)
(* then goes below zero.  MinCount bounds how far the model follows it.    *)
MinCount == -1

PopupTake(q) ==
  /\ NoEvent /\ st[q] = "take" /\ wm.buf[POPUP].cnt > MinCount
  /\ st' = [st EXCEPT ![q] = First(wm, POPUP)]
  /\ wm' = getMessage(wm, POPUP)
  /\ UNCHANGED <<mouse, irq, win, seen, hung, headClosed>>

(* A click on one of its buttons selects a style: a message to the desktop *)
(* without wmlock, from the count and place read before.                   *)
PopupHandle(q) ==
  /\ NoEvent /\ st[q] \notin {"off", "run", "exec", "take", "style", "CLOSE"}
  /\ \/ st' = [st EXCEPT ![q] = "run"] /\ UNCHANGED seen
     \/ /\ st[q] = "LEFT"
        /\ st' = [st EXCEPT ![q] = "style"]
        /\ seen' = [seen EXCEPT ![q] = wm.buf[wm.desktopId]]
  /\ UNCHANGED <<wm, mouse, irq, win, hung, headClosed>>

PopupStyle(q) ==
  LET b == seen[q] w == wm.desktopId IN
  /\ NoEvent /\ st[q] = "style"
  /\ wm' = IF b.cnt >= MSG_BUF_SIZE THEN wm
           ELSE [wm EXCEPT !.buf[w] = [@ EXCEPT !.cnt = b.cnt + 1, !.data[b.rear] = "INPUT",
                                                !.rear = NextSlot(b.rear)]]
  /\ st' = [st EXCEPT ![q] = "CLOSE"]
  /\ seen' = [seen EXCEPT ![q] = initMessageQueue]
  /\ UNCHANGED <<mouse, irq, win, hung, headClosed>>

PopupClose(q) ==
  /\ NoEvent /\ st[q] = "CLOSE"
  /\ wm' = closePopupWindow(wm)
  /\ st' = [st EXCEPT ![q] = "off"]
  /\ UNCHANGED <<mouse, irq, win, seen, hung, headClosed>>

-----------------------------------------------------------------------------
Loop(p) == GetMessage(p) \/ Handle(p)
PopupLoop(q) ==
  PopupOpen(q) \/ PopupTest(q) \/ PopupTake(q) \/ PopupHandle(q) \/ PopupStyle(q) \/ PopupClose(q)

Next ==
  \/ genMouseMessage \/ MouseMessage \/ Key \/ update_screen
  \/ \E p \in App : Launch(p)
  \/ \E p \in Program : Loop(p)
  \/ \E q \in Starter : PopupLoop(q)

(* The scheduler runs every program again and again. *)
Spec == Init /\ [][Next]_vars /\ \A p \in Program : WF_vars(Loop(p))

-----------------------------------------------------------------------------
(* The list is well formed: from the head along next it meets every window *)
(* in use once and ends at the tail, and prev leads the same way back.     *)
(* Drawing, the dock and the search for the window under the pointer all   *)
(* rely on it.  It is lost only when a window is closed while it is the    *)
(* list's head: removeFromWindowList leaves windowlisthead alone.          *)
WindowList ==
  headClosed \/
  LET f == Path(wm.next, wm.head) IN
  /\ Ends(wm.next, wm.head) /\ Ends(wm.prev, wm.tail)
  /\ Range(f) = InUse(wm) /\ Len(f) = Cardinality(InUse(wm))
  /\ Reverse(f) = Path(wm.prev, wm.tail)

Contents(w) == LET b == wm.buf[w] IN [i \in 1 .. b.cnt |-> b.data[(b.front + i - 1) % MSG_BUF_SIZE]]

(* A window's queue is a bounded first-in first-out queue: a step adds     *)
(* messages at the end, takes the first, or empties it for a new window,   *)
(* whatever interrupts and programs do.  The desktop's is excepted:        *)
(* sys_GUI_select_style writes to it without the lock.                     *)
QueueIsFifo ==
  [][\A w \in Win \ {wm.desktopId} :
       LET c == Contents(w) d == Contents(w)' IN
       /\ Len(d) <= MSG_BUF_SIZE
       /\ IsPrefix(c, d) \/ d = <<>> \/ (c # <<>> /\ d = Tail(c))]_vars

(* A program asked to close its window does so and exits, whatever else is *)
(* clicked meanwhile, unless a window list was broken before.              *)
CloseAnswered ==
  \A p \in App :
    (st[p] # "off" /\ wm.proc[win[p]] = p /\ "CLOSE" \in Range(Contents(win[p])))
      ~> (st[p] = "off" \/ headClosed)
=============================================================================
