------------------------------ MODULE Desktop -------------------------------
(***************************************************************************)
(* The mouse (input/mouse.c), the event queue (input/events.c) and the     *)
(* desktop with its windows (video/desktop.cpp, window.cpp,                *)
(* uicomponent.cpp).                                                       *)
(*                                                                         *)
(* The mouse interrupt collects the three bytes of a packet and puts an    *)
(* event in the queue; the desktop thread takes the events out, handles    *)
(* them and draws.  The thread runs with interrupts enabled except between *)
(* the cli of _events_fetch and the next sti, so an interrupt can fall     *)
(* between any two of its steps where irq is TRUE.                         *)
(***************************************************************************)
EXTENDS LinkedList, FiniteSets

CONSTANTS
  Layout,        \* component -> [x, y, width, height] when it is created
  Opened,        \* the windows, in the order in which they are added
  Children,      \* window -> the components inside it
  ScreenWidth, ScreenHeight,
  QEMU,          \* whether the kernel is built for QEMU
  Packets,       \* the packets of the mouse: [buttons, dx, dy]
  MaxPackets     \* bound: how many packets the mouse sends

VARIABLES
  wire,          \* the bytes on their way from the mouse
  sent,          \* history: the packets that were sent
  base,          \* history: last_button_states before the first packet
  byte_cycle, bytes, last_button_states,
  event_queue,
  handled,       \* history: the events that were handled
  dpc, irq, event,              \* the thread, and its interrupt flag
  window_list, focused,         \* the stack of windows; those with has_focus
  place, stale, dirty,          \* positions; components and desktop to draw
  cursor, drawn                 \* drawn: what Draw painted, in order

mouseVars == <<wire, sent, base, byte_cycle, bytes, last_button_states>>
winVars   == <<window_list, focused, place, stale, dirty, cursor, drawn>>
deskVars  == <<mouseVars, event_queue, handled, dpc, irq, event, winVars>>

\* byte_cycle at the start.
FirstCycle == IF QEMU THEN -1 ELSE 0

Windows    == {Opened[k] : k \in DOMAIN Opened}
Components == DOMAIN Layout
NoEvent    == [type |-> 0]

\* _desktop_run opens the console and one more window; what is inside a window
\* is no window, and the heap has an element for each window.
ASSUME DesktopAssumption ==
  /\ Opened \in Seq(Components) /\ Len(Opened) \in {1, 2}
  /\ \A j, k \in 1 .. Len(Opened) : Opened[j] = Opened[k] => j = k
  /\ Children \in [Windows -> SUBSET (Components \ Windows)]
  /\ IsFiniteSet(Element) /\ Cardinality(Element) >= Len(Opened)

MOUSE_EVENT_MOVED   == 1
MOUSE_EVENT_PRESSED == 2
MOUSE_EVENT_CLICKED == 4
MOUSE_EVENT_DRAGGED == 5
LEFT == 1
RIGHT == 2
MIDDLE == 4
TITLE == 32

Clamp(x, low, high) == IF x < low THEN low ELSE IF x > high THEN high ELSE x

Pressed(states, button) == ((states \div button) % 2) = 1

\* Rect::Contains: both edges belong to the rectangle.
Rect_Contains(r, x, y) ==
  /\ x >= r.x /\ x <= r.x + r.width
  /\ y >= r.y /\ y <= r.y + r.height

\* The bounds of a component where it is now.
Bounds(c) == [Layout[c] EXCEPT !.x = place[c][1], !.y = place[c][2]]

\* close_bounds of a window, relative to its corner.
CloseBounds(w) ==
  [x |-> Layout[w].width - 16, y |-> 8, width |-> 16, height |-> 16]

----------------------------------------------------------------------------
\* The mouse.

\* The button whose change the driver reports: one of them, left first.
ActiveButton(last, now) ==
  IF Pressed(now, LEFT) # Pressed(last, LEFT) THEN LEFT
  ELSE IF Pressed(now, RIGHT) # Pressed(last, RIGHT) THEN RIGHT
  ELSE IF Pressed(now, MIDDLE) # Pressed(last, MIDDLE) THEN MIDDLE
  ELSE 0

EventType(last, now) ==
  LET b == ActiveButton(last, now)
  IN IF b # 0
     THEN IF Pressed(now, b) THEN MOUSE_EVENT_PRESSED ELSE MOUSE_EVENT_CLICKED
     ELSE IF (now % 8) # 0 THEN MOUSE_EVENT_DRAGGED ELSE MOUSE_EVENT_MOVED

MakeEvent(last, p) ==
  [buttons |-> p.buttons % 8, dx |-> p.dx, dy |-> p.dy,
   active |-> ActiveButton(last, p.buttons), type |-> EventType(last, p.buttons)]

\* The mouse has something to report and the controller took the last packet.
Report(p) ==
  /\ wire = <<>> /\ Len(sent) < MaxPackets
  /\ wire' = <<p.buttons, p.dx, p.dy>>
  /\ sent' = Append(sent, p)
  /\ UNCHANGED <<base, byte_cycle, bytes, last_button_states, event_queue,
                 handled, dpc, irq, event, winVars>>

\* The byte that answers the last command arrives as an interrupt in QEMU:
\* byte_cycle is -1 and the byte goes in front of the array, where another
\* variable may lie, last_button_states among them.
StrayByte ==
  /\ irq /\ wire # <<>> /\ byte_cycle = -1
  /\ \E b \in {last_button_states, Head(wire)} :
       last_button_states' = b /\ base' = b
  /\ byte_cycle' = 0 /\ wire' = Tail(wire)
  /\ UNCHANGED <<sent, bytes, event_queue, handled, dpc, irq, event, winVars>>

\* Where the next byte of the packet goes, from 0 to 2.
PacketByte ==
  /\ irq /\ wire # <<>> /\ byte_cycle \in {0, 1}
  /\ bytes' = [bytes EXCEPT ![byte_cycle] = Head(wire)]
  /\ byte_cycle' = byte_cycle + 1
  /\ wire' = Tail(wire)
  /\ UNCHANGED <<sent, base, last_button_states, event_queue, handled, dpc,
                 irq, event, winVars>>

\* What the driver remembers of the buttons.
SavedButtons_Stale(last, now) == last
SavedButtons(last, now) == now

\* The third byte: the event is made, dispatched, and the buttons are kept.
PacketEnds ==
  /\ irq /\ wire # <<>> /\ byte_cycle = 2
  /\ bytes' = [bytes EXCEPT ![2] = Head(wire)]
  /\ event_queue' =
       Append(event_queue,
              MakeEvent(last_button_states,
                        [buttons |-> bytes'[0], dx |-> bytes'[1],
                         dy |-> bytes'[2]]))
  /\ last_button_states' = SavedButtons(last_button_states, bytes'[0])
  /\ byte_cycle' = 0
  /\ wire' = Tail(wire)
  /\ UNCHANGED <<sent, base, handled, dpc, irq, event, winVars>>

_mouse_isr == StrayByte \/ PacketByte \/ PacketEnds

----------------------------------------------------------------------------
\* The windows.

\* The heap hands out an element that is in no list.
FreeElement ==
  CHOOSE n \in Element : \A k \in 1 .. Cardinality(Element) :
    LET f == Forward(window_list, Cardinality(Element))
    IN k \in DOMAIN f => f[k] # n

\* AddWindow: on top of the stack; it takes the focus from the window below.
AddWindow(w) ==
  LET top == window_list.tail
  IN /\ window_list' = list_insert_next(window_list, top, FreeElement, w)
     /\ focused' = (focused \ (IF top = Null THEN {}
                               ELSE {window_list.data[top]})) \union {w}

\* CloseWindow: the element behind the one that holds the window is removed.
CloseWindow(l, w) ==
  LET f == Forward(l, Cardinality(Element))
      found == {k \in DOMAIN f : l.data[f[k]] = w}
  IN IF found = {} THEN l
     ELSE LET e == f[CHOOSE k \in found : \A j \in found : k <= j]
          IN IF NothingToRemove(l, e) THEN l ELSE list_remove_next(l, e)

\* Window::Move: the window and its children go to the new position.
Move(w, x, y) ==
  [c \in Components |-> IF c = w \/ c \in Children[w] THEN <<x, y>> ELSE place[c]]

\* UIComponent::Invalidate: the component and its children.
Invalidate(w) == stale \union {w} \union Children[w]

\* Where the pointer goes: dy counts upwards.
MovedCursor(e) ==
  <<Clamp(cursor[1] + e.dx, 0, ScreenWidth),
    Clamp(cursor[2] - e.dy, 0, ScreenHeight)>>

\* Window::HandleMouseEvent, for event e that began at start.
HandledBy(w, e, start, now) ==
  LET dx == now[1] - place[w][1]
      dy == now[2] - place[w][2]
      closes == e.type = MOUSE_EVENT_CLICKED /\ Rect_Contains(CloseBounds(w), dx, dy)
      drags  == e.type = MOUSE_EVENT_DRAGGED /\ start[2] - place[w][2] < TITLE
  IN /\ window_list' = IF closes THEN CloseWindow(window_list, w) ELSE window_list
     /\ place' = IF drags THEN Move(w, place[w][1] + e.dx, place[w][2] - e.dy)
                 ELSE place
     /\ dirty' = (dirty \/ closes \/ drags)

\* The windows in the order in which Desktop::HandleMouseEvent tries them.
Tried_FromHead(l) == DataOf(l, Forward(l, Cardinality(Element)))
Tried(l) == DataOf(l, Backward(l, Cardinality(Element)))

\* The first of them that contains the point takes the event.
Taker(start) ==
  LET s == Tried(window_list)
      hit == {k \in DOMAIN s : Rect_Contains(Bounds(s[k]), start[1], start[2])}
  IN IF hit = {} THEN Null ELSE s[CHOOSE k \in hit : \A j \in hit : k <= j]

----------------------------------------------------------------------------
\* The thread, _desktop_run.

DeskInit ==
  /\ wire = IF FirstCycle = -1 THEN <<250>> ELSE <<>>
  /\ sent = <<>> /\ base = 0 /\ byte_cycle = FirstCycle
  /\ bytes = [k \in 0 .. 2 |-> 0] /\ last_button_states = 0
  /\ event_queue = <<>> /\ handled = <<>>
  /\ dpc = "open" /\ irq = TRUE /\ event = NoEvent
  /\ window_list = list_init(NoElements) /\ focused = {}
  /\ place = [c \in Components |-> <<Layout[c].x, Layout[c].y>>]
  /\ stale = Components /\ dirty = TRUE
  /\ cursor = <<ScreenWidth \div 2, ScreenHeight \div 2>>
  /\ drawn = <<>>

\* The initial windows are added one after the other.
Open ==
  /\ dpc = "open" /\ irq
  /\ AddWindow(Opened[window_list.size + 1])
  /\ dirty' = TRUE
  /\ dpc' = IF window_list.size + 1 = Len(Opened) THEN "fetch" ELSE "open"
  /\ UNCHANGED <<mouseVars, event_queue, handled, irq, event, place, stale,
                 cursor, drawn>>

\* _events_fetch finds an event; interrupts are enabled again.
FetchEvent ==
  /\ dpc = "fetch" /\ event_queue # <<>>
  /\ event' = Head(event_queue)
  /\ event_queue' = Tail(event_queue)
  /\ dpc' = "handle" /\ irq' = TRUE
  /\ UNCHANGED <<mouseVars, handled, winVars>>

\* It finds none, and returns with interrupts still disabled.
FetchNone ==
  /\ dpc = "fetch" /\ event_queue = <<>>
  /\ dpc' = "draw" /\ irq' = FALSE
  /\ UNCHANGED <<mouseVars, event_queue, handled, event, winVars>>

\* Desktop::HandleMouseEvent.
HandleMouseEvent ==
  /\ dpc = "handle"
  /\ cursor' = MovedCursor(event)
  /\ LET w == Taker(cursor)
     IN IF w = Null THEN UNCHANGED <<window_list, place, dirty>>
        ELSE HandledBy(w, event, cursor, cursor')
  /\ handled' = Append(handled, event)
  /\ dpc' = "dispose"
  /\ UNCHANGED <<mouseVars, event_queue, irq, event, focused, stale, drawn>>

\* The event is freed between a cli and a sti.
Dispose ==
  /\ dpc = "dispose"
  /\ event' = NoEvent /\ dpc' = "fetch" /\ irq' = TRUE
  /\ UNCHANGED <<mouseVars, event_queue, handled, winVars>>

\* The flag of the desktop when everything is painted.
AfterDraw_Kept == dirty
AfterDraw == FALSE

\* Draw paints every window from the head of the list and copies the screen.
Draw ==
  /\ dpc = "draw"
  /\ LET s == DataOf(window_list, Forward(window_list, Cardinality(Element)))
     IN /\ drawn' = [k \in DOMAIN s |->
                       [w |-> s[k], at |-> place[s[k]], on |-> s[k] \in focused]]
        /\ stale' = stale \ UNION {{s[k]} \union Children[s[k]] : k \in DOMAIN s}
  /\ dirty' = AfterDraw
  /\ dpc' = "sleep" /\ irq' = TRUE
  /\ UNCHANGED <<mouseVars, event_queue, handled, event, window_list, focused,
                 place, cursor>>

\* msleep ends: the clock made the thread ready and it was dispatched.
Wake ==
  /\ dpc = "sleep"
  /\ dpc' = "fetch"
  /\ UNCHANGED <<mouseVars, event_queue, handled, irq, event, winVars>>

\* While the thread sleeps a process prints: gcon_flush invalidates the console.
ConsoleFlush ==
  /\ dpc = "sleep" /\ stale = {}
  /\ stale' = Invalidate(Opened[1])
  /\ UNCHANGED <<mouseVars, event_queue, handled, dpc, irq, event, window_list,
                 focused, place, dirty, cursor, drawn>>

Thread == Open \/ FetchEvent \/ FetchNone \/ HandleMouseEvent \/ Dispose
          \/ Draw \/ Wake

DeskNext == (\E p \in Packets : Report(p)) \/ _mouse_isr \/ Thread \/ ConsoleFlush

DeskFairness == WF_deskVars(Thread) /\ WF_deskVars(_mouse_isr)

DeskSpec == DeskInit /\ [][DeskNext]_deskVars /\ DeskFairness

----------------------------------------------------------------------------
\* Properties.

\* The events that a sequence of packets stands for.
Decoded(packets, before) ==
  [k \in DOMAIN packets |->
     MakeEvent(IF k = 1 THEN before ELSE packets[k - 1].buttons, packets[k])]

\* Every packet of the mouse becomes one event, with the change of the buttons
\* since the packet before it, and the desktop handles the events in the order
\* of the packets: none is lost, repeated or made of the bytes of two packets,
\* wherever the interrupt falls (mouse.c:123-176, events.c:31-44).
EventsInOrder ==
  LET pending == IF dpc = "handle" THEN <<event>> ELSE <<>>
      seen == handled \o pending \o event_queue
      rest == Len(sent) - Len(seen)
  IN /\ rest = IF wire = <<>> \/ byte_cycle = -1 THEN 0 ELSE 1
     /\ seen = SubSeq(Decoded(sent, base), 1, Len(seen))

\* The stack of windows can be walked both ways, holds each window once, and
\* its size and tail are right; only the topmost window has the focus
\* (linkedlist.c:33-117, desktop.cpp:67-94).
StackSound ==
  LET n == Cardinality(Element)
      f == Forward(window_list, n)
      b == Backward(window_list, n)
  IN /\ Len(f) = window_list.size /\ Len(b) = Len(f)
     /\ \A k \in DOMAIN f : b[Len(f) + 1 - k] = f[k]
     /\ \A j, k \in DOMAIN f :
          j # k => window_list.data[f[j]] # window_list.data[f[k]]
     /\ \A k \in DOMAIN f :
          window_list.data[f[k]] \in focused => f[k] = window_list.tail

\* A window moves or the stack changes only for an event that began over that
\* window, or over its close button, where no window painted later covers it:
\* events go to what the user sees on top (desktop.cpp:96-159).
TopmostInDrawOrder(start) ==
  LET s == DataOf(window_list, Forward(window_list, Cardinality(Element)))
      hit == {k \in DOMAIN s : Rect_Contains(Bounds(s[k]), start[1], start[2])}
  IN IF hit = {} THEN Null ELSE s[CHOOSE k \in hit : \A j \in hit : k >= j]

EventsGoToTop ==
  [][handled' # handled =>
       /\ Taker(cursor) = TopmostInDrawOrder(cursor)
       /\ \A w \in Windows : place'[w] # place[w] => w = Taker(cursor)]_deskVars

\* Whatever arrives is handled and what changed is painted again: once the
\* windows are open, again and again the queue is empty and nothing is left to
\* draw (desktop.cpp:96-124, 195-242).
Shown == dpc # "open" ~>
  /\ event_queue = <<>> /\ ~dirty
  /\ \A w \in Windows :
       w \in stale => \A k \in DOMAIN drawn : drawn[k].w # w

\* "Closes and removes the given window from the desktop" (desktop.h): a click
\* on the close button of a window takes that window out of the list.
ClosesGivenWindow ==
  [][handled' # handled =>
       LET w == Taker(cursor)
           s == DataOf(window_list', Forward(window_list', Cardinality(Element)))
       IN (w # Null /\ event.type = MOUSE_EVENT_CLICKED
             /\ Rect_Contains(CloseBounds(w), cursor'[1] - place[w][1],
                         cursor'[2] - place[w][2]))
          => \A k \in DOMAIN s : s[k] # w]_deskVars
=============================================================================
