---------------------------- MODULE WindowEvents ----------------------------
(***************************************************************************)
(* All windows together: control messages open them (Control), opening one  *)
(* may move the others (a rehash of Windows()), the X server sends each its *)
(* events, BeginFrame lets each poll them and gives its input to ImGui, and *)
(* EndFrame records a pass for each with its matrices in the one            *)
(* sMatrixBuffer, which the GPU reads after the last pass is recorded.      *)
(*                                                                          *)
(* What a resize does to a surface is in WindowSurface, and the GPU and the *)
(* frames given up half-way are in FrameLoop.                               *)
(***************************************************************************)
EXTENDS Integers, Sequences, FiniteSets, FiniteSetsExt

CONSTANTS
  Names,      \* names in control messages
  NoWindow,   \* none of them
  Widths,     \* widths in control messages, unsigned 32 bit; heights follow
  Sizes,      \* widths the X server may give a window, unsigned 16 bit
  Keys,       \* the iris::wsi::Keys looked at
  Codes,      \* the X key codes looked at
  Mappings,   \* keyboard mappings: a function of the codes to sets of keys
  Pointer,    \* the buttons of the mouse, numbered as in X
  MaxOpened,  \* bound: windows that are asked for
  MaxEvents   \* bound: events in the X server

UInt16 == {n \in Nat : n < 65536}

ASSUME WindowEventsAssumption ==
  /\ NoWindow \notin Names
  /\ Widths \subseteq Nat
  /\ Sizes \subseteq UInt16
  /\ Codes \subseteq 8..255
  /\ Mappings \subseteq [Codes -> SUBSET Keys]
  /\ Pointer \subseteq 1..5
  /\ MaxOpened \in Nat /\ MaxEvents \in Nat

VARIABLES
  server,   \* the X server's keyboard and mouse: the mapping, the codes and
            \*   buttons held, the window that has the mouse
  happened, \* how many events there have been
  windows,  \* Windows(): the windows by name
  opened,   \* how many have been asked for
  pc,       \* where the main thread is
  todo,     \* windows that the loop over Windows() has not finished
  current,  \* the window whose events are being dispatched
  last,     \* windows recorded in this frame, the last one first
  matrix,   \* projectionMatrix and its inverse in sMatrixBuffer
  running   \* sRunning

frameVars == <<todo, current, last, matrix>>
vars == <<server, happened, windows, opened, pc, frameVars, running>>

Event == [kind : {"configure"}, size : Sizes]
         \cup [kind : {"press", "release"}, button : Pointer]
         \cup [kind : {"close"}]

\* A projection matrix: for which size, and whether y is turned over.
Projections == [size : UInt16, flipped : BOOLEAN]

\* size is the server's, events are those that have not been polled; serial,
\* resizedWhen and mapping are history.  inverse tells whether
\* projectionMatrixInverse is the inverse of projectionMatrix; otherwise its
\* value is indeterminate.
Window ==
  [size : UInt16, events : Seq(Event),
   rect : UInt16, closed : BOOLEAN, delegates : {"this", "elsewhere"},
   resized : BOOLEAN, projection : Projections, inverse : BOOLEAN,
   keyLUT : [Keys -> 0..246], buttons : SUBSET (0..4),
   keysDown : SUBSET Keys, mouseDown : SUBSET (0..4),
   serial : 1..MaxOpened, mapping : [Codes -> SUBSET Keys],
   resizedWhen : {"never", "before the last move", "since"}]

TypeOK ==
  /\ server \in [mapping : Mappings, pressed : SUBSET Codes,
                 held : SUBSET Pointer, grab : DOMAIN windows \cup {NoWindow}]
  /\ happened \in 0..MaxEvents
  /\ DOMAIN windows \subseteq Names
  /\ windows \in [DOMAIN windows -> Window]
  /\ opened \in 0..MaxOpened
  /\ pc \in {"continuations", "poll", "record", "done"}
  /\ todo \subseteq DOMAIN windows
  /\ current \in todo \cup {NoWindow}
  /\ last \in Seq(DOMAIN windows)
  /\ matrix \in [projection : Projections, inverse : BOOLEAN]
  /\ running \in BOOLEAN

Init ==
  /\ server \in [mapping : Mappings, pressed : {{}}, held : {{}},
                 grab : {NoWindow}]
  /\ happened = 0
  /\ windows = [n \in {} |-> NoWindow]
  /\ opened = 0
  /\ pc = "continuations"
  /\ todo = {} /\ current = NoWindow /\ last = <<>>
  /\ matrix = [projection |-> [size |-> 0, flipped |-> FALSE],
               inverse |-> FALSE]
  /\ running = TRUE
-----------------------------------------------------------------------------
(* The X server (external).                                                *)
Happens ==
  /\ pc # "done"
  /\ happened < MaxEvents
  /\ happened' = happened + 1
  /\ UNCHANGED <<opened, pc, frameVars, running>>

\* A window is destroyed when it is closed, and has no mouse from then on.
Exists(n) == ~windows[n].closed
Send(n, event) == windows' = [windows EXCEPT ![n].events = Append(@, event)]
Configured(size) == [kind |-> "configure", size |-> size]
Pressed(b)       == [kind |-> "press", button |-> b]
Released(b)      == [kind |-> "release", button |-> b]
Delete           == [kind |-> "close"]

Configure(n, size) ==
  /\ Happens
  /\ Exists(n)
  /\ size # windows[n].size
  /\ windows' = [windows EXCEPT
       ![n].size = size, ![n].events = Append(@, Configured(size))]
  /\ UNCHANGED server

\* The window a button is pressed in gets all events of the mouse until no
\* button is held.
Press(n, b) ==
  /\ Happens
  /\ Exists(n)
  /\ b \notin server.held
  /\ IF server.held = {} THEN server' = [server EXCEPT !.held = {b}, !.grab = n]
     ELSE server.grab = n /\ server' = [server EXCEPT !.held = @ \cup {b}]
  /\ Send(n, Pressed(b))

Release(b) ==
  /\ Happens
  /\ b \in server.held
  /\ server' = [server EXCEPT !.held = @ \ {b}]
  /\ IF Exists(server.grab) THEN Send(server.grab, Released(b))
     ELSE UNCHANGED windows

\* Key events do nothing in Dispatch and are left out.
KeyDown(c) ==
  /\ Happens
  /\ c \notin server.pressed
  /\ server' = [server EXCEPT !.pressed = @ \cup {c}]
  /\ UNCHANGED windows

KeyUp(c) ==
  /\ Happens
  /\ c \in server.pressed
  /\ server' = [server EXCEPT !.pressed = @ \ {c}]
  /\ UNCHANGED windows

Remap(mapping) ==
  /\ Happens
  /\ mapping # server.mapping
  /\ server' = [server EXCEPT !.mapping = mapping]
  /\ UNCHANGED windows

AskClose(n) ==
  /\ Happens
  /\ Exists(n)
  /\ Send(n, Delete)
  /\ UNCHANGED server
-----------------------------------------------------------------------------
(* Opening windows.                                                        *)

None == 0   \* XCB_NONE

\* KeysToKeyCode: the place of the first code from 8 to 254 that has the key.
KeysToKeyCode(mapping, key) ==
  LET found == {i \in 0..246 : i + 8 \in Codes /\ key \in mapping[i + 8]}
  IN IF found = {} THEN None ELSE Min(found)

\* glm::perspectiveFov with the width and height of the window
Perspective(size) == [size |-> size, flipped |-> FALSE]

\* The width of a message is cast to 16 bits.
Untruncated(width) == width
Truncated(width) == width % 65536

\* wsi::Window::Create and Window::Create.  A request for the mapping that is
\* not answered leaves a key without a code.
Create(width, answered) ==
  LET size == Truncated(width)
  IN [serial |-> opened + 1, resizedWhen |-> "never",
      mapping |-> [c \in Codes |-> server.mapping[c] \cap answered],
      size |-> size, events |-> <<>>,
      rect |-> size, closed |-> FALSE, delegates |-> "this", resized |-> FALSE,
      projection |-> [Perspective(size) EXCEPT !.flipped = TRUE],
      inverse |-> TRUE,
      keyLUT |-> [k \in Keys |->
        IF k \in answered THEN KeysToKeyCode(server.mapping, k) ELSE None],
      buttons |-> {}, keysDown |-> {}, mouseDown |-> {}]

\* Window(Window&&): binds the delegates again, and moves every member but
\* projectionMatrixInverse.
Relocated(w) ==
  [w EXCEPT !.delegates = "elsewhere", !.inverse = FALSE,
            !.resizedWhen = IF @ = "since" THEN "before the last move" ELSE @]
Move(w) == [Relocated(w) EXCEPT !.delegates = "this"]

\* Windows().emplace: a name that is there keeps its window.  Another makes
\* the table grow, or not.
Assign(n, w) ==
  windows' = [m \in DOMAIN windows \cup {n} |->
                IF m = n THEN Move(w) ELSE windows[m]]
Emplace(n, w) ==
  \/ n \in DOMAIN windows /\ UNCHANGED windows
  \/ /\ n \notin DOMAIN windows
     /\ windows' = [m \in DOMAIN windows \cup {n} |->
                       IF m = n THEN Move(w) ELSE windows[m]]
  \/ /\ n \notin DOMAIN windows
     /\ windows' = [m \in DOMAIN windows \cup {n} |->
                       Move(IF m = n THEN w ELSE windows[m])]

\* One window of a control message.
OpenWindow(n, width, answered) ==
  /\ pc = "continuations"
  /\ opened < MaxOpened
  /\ opened' = opened + 1
  /\ Truncated(width) > 0
  /\ Emplace(n, Move(Create(width, answered)))
  /\ UNCHANGED <<server, happened, pc, frameVars, running>>

\* Window::Create returns an error, which is logged: without a width, or for
\* another reason.
OpenFails ==
  /\ pc = "continuations"
  /\ opened < MaxOpened
  /\ opened' = opened + 1
  /\ UNCHANGED <<server, happened, windows, pc, frameVars, running>>
-----------------------------------------------------------------------------
(* BeginFrame.                                                             *)

BeginFrame ==
  /\ pc = "continuations"
  /\ DOMAIN windows # {}
  /\ pc' = "poll"
  /\ todo' = DOMAIN windows
  /\ last' = <<>>
  /\ UNCHANGED <<server, happened, windows, opened, current, matrix, running>>

\* Window::Resize, called through the delegate.
Resize(w, size) ==
  [w EXCEPT !.projection = Perspective(size), !.inverse = TRUE,
            !.resized = TRUE, !.resizedWhen = "since"]

\* iris::wsi::Buttons, which ImGui's MouseDown follows.
ButtonInOrder(detail) == IF detail \in 1..3 THEN {detail - 1} ELSE {}
Button(detail) ==
  CASE detail = 1 -> {0}      \* kButtonLeft
    [] detail = 2 -> {2}      \* kButtonMiddle
    [] detail = 3 -> {1}      \* kButtonRight
    [] OTHER -> {}            \* the wheel

\* wsi::Window::Impl::Dispatch.  A delegate that is bound to a moved window
\* would leave this one as it is.
Configures(w, size) ==
  IF size = w.rect THEN w
  ELSE IF w.delegates = "this" THEN Resize([w EXCEPT !.rect = size], size)
  ELSE [w EXCEPT !.rect = size]

Dispatch(w, event) ==
  CASE event.kind = "configure" -> Configures(w, event.size)
    [] event.kind = "press" ->
         [w EXCEPT !.buttons = @ \cup Button(event.button)]
    [] event.kind = "release" ->
         [w EXCEPT !.buttons = @ \ Button(event.button)]
    [] event.kind = "close" -> [w EXCEPT !.closed = TRUE]

\* The windows are polled one after the other.
Turn(n) == pc = "poll" /\ n \in todo /\ current \in {n, NoWindow}

PollEvents(n) ==
  /\ Turn(n)
  /\ windows[n].events # <<>>
  /\ current' = n
  /\ LET events == windows[n].events
         w == Dispatch([windows[n] EXCEPT !.events = Tail(events)],
                       Head(events))
     IN /\ windows' = [windows EXCEPT ![n] = w]
        /\ running' = (running /\ ~w.closed)
  /\ UNCHANGED <<server, happened, opened, pc, todo, last, matrix>>

\* xcb_query_keymap (external): bit b of byte i of the answer.
Bit(i, b) == 8 * i + b \in server.pressed

KeyboardState(w) ==
  {k \in Keys : Bit(w.keyLUT[k] \div 8 + 1, w.keyLUT[k] % 8)}

\* Window::BeginFrame, when no event is there: others may be on their way.  A
\* query for the keys that is not answered gives none.
BeginWindow(n) ==
  /\ Turn(n)
  /\ current' = NoWindow
  /\ todo' = todo \ {n}
  /\ \E keys \in {KeyboardState(windows[n]), {}} :
       windows' = [windows EXCEPT ![n].resized = FALSE, ![n].keysDown = keys,
                                  ![n].mouseDown = windows[n].buttons]
  /\ UNCHANGED <<server, happened, opened, pc, last, matrix, running>>

\* The surface cannot be resized: Window::BeginFrame and BeginFrame return.
BeginWindowFails(n) ==
  /\ Turn(n)
  /\ windows[n].resized
  /\ current' = NoWindow
  /\ todo' = {}
  /\ pc' = IF running THEN "continuations" ELSE "done"
  /\ UNCHANGED <<server, happened, windows, opened, last, matrix, running>>

\* EndFrame returns at once after a close, and the loop is left.
EndPolling ==
  /\ pc = "poll"
  /\ todo = {}
  /\ pc' = IF running THEN "record" ELSE "done"
  /\ todo' = IF running THEN DOMAIN windows ELSE {}
  /\ UNCHANGED <<server, happened, windows, opened, current, last, matrix,
                 running>>
-----------------------------------------------------------------------------
(* EndFrame.                                                               *)

\* The pass of a window, before which its matrices are written.
Matrices(n) ==
  [projection |-> windows[n].projection, inverse |-> windows[n].inverse]
WriteOnce(n) ==
  IF last = <<>> THEN matrix' = Matrices(n) ELSE UNCHANGED matrix
WriteMatrices(n) == matrix' = Matrices(n)

RecordPass(n) ==
  /\ pc = "record"
  /\ n \in todo
  /\ WriteMatrices(n)
  /\ todo' = todo \ {n}
  /\ last' = <<n>> \o last
  /\ UNCHANGED <<server, happened, windows, opened, pc, current, running>>

\* The frame is submitted, drawn and, in the next BeginFrame, waited for; or
\* EndFrame has returned before the first pass.
EndFrame ==
  /\ pc = "record"
  /\ todo \in {{}, DOMAIN windows}
  /\ pc' = "continuations"
  /\ todo' = {}
  /\ last' = <<>>
  /\ UNCHANGED <<server, happened, windows, opened, current, matrix, running>>
-----------------------------------------------------------------------------
ServerNext ==
  \/ \E n \in DOMAIN windows :
       \/ \E size \in Sizes : Configure(n, size)
       \/ \E b \in Pointer : Press(n, b)
       \/ AskClose(n)
  \/ \E b \in Pointer : Release(b)
  \/ \E c \in Codes : KeyDown(c) \/ KeyUp(c)
  \/ \E mapping \in Mappings : Remap(mapping)

Next ==
  \/ ServerNext
  \/ \E n \in Names, width \in Widths, answered \in SUBSET Keys :
       OpenWindow(n, width, answered)
  \/ OpenFails
  \/ BeginFrame
  \/ \E n \in todo : PollEvents(n) \/ BeginWindow(n) \/ BeginWindowFails(n)
  \/ EndPolling
  \/ \E n \in todo : RecordPass(n)
  \/ EndFrame

Spec == Init /\ [][Next]_vars
-----------------------------------------------------------------------------
\* The last of the pending events of w of which Test holds is at i.
IsLast(w, i, Test(_)) ==
  /\ i \in DOMAIN w.events /\ Test(w.events[i])
  /\ \A j \in DOMAIN w.events : j > i => ~Test(w.events[j])

\* The size that w will know of, and the buttons that it will take for held,
\* when it has polled its events: the last one that tells, or what it knows.
Tells(event) == event.kind = "configure"
WillBe(w, size) ==
  IF \E i \in DOMAIN w.events : Tells(w.events[i])
  THEN \E i \in DOMAIN w.events :
         IsLast(w, i, Tells) /\ w.events[i].size = size
  ELSE w.rect = size

\* Where ImGui's MouseDown has what X calls buttons 1, 2 and 3 (external).
Place == <<0, 2, 1>>
Moves(event, b) == event.kind \in {"press", "release"} /\ event.button = b
WillBeDown(w, down, b) ==
  LET MovesIt(event) == Moves(event, b)
  IN IF \E i \in DOMAIN w.events : MovesIt(w.events[i])
     THEN \E i \in DOMAIN w.events :
            IsLast(w, i, MovesIt) /\ w.events[i].kind = "press"
     ELSE Place[b] \in down

\* The projection of every window is for the size it knows of, which the
\* pending events bring to that of the server: its delegates reach it wherever
\* Windows() has put it.  Only the projection of Create is turned over, and
\* only a resize since the last move leaves an inverse (Create, Resize and
\* Window(Window&&) of Window).
ProjectionFollows ==
  \A n \in DOMAIN windows :
    LET w == windows[n]
    IN /\ w.projection = [size |-> w.rect, flipped |-> w.resizedWhen = "never"]
       /\ WillBe(w, w.size)
       /\ w.inverse <=> w.resizedWhen = "since"

\* The passes of a frame share sMatrixBuffer: the GPU draws each with the
\* projection of the window recorded last, which is that of another window just
\* if they are of the same size and both or neither have been resized; and
\* with an inverse only if that window was resized since it was moved (the
\* loop over Windows() in EndFrame).
FrameReadsOneWindow ==
  pc = "record" /\ todo = {} =>
    LET w == windows[last[1]]
    IN /\ matrix.inverse <=> w.resizedWhen = "since"
       /\ \A n \in DOMAIN windows :
            matrix.projection = windows[n].projection <=>
              /\ windows[n].rect = w.rect
              /\ (windows[n].resizedWhen = "never") <=> (w.resizedWhen = "never")

\* A window keeps its name, its events and its input whatever is opened later,
\* under its name or another (Control, emplace, the rehash of Windows()).
Kept == {"size", "events", "rect", "closed", "delegates", "projection",
         "keyLUT", "buttons", "keysDown", "mouseDown"}
FirstComeStays ==
  [][\A n \in DOMAIN windows :
       /\ n \in DOMAIN windows'
       /\ windows'[n].serial = windows[n].serial
       /\ opened' # opened =>
            \A field \in Kept : windows'[n][field] = windows[n][field]]_vars

\* The code read for a key: its first from 8 to 254, by what was known of the
\* mapping when the window was opened, or 8.
CodeRead(w, k) ==
  LET having == {c \in Codes \ {255} : k \in w.mapping[c]}
  IN IF having = {} THEN 8 ELSE Min(having)

\* A window that gives its input to ImGui gives the buttons that are held in
\* the server, but for the events it has not polled, and, if the server
\* answers, the keys that are pressed: but with the mapping of when the window
\* was opened, and a key without a code then is down when code 8 is
\* (PollEvents, KeysToKeyCode, KeyboardState, BeginFrame).
InputTrue ==
  [][\A n \in todo \ todo' :
       pc = "poll" /\ pc' = "poll" =>
         LET w == windows'[n]
             held == IF server.grab = n THEN server.held ELSE {}
         IN /\ ~w.closed =>
                 \A b \in Pointer \cap DOMAIN Place :
                   b \in held <=> WillBeDown(w, w.mouseDown, b)
            /\ w.keysDown \in
                 {{}, {k \in Keys : CodeRead(w, k) \in server.pressed}}]_vars
=============================================================================
