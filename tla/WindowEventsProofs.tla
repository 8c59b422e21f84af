------------------------- MODULE WindowEventsProofs -------------------------
(***************************************************************************)
(* Type correctness of WindowEvents, and that windows keep their identity,  *)
(* follow the server's size and its input, and share one matrix buffer, for *)
(* every value of the constants.                                            *)
(***************************************************************************)
EXTENDS WindowEvents, SequenceTheorems, WellFoundedInduction, TLAPS

LEMMA SmallestOf ==
  ASSUME NEW T \in SUBSET Nat, T # {}
  PROVE  Min(T) \in T /\ \A y \in T : Min(T) <= y
PROOF
<1>1. \E x \in T : \A y \in T : ~ (<<y, x>> \in OpToRel(<, Nat))
  <2>1. T \subseteq Nat
    OBVIOUS
  <2> QED
    BY <2>1, WFMin, NatLessThanWellFounded
<1>2. \E x \in T : \A y \in T : ~ (y < x)
  BY <1>1, Zenon DEF OpToRel
<1>3. \E x \in T : \A y \in T : x <= y
  BY <1>2
<1> QED
  BY <1>3 DEF Min
-----------------------------------------------------------------------------
(* Windows, one at a time.                                                  *)

LEMMA KeyCodeTyped ==
  ASSUME NEW mapping, NEW key
  PROVE  KeysToKeyCode(mapping, key) \in 0..246
PROOF
<1> DEFINE found == {i \in 0..246 : i + 8 \in Codes /\ key \in mapping[i + 8]}
<1>1. CASE found = {}
  BY <1>1 DEF KeysToKeyCode, None
<1>2. CASE found # {}
  <2>1. found \in SUBSET Nat /\ found \subseteq 0..246
    OBVIOUS
  <2>2. Min(found) \in found
    BY <1>2, <2>1, SmallestOf
  <2> QED
    BY <1>2, <2>1, <2>2 DEF KeysToKeyCode
<1> QED
  BY <1>1, <1>2

LEMMA CreateTyped ==
  ASSUME TypeOK, opened < MaxOpened,
         NEW width \in Widths, NEW answered \in SUBSET Keys
  PROVE  Create(width, answered) \in Window
PROOF
<1>1. Truncated(width) \in UInt16
  <2>1. width \in Nat
    BY WindowEventsAssumption
  <2>2. width % 65536 \in Nat /\ width % 65536 < 65536
    BY <2>1
  <2> QED
    BY <2>2 DEF Truncated, UInt16
<1>2. opened + 1 \in 1..MaxOpened
  BY WindowEventsAssumption DEF TypeOK
<1>3. [k \in Keys |-> IF k \in answered THEN KeysToKeyCode(server.mapping, k)
                      ELSE None] \in [Keys -> 0..246]
  BY KeyCodeTyped DEF None
<1>4. [c \in Codes |-> server.mapping[c] \cap answered] \in [Codes -> SUBSET Keys]
  OBVIOUS
<1>5. [Perspective(Truncated(width)) EXCEPT !.flipped = TRUE] \in Projections
  BY <1>1 DEF Perspective, Projections
<1>6. <<>> \in Seq(Event)
  OBVIOUS
<1> QED
  BY <1>1, <1>2, <1>3, <1>4, <1>5, <1>6 DEF Create, Window

LEMMA MoveTyped ==
  ASSUME NEW w \in Window
  PROVE  Move(w) \in Window
PROOF BY DEF Move, Relocated, Window

\* What the server does to a window.
Sent(w, event) ==
  [w EXCEPT !.events = Append(@, event),
            !.size = IF event.kind = "configure" THEN event.size ELSE @]

LEMMA EventFields ==
  ASSUME NEW event \in Event
  PROVE  /\ event.kind \in {"configure", "press", "release", "close"}
         /\ event.kind = "configure" => event.size \in Sizes
         /\ event.kind \in {"press", "release"} => event.button \in Pointer
PROOF BY DEF Event

LEMMA SentTyped ==
  ASSUME NEW w \in Window, NEW event \in Event
  PROVE  Sent(w, event) \in Window
PROOF
<1>1. Append(w.events, event) \in Seq(Event)
  <2>1. w.events \in Seq(Event)
    BY DEF Window
  <2> QED
    BY <2>1, AppendProperties
<1>2. event.kind = "configure" => event.size \in UInt16
  BY EventFields, WindowEventsAssumption
<1> QED
  BY <1>1, <1>2 DEF Sent, Window

LEMMA ButtonTyped ==
  ASSUME NEW detail
  PROVE  Button(detail) \in SUBSET (0..4)
PROOF BY DEF Button

\* The first event of a window is dispatched.
Dispatched(w) == Dispatch([w EXCEPT !.events = Tail(@)], Head(w.events))

LEMMA DispatchedTyped ==
  ASSUME NEW w \in Window, w.events # <<>>
  PROVE  Dispatched(w) \in Window
PROOF
<1> DEFINE event == Head(w.events)
           v     == [w EXCEPT !.events = Tail(@)]
<1>1. event \in Event /\ Tail(w.events) \in Seq(Event)
  <2>1. w.events \in Seq(Event)
    BY DEF Window
  <2> QED
    BY <2>1, HeadTailProperties
<1>2. v \in Window
  BY <1>1 DEF Window
<1>3. CASE event.kind = "configure"
  <2>1. event.size \in UInt16
    BY <1>1, <1>3, EventFields, WindowEventsAssumption
  <2>2. Perspective(event.size) \in Projections
    BY <2>1 DEF Perspective, Projections
  <2>3. [v EXCEPT !.rect = event.size] \in Window
    BY <1>2, <2>1 DEF Window
  <2>4. ASSUME NEW u \in Window PROVE Resize(u, event.size) \in Window
    BY <2>2 DEF Resize, Window
  <2>5. Configures(v, event.size) \in Window
    BY <1>2, <2>3, <2>4 DEF Configures
  <2> QED
    BY <1>3, <2>5 DEF Dispatched, Dispatch
<1>4. CASE event.kind = "press"
  <2>1. [v EXCEPT !.buttons = @ \cup Button(event.button)] \in Window
    BY <1>2, ButtonTyped DEF Window
  <2> QED
    BY <1>4, <2>1 DEF Dispatched, Dispatch
<1>5. CASE event.kind = "release"
  <2>1. [v EXCEPT !.buttons = @ \ Button(event.button)] \in Window
    BY <1>2 DEF Window
  <2> QED
    BY <1>5, <2>1 DEF Dispatched, Dispatch
<1>6. CASE event.kind = "close"
  <2>1. [v EXCEPT !.closed = TRUE] \in Window
    BY <1>2 DEF Window
  <2> QED
    BY <1>6, <2>1 DEF Dispatched, Dispatch
<1> QED
  BY <1>1, <1>3, <1>4, <1>5, <1>6, EventFields
-----------------------------------------------------------------------------
(* Type correctness.                                                        *)

\* Which variables are in use at which pc.
ControlInv ==
  /\ pc \in {"continuations", "done"} => todo = {}
  /\ pc # "poll" => current = NoWindow
  /\ pc # "record" => last = <<>>
  /\ pc \in {"poll", "record"} => DOMAIN windows # {}
  /\ pc = "record" /\ last = <<>> => todo = DOMAIN windows
  /\ server.held # {} => server.grab \in DOMAIN windows

Inv == TypeOK /\ ControlInv

LEMMA Replaced ==
  ASSUME TypeOK, NEW n \in DOMAIN windows, NEW w \in Window,
         windows' = [windows EXCEPT ![n] = w]
  PROVE  /\ DOMAIN windows' = DOMAIN windows
         /\ windows' \in [DOMAIN windows' -> Window]
         /\ windows'[n] = w
         /\ \A m \in DOMAIN windows : m # n => windows'[m] = windows[m]
PROOF BY DEF TypeOK

\* The server sends a window an event, or only its own state changes.
Sends ==
  \/ UNCHANGED windows
  \/ \E n \in DOMAIN windows, event \in Event :
       windows' = [windows EXCEPT ![n] = Sent(windows[n], event)]

LEMMA SendIsSent ==
  ASSUME TypeOK, NEW n \in DOMAIN windows, NEW event \in Event,
         event.kind # "configure", Send(n, event)
  PROVE  windows' = [windows EXCEPT ![n] = Sent(windows[n], event)]
PROOF
<1>1. windows[n] \in Window
  BY DEF TypeOK
<1>2. [windows[n] EXCEPT !.events = Append(@, event)] = Sent(windows[n], event)
  BY <1>1 DEF Sent, Window
<1> QED
  BY <1>2 DEF Send

LEMMA ServerSends ==
  ASSUME Inv, ServerNext
  PROVE  Sends /\ UNCHANGED <<opened, pc, frameVars, running>>
PROOF
<1>1. ASSUME NEW n \in DOMAIN windows, NEW size \in Sizes, Configure(n, size)
      PROVE  Sends
  <2>1. Configured(size) \in Event
    BY DEF Configured, Event
  <2>2. windows[n] \in Window
    BY DEF TypeOK, Inv
  <2>3. [windows[n] EXCEPT !.size = size, !.events = Append(@, Configured(size))]
          = Sent(windows[n], Configured(size))
    BY <2>2 DEF Sent, Configured, Window
  <2>4. windows' = [windows EXCEPT ![n] = Sent(windows[n], Configured(size))]
    BY <1>1, <2>3 DEF Configure
  <2> QED
    BY <2>1, <2>4 DEF Sends
<1>2. ASSUME NEW n \in DOMAIN windows, NEW b \in Pointer, Press(n, b)
      PROVE  Sends
  <2>1. Pressed(b) \in Event /\ Pressed(b).kind # "configure"
    BY DEF Pressed, Event
  <2> QED
    BY <1>2, <2>1, SendIsSent DEF Press, Sends, Inv
<1>3. ASSUME NEW b \in Pointer, Release(b)
      PROVE  Sends
  <2>1. Released(b) \in Event /\ Released(b).kind # "configure"
    BY DEF Released, Event
  <2>2. server.grab \in DOMAIN windows
    BY <1>3 DEF Release, Inv, ControlInv
  <2> QED
    BY <1>3, <2>1, <2>2, SendIsSent DEF Release, Sends, Inv
<1>4. ASSUME NEW n \in DOMAIN windows, AskClose(n)
      PROVE  Sends
  <2>1. Delete \in Event /\ Delete.kind # "configure"
    BY DEF Delete, Event
  <2> QED
    BY <1>4, <2>1, SendIsSent DEF AskClose, Sends, Inv
<1>5. UNCHANGED <<opened, pc, frameVars, running>>
  BY DEF ServerNext, Configure, Press, Release, KeyDown, KeyUp, Remap, AskClose,
         Happens
<1> QED
  BY <1>1, <1>2, <1>3, <1>4, <1>5
     DEF ServerNext, KeyDown, KeyUp, Remap, Sends

LEMMA SendsTyped ==
  ASSUME TypeOK, Sends
  PROVE  /\ DOMAIN windows' = DOMAIN windows
         /\ windows' \in [DOMAIN windows' -> Window]
PROOF
<1>1. CASE UNCHANGED windows
  BY <1>1 DEF TypeOK
<1>2. ASSUME NEW n \in DOMAIN windows, NEW event \in Event,
             windows' = [windows EXCEPT ![n] = Sent(windows[n], event)]
      PROVE  /\ DOMAIN windows' = DOMAIN windows
             /\ windows' \in [DOMAIN windows' -> Window]
  <2>1. Sent(windows[n], event) \in Window
    BY SentTyped DEF TypeOK
  <2> QED
    BY <1>2, <2>1, Replaced
<1> QED
  BY <1>1, <1>2 DEF Sends

ServerType == [mapping : Mappings, pressed : SUBSET Codes,
               held : SUBSET Pointer, grab : DOMAIN windows \cup {NoWindow}]

LEMMA ServerTyped ==
  ASSUME Inv, ServerNext
  PROVE  /\ server' \in ServerType
         /\ server'.held # {} => server'.grab \in DOMAIN windows
         /\ happened' \in 0..MaxEvents
PROOF
<1>1. server \in ServerType /\ happened \in 0..MaxEvents
  BY DEF Inv, TypeOK, ServerType
<1>2. happened' \in 0..MaxEvents
  <2>1. Happens
    BY DEF ServerNext, Configure, Press, Release, KeyDown, KeyUp, Remap, AskClose
  <2> QED
    BY <1>1, <2>1, WindowEventsAssumption DEF Happens
<1>3. ASSUME NEW n \in DOMAIN windows, NEW b \in Pointer, Press(n, b)
      PROVE  server' \in ServerType /\ server'.grab \in DOMAIN windows
  <2>1. CASE server.held = {}
    <3>1. server' = [server EXCEPT !.held = {b}, !.grab = n]
      BY <1>3, <2>1 DEF Press
    <3> QED
      BY <1>1, <3>1 DEF ServerType
  <2>2. CASE server.held # {}
    <3>1. server.grab = n /\ server' = [server EXCEPT !.held = @ \cup {b}]
      BY <1>3, <2>2 DEF Press
    <3> QED
      BY <1>1, <3>1 DEF ServerType
  <2> QED
    BY <2>1, <2>2
<1>4. ASSUME NEW b \in Pointer, Release(b)
      PROVE  server' \in ServerType /\ server'.grab \in DOMAIN windows
  BY <1>1, <1>4 DEF Release, ServerType, Inv, ControlInv
<1>5. ASSUME NEW c \in Codes, KeyDown(c) \/ KeyUp(c)
      PROVE  server' \in ServerType /\ server'.held = server.held
             /\ server'.grab = server.grab
  BY <1>1, <1>5 DEF KeyDown, KeyUp, ServerType
<1>6. ASSUME NEW mapping \in Mappings, Remap(mapping)
      PROVE  server' \in ServerType /\ server'.held = server.held
             /\ server'.grab = server.grab
  BY <1>1, <1>6 DEF Remap, ServerType
<1>7. ASSUME NEW n \in DOMAIN windows,
             (\E size \in Sizes : Configure(n, size)) \/ AskClose(n)
      PROVE  UNCHANGED server
  BY <1>7 DEF Configure, AskClose
<1> QED
  BY <1>1, <1>2, <1>3, <1>4, <1>5, <1>6, <1>7 DEF ServerNext, Inv, ControlInv

LEMMA ServerInv == Inv /\ ServerNext => Inv'
PROOF
<1> SUFFICES ASSUME Inv, ServerNext PROVE Inv'
  OBVIOUS
<1>1. Sends /\ UNCHANGED <<opened, pc, todo, current, last, matrix, running>>
  BY ServerSends DEF frameVars
<1>2. /\ DOMAIN windows' = DOMAIN windows
      /\ windows' \in [DOMAIN windows' -> Window]
  BY <1>1, SendsTyped DEF Inv
<1>3. TypeOK'
  BY <1>1, <1>2, ServerTyped DEF Inv, TypeOK, ServerType
<1>4. ControlInv'
  BY <1>1, <1>2, ServerTyped DEF Inv, ControlInv
<1> QED
  BY <1>3, <1>4 DEF Inv
-----------------------------------------------------------------------------
\* A window is opened under a new name or not at all; the others may move.
Fresh(width, answered) == Move(Move(Create(width, answered)))

Opened(n, w) ==
  /\ DOMAIN windows' = DOMAIN windows \cup {n}
  /\ windows' = [m \in DOMAIN windows' |-> windows'[m]]
  /\ \A m \in DOMAIN windows : windows'[m] \in {windows[m], Move(windows[m])}
  /\ n \notin DOMAIN windows => windows'[n] = w

LEMMA OpenOpens ==
  ASSUME TypeOK, NEW n \in Names, NEW width \in Widths,
         NEW answered \in SUBSET Keys, OpenWindow(n, width, answered)
  PROVE  Opened(n, Fresh(width, answered))
PROOF
<1> DEFINE w == Move(Create(width, answered))
<1>1. windows = [m \in DOMAIN windows |-> windows[m]]
  BY DEF TypeOK
<1>2. CASE n \in DOMAIN windows /\ UNCHANGED windows
  BY <1>1, <1>2 DEF Opened
<1>3. CASE /\ n \notin DOMAIN windows
           /\ windows' = [m \in DOMAIN windows \cup {n} |->
                             IF m = n THEN Move(w) ELSE windows[m]]
  BY <1>3, Zenon DEF Opened, Fresh
<1>4. CASE /\ n \notin DOMAIN windows
           /\ windows' = [m \in DOMAIN windows \cup {n} |->
                             Move(IF m = n THEN w ELSE windows[m])]
  BY <1>4, Zenon DEF Opened, Fresh
<1> QED
  BY <1>2, <1>3, <1>4 DEF OpenWindow, Emplace

LEMMA OpenInv ==
  ASSUME Inv, NEW n \in Names, NEW width \in Widths,
         NEW answered \in SUBSET Keys, OpenWindow(n, width, answered)
  PROVE  Inv'
PROOF
<1>1. Opened(n, Fresh(width, answered))
  BY OpenOpens DEF Inv
<1>2. Fresh(width, answered) \in Window
  BY CreateTyped, MoveTyped DEF Fresh, OpenWindow, Inv
<1>3. \A m \in DOMAIN windows' : windows'[m] \in Window
  BY <1>1, <1>2, MoveTyped DEF Opened, Inv, TypeOK
<1>4. windows' \in [DOMAIN windows' -> Window]
  BY <1>1, <1>3 DEF Opened
<1>5. DOMAIN windows \subseteq DOMAIN windows' /\ DOMAIN windows' \subseteq Names
  BY <1>1 DEF Opened, Inv, TypeOK
<1>6. opened' \in 0..MaxOpened
  BY WindowEventsAssumption DEF OpenWindow, Inv, TypeOK
<1>7. /\ UNCHANGED <<server, happened, pc, todo, current, last, matrix, running>>
      /\ pc = "continuations"
  BY DEF OpenWindow, frameVars
<1>8. last' \in Seq(DOMAIN windows')
  BY <1>7 DEF Inv, ControlInv
<1>9. TypeOK'
  BY <1>4, <1>5, <1>6, <1>7, <1>8 DEF Inv, TypeOK
<1>10. ControlInv'
  BY <1>5, <1>7 DEF Inv, ControlInv
<1> QED
  BY <1>9, <1>10 DEF Inv

LEMMA OpenFailsInv == Inv /\ OpenFails => Inv'
PROOF
<1> SUFFICES ASSUME Inv, OpenFails PROVE Inv'
  OBVIOUS
<1>1. opened' \in 0..MaxOpened
  BY WindowEventsAssumption DEF OpenFails, Inv, TypeOK
<1> QED
  BY <1>1 DEF OpenFails, frameVars, Inv, TypeOK, ControlInv
-----------------------------------------------------------------------------
\* What Window::BeginFrame changes when there are no more events.
Begun(w, keys) ==
  [w EXCEPT !.resized = FALSE, !.keysDown = keys, !.mouseDown = w.buttons]

LEMMA BegunTyped ==
  ASSUME NEW w \in Window, NEW keys \in SUBSET Keys
  PROVE  Begun(w, keys) \in Window
PROOF BY DEF Begun, Window

LEMMA PollStep ==
  ASSUME TypeOK, NEW n \in todo, PollEvents(n)
  PROVE  /\ n \in DOMAIN windows /\ windows[n] \in Window
         /\ windows[n].events # <<>>
         /\ windows' = [windows EXCEPT ![n] = Dispatched(windows[n])]
PROOF BY DEF TypeOK, PollEvents, Dispatched

LEMMA PollInv ==
  ASSUME Inv, NEW n \in todo, PollEvents(n)
  PROVE  Inv'
PROOF
<1>1. /\ n \in DOMAIN windows
      /\ windows' = [windows EXCEPT ![n] = Dispatched(windows[n])]
      /\ Dispatched(windows[n]) \in Window
  BY PollStep, DispatchedTyped DEF Inv
<1>2. /\ DOMAIN windows' = DOMAIN windows
      /\ windows' \in [DOMAIN windows' -> Window]
  BY <1>1, Replaced DEF Inv
<1>3. running' \in BOOLEAN
  BY DEF PollEvents, Inv, TypeOK
<1>4. /\ UNCHANGED <<server, happened, opened, pc, todo, last, matrix>>
      /\ current' = n /\ pc = "poll"
  BY DEF PollEvents, Turn
<1>5. TypeOK'
  BY <1>2, <1>3, <1>4 DEF Inv, TypeOK
<1>6. ControlInv'
  BY <1>2, <1>4 DEF Inv, ControlInv
<1> QED
  BY <1>5, <1>6 DEF Inv

LEMMA BeginStep ==
  ASSUME TypeOK, NEW n \in todo, BeginWindow(n)
  PROVE  /\ n \in DOMAIN windows /\ windows[n] \in Window
         /\ \E keys \in {KeyboardState(windows[n]), {}} :
              /\ keys \in SUBSET Keys
              /\ windows' = [windows EXCEPT ![n] = Begun(windows[n], keys)]
PROOF BY DEF TypeOK, BeginWindow, Begun, KeyboardState

LEMMA BeginInv ==
  ASSUME Inv, NEW n \in todo, BeginWindow(n)
  PROVE  Inv'
PROOF
<1>1. PICK keys \in SUBSET Keys :
        windows' = [windows EXCEPT ![n] = Begun(windows[n], keys)]
  BY BeginStep DEF Inv
<1>2. n \in DOMAIN windows /\ Begun(windows[n], keys) \in Window
  BY BeginStep, BegunTyped DEF Inv
<1>3. /\ DOMAIN windows' = DOMAIN windows
      /\ windows' \in [DOMAIN windows' -> Window]
  BY <1>1, <1>2, Replaced DEF Inv
<1>4. /\ UNCHANGED <<server, happened, opened, pc, last, matrix, running>>
      /\ current' = NoWindow /\ pc = "poll" /\ todo' = todo \ {n}
  BY DEF BeginWindow, Turn
<1>5. TypeOK'
  BY <1>3, <1>4 DEF Inv, TypeOK
<1>6. ControlInv'
  BY <1>3, <1>4 DEF Inv, ControlInv
<1> QED
  BY <1>5, <1>6 DEF Inv

LEMMA FrameInv ==
  ASSUME Inv, BeginFrame \/ EndPolling \/ EndFrame
  PROVE  Inv'
PROOF
<1>1. CASE BeginFrame
  BY <1>1 DEF BeginFrame, Inv, TypeOK, ControlInv
<1>2. CASE EndPolling
  BY <1>2 DEF EndPolling, Inv, TypeOK, ControlInv
<1>3. CASE EndFrame
  BY <1>3 DEF EndFrame, Inv, TypeOK, ControlInv
<1> QED
  BY <1>1, <1>2, <1>3

LEMMA BeginFailsInv ==
  ASSUME Inv, NEW n \in todo, BeginWindowFails(n)
  PROVE  Inv'
PROOF BY DEF BeginWindowFails, Turn, Inv, TypeOK, ControlInv

\* A pass is put before those recorded.
LEMMA RecordStep ==
  ASSUME Inv, NEW n \in todo, RecordPass(n)
  PROVE  /\ n \in DOMAIN windows
         /\ last' \in Seq(DOMAIN windows) /\ last' # <<>> /\ last'[1] = n
PROOF
<1>1. n \in DOMAIN windows /\ last \in Seq(DOMAIN windows)
  BY DEF Inv, TypeOK
<1>2. last' = <<n>> \o last
  BY DEF RecordPass
<1> QED
  BY <1>1, <1>2

LEMMA RecordInv ==
  ASSUME Inv, NEW n \in todo, RecordPass(n)
  PROVE  Inv'
PROOF
<1>1. n \in DOMAIN windows /\ last' \in Seq(DOMAIN windows) /\ last' # <<>>
  BY RecordStep
<1>2. matrix' \in [projection : Projections, inverse : BOOLEAN]
  <2>1. windows[n] \in Window
    BY <1>1 DEF Inv, TypeOK
  <2> QED
    BY <2>1 DEF RecordPass, WriteMatrices, Matrices, Window
<1>3. /\ UNCHANGED <<server, happened, windows, opened, pc, current, running>>
      /\ pc = "record" /\ todo' = todo \ {n}
  BY DEF RecordPass
<1>4. TypeOK'
  BY <1>1, <1>2, <1>3 DEF Inv, TypeOK, ControlInv
<1>5. ControlInv'
  BY <1>1, <1>3 DEF Inv, ControlInv
<1> QED
  BY <1>4, <1>5 DEF Inv

LEMMA InitInv == Init => Inv
PROOF
<1> SUFFICES ASSUME Init PROVE Inv
  OBVIOUS
<1>1. DOMAIN windows = {} /\ windows \in [DOMAIN windows -> Window]
  BY DEF Init
<1>2. matrix \in [projection : Projections, inverse : BOOLEAN]
  BY DEF Init, Projections, UInt16
<1> QED
  BY <1>1, <1>2, WindowEventsAssumption DEF Init, Inv, TypeOK, ControlInv

LEMMA NextInv == Inv /\ [Next]_vars => Inv'
PROOF
<1> SUFFICES ASSUME Inv, [Next]_vars PROVE Inv'
  OBVIOUS
<1>1. CASE UNCHANGED vars
  BY <1>1 DEF vars, frameVars, Inv, TypeOK, ControlInv
<1>2. CASE Next
  BY <1>2, ServerInv, OpenInv, OpenFailsInv, FrameInv, PollInv, BeginInv,
     BeginFailsInv, RecordInv DEF Next
<1> QED
  BY <1>1, <1>2

\* All variables have their types: whatever the server sends, whoever is
\* opened and moved, every window of Windows() is a whole window, a loop visits
\* only windows that are there, and every width is one of 16 bits.
THEOREM TypeCorrect == Spec => []TypeOK
PROOF
<1>1. Spec => []Inv
  BY InitInv, NextInv, PTL DEF Spec
<1>2. Inv => TypeOK
  BY DEF Inv
<1> QED
  BY <1>1, <1>2, PTL
-----------------------------------------------------------------------------
(* What a step does to each window.                                         *)

\* The program's steps, and the server's.
Handled(w, v) ==
  \/ v = w
  \/ v = Move(w)
  \/ w.events # <<>> /\ v = Dispatched(w)
  \/ \E keys \in SUBSET Keys : v = Begun(w, keys)

Stepped(w, v) ==
  \/ Handled(w, v)
  \/ \E event \in Event : v = Sent(w, event)

LEMMA HandledSteps ==
  ASSUME Inv, [Next]_vars, ~ServerNext
  PROVE  /\ UNCHANGED server
         /\ \A n \in DOMAIN windows :
              /\ n \in DOMAIN windows'
              /\ Handled(windows[n], windows'[n])
              /\ opened' # opened =>
                   windows'[n] \in {windows[n], Move(windows[n])}
         /\ \A n \in DOMAIN windows' \ DOMAIN windows :
              \E width \in Widths, answered \in SUBSET Keys :
                /\ Create(width, answered) \in Window
                /\ windows'[n] = Fresh(width, answered)
PROOF
<1> DEFINE Old == \A n \in DOMAIN windows :
                    /\ n \in DOMAIN windows'
                    /\ Handled(windows[n], windows'[n])
                    /\ opened' # opened =>
                         windows'[n] \in {windows[n], Move(windows[n])}
           New == \A n \in DOMAIN windows' \ DOMAIN windows :
                    \E width \in Widths, answered \in SUBSET Keys :
                      /\ Create(width, answered) \in Window
                      /\ windows'[n] = Fresh(width, answered)
<1>1. ASSUME UNCHANGED windows
      PROVE  Old /\ New
  BY <1>1 DEF Handled
<1>2. ASSUME NEW n \in DOMAIN windows, NEW w \in Window,
             windows' = [windows EXCEPT ![n] = w], Handled(windows[n], w),
             UNCHANGED opened
      PROVE  Old /\ New
  <2>1. /\ DOMAIN windows' = DOMAIN windows /\ windows'[n] = w
        /\ \A m \in DOMAIN windows : m # n => windows'[m] = windows[m]
    BY <1>2, Replaced DEF Inv
  <2>2. \A m \in DOMAIN windows : Handled(windows[m], windows'[m])
    BY <1>2, <2>1 DEF Handled
  <2> QED
    BY <1>2, <2>1, <2>2
<1>3. UNCHANGED server
  BY DEF Next, OpenWindow, OpenFails, BeginFrame, PollEvents, BeginWindow,
     BeginWindowFails, EndPolling, RecordPass, EndFrame, vars
<1>4. ASSUME NEW n \in Names, NEW width \in Widths, NEW answered \in SUBSET Keys,
             OpenWindow(n, width, answered)
      PROVE  Old /\ New
  <2>1. Opened(n, Fresh(width, answered))
    BY <1>4, OpenOpens DEF Inv
  <2>2. Create(width, answered) \in Window
    BY <1>4, CreateTyped DEF OpenWindow, Inv
  <2>3. Old
    BY <2>1 DEF Opened, Handled
  <2>4. New
    BY <2>1, <2>2 DEF Opened
  <2> QED
    BY <2>3, <2>4
<1>5. ASSUME NEW n \in todo, PollEvents(n)
      PROVE  Old /\ New
  <2>1. /\ n \in DOMAIN windows /\ windows[n] \in Window
        /\ windows[n].events # <<>>
        /\ windows' = [windows EXCEPT ![n] = Dispatched(windows[n])]
    BY <1>5, PollStep DEF Inv
  <2>2. Dispatched(windows[n]) \in Window
    BY <2>1, DispatchedTyped
  <2>3. Handled(windows[n], Dispatched(windows[n])) /\ UNCHANGED opened
    BY <1>5, <2>1 DEF Handled, PollEvents
  <2> QED
    BY <1>2, <2>1, <2>2, <2>3
<1>6. ASSUME NEW n \in todo, BeginWindow(n)
      PROVE  Old /\ New
  <2>1. n \in DOMAIN windows /\ windows[n] \in Window
    BY <1>6, BeginStep DEF Inv
  <2>2. PICK keys \in SUBSET Keys :
          windows' = [windows EXCEPT ![n] = Begun(windows[n], keys)]
    BY <1>6, BeginStep DEF Inv
  <2>3. Begun(windows[n], keys) \in Window
    BY <2>1, BegunTyped
  <2>4. Handled(windows[n], Begun(windows[n], keys)) /\ UNCHANGED opened
    BY <1>6 DEF Handled, BeginWindow
  <2> QED
    BY <1>2, <2>1, <2>2, <2>3, <2>4
<1>7. CASE \/ OpenFails \/ BeginFrame \/ EndPolling \/ EndFrame
           \/ \E n \in todo : BeginWindowFails(n) \/ RecordPass(n)
           \/ UNCHANGED vars
  BY <1>1, <1>7 DEF OpenFails, BeginFrame, EndPolling, EndFrame,
     BeginWindowFails, RecordPass, vars
<1> QED
  BY <1>3, <1>4, <1>5, <1>6, <1>7 DEF Next

LEMMA EachSteps ==
  ASSUME Inv, [Next]_vars
  PROVE  /\ \A n \in DOMAIN windows :
              /\ n \in DOMAIN windows'
              /\ Stepped(windows[n], windows'[n])
              /\ opened' # opened =>
                   windows'[n] \in {windows[n], Move(windows[n])}
         /\ \A n \in DOMAIN windows' \ DOMAIN windows :
              \E width \in Widths, answered \in SUBSET Keys :
                /\ Create(width, answered) \in Window
                /\ windows'[n] = Fresh(width, answered)
PROOF
<1>1. CASE ServerNext
  <2>1. Sends /\ UNCHANGED opened
    BY <1>1, ServerSends
  <2>2. DOMAIN windows' = DOMAIN windows
    BY <2>1, SendsTyped DEF Inv
  <2>3. ASSUME NEW m \in DOMAIN windows, NEW event \in Event,
               windows' = [windows EXCEPT ![m] = Sent(windows[m], event)],
               NEW n \in DOMAIN windows
        PROVE  Stepped(windows[n], windows'[n])
    <3>1. Sent(windows[m], event) \in Window
      BY SentTyped DEF Inv, TypeOK
    <3>2. /\ windows'[m] = Sent(windows[m], event)
          /\ m # n => windows'[n] = windows[n]
      BY <2>3, <3>1, Replaced DEF Inv
    <3> QED
      BY <3>2 DEF Stepped, Handled
  <2>4. \A n \in DOMAIN windows : Stepped(windows[n], windows'[n])
    BY <2>1, <2>3 DEF Sends, Stepped, Handled
  <2> QED
    BY <2>1, <2>2, <2>4
<1>2. CASE ~ServerNext
  BY <1>2, HandledSteps DEF Stepped
<1> QED
  BY <1>1, <1>2
-----------------------------------------------------------------------------
(* Identity, and what the size brings about.                                *)

LEMMA MoveKeeps ==
  ASSUME NEW w \in Window
  PROVE  /\ w.delegates = "this" =>
              \A field \in Kept : Move(w)[field] = w[field]
         /\ Move(w).serial = w.serial
PROOF
<1>1. /\ Move(w).size = w.size /\ Move(w).events = w.events
      /\ Move(w).rect = w.rect /\ Move(w).closed = w.closed
      /\ Move(w).projection = w.projection /\ Move(w).keyLUT = w.keyLUT
      /\ Move(w).buttons = w.buttons /\ Move(w).keysDown = w.keysDown
      /\ Move(w).mouseDown = w.mouseDown /\ Move(w).serial = w.serial
      /\ Move(w).delegates = "this"
  BY DEF Move, Relocated, Window
<1> QED
  BY <1>1 DEF Kept

LEMMA DispatchedKeeps ==
  ASSUME NEW w \in Window, w.events # <<>>
  PROVE  /\ Dispatched(w).serial = w.serial
         /\ Dispatched(w).delegates = w.delegates
         /\ Dispatched(w).mapping = w.mapping
         /\ Dispatched(w).keyLUT = w.keyLUT
         /\ Dispatched(w).size = w.size
         /\ Dispatched(w).events = Tail(w.events)
PROOF
<1>1. Head(w.events) \in Event
  BY HeadTailProperties DEF Window
<1> QED
  BY <1>1, EventFields
     DEF Dispatched, Dispatch, Configures, Resize, Window

LEMMA SteppedSerial ==
  ASSUME NEW w \in Window, NEW v, Stepped(w, v)
  PROVE  v.serial = w.serial
PROOF BY MoveKeeps, DispatchedKeeps DEF Stepped, Handled, Sent, Begun, Window

\* What is true of each window, its projection and its delegates.
Follows(w) ==
  /\ w.delegates = "this"
  /\ w.projection = [size |-> w.rect, flipped |-> w.resizedWhen = "never"]
  /\ WillBe(w, w.size)
  /\ w.inverse <=> w.resizedWhen = "since"

LEMMA SameEvents ==
  ASSUME NEW w, NEW v, v.events = w.events, v.rect = w.rect, v.size = w.size
  PROVE  WillBe(v, v.size) <=> WillBe(w, w.size)
PROOF BY DEF WillBe, IsLast

LEMMA FreshFollows ==
  ASSUME NEW width \in Widths, NEW answered \in SUBSET Keys,
         Create(width, answered) \in Window
  PROVE  Follows(Fresh(width, answered))
PROOF
<1> DEFINE w == Fresh(width, answered)
<1>1. /\ w.events = <<>> /\ w.rect = w.size /\ w.resizedWhen = "never"
      /\ w.inverse = FALSE /\ w.delegates = "this"
      /\ w.projection = [size |-> w.rect, flipped |-> TRUE]
  BY DEF Fresh, Move, Relocated, Create, Perspective
<1>2. WillBe(w, w.size)
  BY <1>1 DEF WillBe
<1> QED
  BY <1>1, <1>2 DEF Follows

LEMMA MoveFollows ==
  ASSUME NEW w \in Window, Follows(w)
  PROVE  Follows(Move(w))
PROOF
<1>1. /\ Move(w).events = w.events /\ Move(w).rect = w.rect
      /\ Move(w).size = w.size /\ Move(w).delegates = "this"
      /\ Move(w).projection = w.projection /\ Move(w).inverse = FALSE
      /\ Move(w).resizedWhen =
           IF w.resizedWhen = "since" THEN "before the last move"
           ELSE w.resizedWhen
  BY DEF Move, Relocated, Window
<1>2. WillBe(Move(w), Move(w).size)
  BY <1>1, SameEvents DEF Follows
<1> QED
  BY <1>1, <1>2 DEF Follows

LEMMA BegunFollows ==
  ASSUME NEW w \in Window, Follows(w), NEW keys
  PROVE  Follows(Begun(w, keys))
PROOF
<1>1. LET v == Begun(w, keys)
      IN /\ v.events = w.events /\ v.rect = w.rect /\ v.size = w.size
         /\ v.delegates = w.delegates /\ v.projection = w.projection
         /\ v.inverse = w.inverse /\ v.resizedWhen = w.resizedWhen
  BY DEF Begun, Window
<1>2. WillBe(Begun(w, keys), Begun(w, keys).size)
  BY <1>1, SameEvents DEF Follows
<1> QED
  BY <1>1, <1>2 DEF Follows

LEMMA SentFollows ==
  ASSUME NEW w \in Window, Follows(w), NEW event \in Event
  PROVE  Follows(Sent(w, event))
PROOF
<1> DEFINE v == Sent(w, event)
           L == Len(w.events)
<1>1. /\ v.events = Append(w.events, event) /\ v.rect = w.rect
      /\ v.size = IF event.kind = "configure" THEN event.size ELSE w.size
      /\ v.delegates = w.delegates /\ v.projection = w.projection
      /\ v.inverse = w.inverse /\ v.resizedWhen = w.resizedWhen
  BY DEF Sent, Window
<1>2. /\ L \in Nat /\ DOMAIN w.events = 1..L /\ DOMAIN v.events = 1..(L + 1)
      /\ v.events[L + 1] = event
      /\ \A i \in 1..L : v.events[i] = w.events[i]
  <2>1. w.events \in Seq(Event)
    BY DEF Window
  <2> QED
    BY <1>1, <2>1, AppendProperties
<1> HIDE DEF v, L
<1>3. WillBe(v, v.size)
  <2>1. CASE event.kind = "configure"
    <3>1. IsLast(v, L + 1, Tells) /\ v.events[L + 1].size = v.size
      BY <1>1, <1>2, <2>1 DEF IsLast, Tells
    <3> QED
      BY <1>2, <3>1 DEF WillBe, IsLast, Tells
  <2>2. CASE event.kind # "configure"
    <3>1. ~Tells(v.events[L + 1]) /\ v.size = w.size
      BY <1>1, <1>2, <2>2 DEF Tells
    <3>2. WillBe(w, w.size)
      BY DEF Follows
    <3>3. \A i \in 1..L : Tells(v.events[i]) <=> Tells(w.events[i])
      BY <1>2 DEF Tells
    <3>4. CASE \E i \in DOMAIN w.events : Tells(w.events[i])
      <4>1. PICK i \in 1..L : IsLast(w, i, Tells) /\ w.events[i].size = w.size
        BY <1>2, <3>2, <3>4 DEF WillBe
      <4>2. IsLast(v, i, Tells) /\ v.events[i].size = v.size
        BY <1>2, <3>1, <3>3, <4>1 DEF IsLast
      <4> QED
        BY <1>2, <4>1, <4>2 DEF WillBe, IsLast
    <3>5. CASE ~ \E i \in DOMAIN w.events : Tells(w.events[i])
      <4>1. ~ \E i \in DOMAIN v.events : Tells(v.events[i])
        BY <1>2, <3>1, <3>3, <3>5
      <4>2. v.rect = v.size
        BY <1>1, <3>1, <3>2, <3>5 DEF WillBe
      <4> QED
        BY <4>1, <4>2 DEF WillBe
    <3> QED
      BY <3>4, <3>5
  <2> QED
    BY <2>1, <2>2
<1> QED
  BY <1>1, <1>3 DEF Follows, v

LEMMA DispatchedFollows ==
  ASSUME NEW w \in Window, w.events # <<>>, Follows(w)
  PROVE  Follows(Dispatched(w))
PROOF
<1> DEFINE v     == Dispatched(w)
           event == Head(w.events)
           L     == Len(w.events)
<1>1. /\ L \in Nat \ {0} /\ DOMAIN w.events = 1..L
      /\ event = w.events[1] /\ event \in Event
      /\ DOMAIN Tail(w.events) = 1..(L - 1)
      /\ \A i \in 1..(L - 1) : Tail(w.events)[i] = w.events[i + 1]
  <2>1. w.events \in Seq(Event)
    BY DEF Window
  <2> QED
    BY <2>1, HeadTailProperties
<1>2. v.events = Tail(w.events) /\ v.size = w.size /\ v.delegates = "this"
  BY DispatchedKeeps DEF Follows
<1>3. /\ v.projection = [size |-> v.rect, flipped |-> v.resizedWhen = "never"]
      /\ v.inverse <=> v.resizedWhen = "since"
      /\ v.rect = IF event.kind = "configure" THEN event.size ELSE w.rect
  <2>1. CASE event.kind = "configure"
    <3>1. v = Configures([w EXCEPT !.events = Tail(@)], event.size)
      BY <2>1 DEF Dispatched, Dispatch
    <3> DEFINE u == [w EXCEPT !.events = Tail(@)]
               x == [u EXCEPT !.rect = event.size]
    <3>2. /\ u.rect = w.rect /\ u.projection = w.projection
          /\ u.inverse = w.inverse /\ u.resizedWhen = w.resizedWhen
          /\ u.delegates = "this"
      BY DEF Follows, Window
    <3>3. CASE event.size = w.rect
      <4>1. v = u
        BY <3>1, <3>2, <3>3 DEF Configures
      <4> QED
        BY <2>1, <3>2, <3>3, <4>1 DEF Follows
    <3>4. CASE event.size # w.rect
      <4>1. v = Resize(x, event.size)
        BY <3>1, <3>2, <3>4 DEF Configures
      <4>2. /\ v.rect = event.size /\ v.inverse = TRUE
            /\ v.resizedWhen = "since" /\ v.projection = Perspective(event.size)
        BY <4>1 DEF Resize, Window
      <4> QED
        BY <2>1, <4>2 DEF Perspective
    <3> QED
      BY <3>3, <3>4
  <2>2. CASE event.kind # "configure"
    <3>1. /\ v.rect = w.rect /\ v.projection = w.projection
          /\ v.inverse = w.inverse /\ v.resizedWhen = w.resizedWhen
      BY <1>1, <2>2, EventFields DEF Dispatched, Dispatch, Window
    <3> QED
      BY <2>2, <3>1 DEF Follows
  <2> QED
    BY <2>1, <2>2
<1> HIDE DEF v, event, L
<1>4. \A i \in 1..(L - 1) : Tells(v.events[i]) <=> Tells(w.events[i + 1])
  BY <1>1, <1>2 DEF Tells
<1>5. WillBe(w, w.size)
  BY DEF Follows
<1>6. WillBe(v, v.size)
  <2>1. CASE ~ \E i \in DOMAIN w.events : Tells(w.events[i])
    <3>1. ~ \E i \in DOMAIN v.events : Tells(v.events[i])
      BY <1>1, <1>2, <1>4, <2>1
    <3>2. v.rect = v.size
      BY <1>1, <1>2, <1>3, <1>5, <2>1 DEF WillBe, Tells
    <3> QED
      BY <3>1, <3>2 DEF WillBe
  <2>2. CASE \E i \in DOMAIN w.events : Tells(w.events[i])
    <3>1. PICK i \in 1..L : IsLast(w, i, Tells) /\ w.events[i].size = w.size
      BY <1>1, <1>5, <2>2 DEF WillBe
    <3>2. CASE i = 1
      <4>1. v.rect = v.size
        BY <1>1, <1>2, <1>3, <3>1, <3>2 DEF IsLast, Tells
      <4>2. ~ \E j \in DOMAIN v.events : Tells(v.events[j])
        BY <1>1, <1>2, <1>4, <3>1, <3>2 DEF IsLast
      <4> QED
        BY <4>1, <4>2 DEF WillBe
    <3>3. CASE i # 1
      <4>1. i - 1 \in 1..(L - 1) /\ v.events[i - 1] = w.events[i]
        BY <1>1, <1>2, <3>3
      <4>2. IsLast(v, i - 1, Tells) /\ v.events[i - 1].size = v.size
        BY <1>1, <1>2, <1>4, <3>1, <4>1 DEF IsLast
      <4> QED
        BY <1>1, <1>2, <4>1, <4>2 DEF WillBe, IsLast
    <3> QED
      BY <3>2, <3>3
  <2> QED
    BY <2>1, <2>2
<1> QED
  BY <1>2, <1>3, <1>6 DEF Follows, v

FollowInv == Inv /\ \A n \in DOMAIN windows : Follows(windows[n])

LEMMA FollowNext == FollowInv /\ [Next]_vars => FollowInv'
PROOF
<1> SUFFICES ASSUME FollowInv, [Next]_vars PROVE FollowInv'
  OBVIOUS
<1>1. Inv'
  BY NextInv DEF FollowInv
<1>2. ASSUME NEW n \in DOMAIN windows PROVE Follows(windows'[n])
  <2>1. windows[n] \in Window /\ Follows(windows[n])
    BY DEF FollowInv, Inv, TypeOK
  <2>2. Stepped(windows[n], windows'[n])
    BY EachSteps DEF FollowInv
  <2> QED
    BY <2>1, <2>2, MoveFollows, SentFollows, DispatchedFollows, BegunFollows
       DEF Stepped, Handled
<1>3. ASSUME NEW n \in DOMAIN windows' \ DOMAIN windows
      PROVE  Follows(windows'[n])
  BY <1>3, EachSteps, FreshFollows DEF FollowInv
<1>4. \A n \in DOMAIN windows' : Follows(windows'[n])
  BY <1>2, <1>3
<1> QED
  BY <1>1, <1>4 DEF FollowInv, Follows, WillBe, IsLast, Tells

LEMMA FollowAlways == Spec => []FollowInv
PROOF
<1>1. Init => FollowInv
  <2> SUFFICES ASSUME Init PROVE FollowInv
    OBVIOUS
  <2>1. DOMAIN windows = {}
    BY DEF Init
  <2> QED
    BY <2>1, InitInv DEF FollowInv
<1> QED
  BY <1>1, FollowNext, PTL DEF Spec

\* However often a window is moved, resized and closed, its projection is for
\* the size it knows of, its pending events bring that to the server's size,
\* and it has an inverse just when it was resized since it was moved.
THEOREM ProjectionFollowsCorrect == Spec => []ProjectionFollows
PROOF
<1>1. FollowInv => ProjectionFollows
  BY DEF FollowInv, Follows, ProjectionFollows
<1> QED
  BY <1>1, FollowAlways, PTL

\* A window keeps its name and its serial for good, and all that Kept names
\* when another is opened, under its name or a new one, with or without a
\* rehash of Windows().
THEOREM FirstComeStaysCorrect == Spec => FirstComeStays
PROOF
<1> DEFINE Stays ==
      \A n \in DOMAIN windows :
        /\ n \in DOMAIN windows'
        /\ windows'[n].serial = windows[n].serial
        /\ opened' # opened =>
             \A field \in Kept : windows'[n][field] = windows[n][field]
<1>1. FollowInv /\ [Next]_vars => Stays
  <2> SUFFICES ASSUME FollowInv, [Next]_vars, NEW n \in DOMAIN windows
               PROVE  /\ n \in DOMAIN windows'
                      /\ windows'[n].serial = windows[n].serial
                      /\ opened' # opened =>
                           \A field \in Kept :
                             windows'[n][field] = windows[n][field]
    OBVIOUS
  <2>1. windows[n] \in Window /\ windows[n].delegates = "this"
    BY DEF FollowInv, Follows, Inv, TypeOK
  <2>2. /\ n \in DOMAIN windows' /\ Stepped(windows[n], windows'[n])
        /\ opened' # opened => windows'[n] \in {windows[n], Move(windows[n])}
    BY EachSteps DEF FollowInv
  <2> QED
    BY <2>1, <2>2, SteppedSerial, MoveKeeps
<1>2. Spec => [][Stays]_vars
  BY <1>1, FollowAlways, PTL DEF Spec
<1> QED
  BY <1>2 DEF FirstComeStays
-----------------------------------------------------------------------------
(* The matrices of a frame.                                                 *)

\* The matrices in the buffer are those of the window recorded last.
MatrixInv ==
  pc = "record" /\ last # <<>> =>
    /\ last[1] \in DOMAIN windows
    /\ matrix = Matrices(last[1])

LEMMA SendsKeepMatrices ==
  ASSUME TypeOK, Sends, NEW n \in DOMAIN windows
  PROVE  Matrices(n)' = Matrices(n)
PROOF
<1>1. CASE UNCHANGED windows
  BY <1>1 DEF Matrices
<1>2. ASSUME NEW m \in DOMAIN windows, NEW event \in Event,
             windows' = [windows EXCEPT ![m] = Sent(windows[m], event)]
      PROVE  Matrices(n)' = Matrices(n)
  <2>1. windows[m] \in Window /\ Sent(windows[m], event) \in Window
    BY SentTyped DEF TypeOK
  <2>2. /\ Sent(windows[m], event).projection = windows[m].projection
        /\ Sent(windows[m], event).inverse = windows[m].inverse
    BY <2>1 DEF Sent, Window
  <2>3. /\ windows'[m] = Sent(windows[m], event)
        /\ m # n => windows'[n] = windows[n]
    BY <1>2, <2>1, Replaced
  <2> QED
    BY <2>2, <2>3 DEF Matrices
<1> QED
  BY <1>1, <1>2 DEF Sends

LEMMA MatrixNext == Inv /\ MatrixInv /\ [Next]_vars => MatrixInv'
PROOF
<1> SUFFICES ASSUME Inv, MatrixInv, [Next]_vars PROVE MatrixInv'
  OBVIOUS
<1>1. CASE ServerNext
  <2>1. Sends /\ UNCHANGED <<pc, last, matrix>>
    BY <1>1, ServerSends DEF frameVars
  <2>2. DOMAIN windows' = DOMAIN windows
    BY <2>1, SendsTyped DEF Inv
  <2> QED
    BY <2>1, <2>2, SendsKeepMatrices DEF MatrixInv, Inv
<1>2. ASSUME NEW n \in todo, RecordPass(n)
      PROVE  MatrixInv'
  <2>1. n \in DOMAIN windows /\ last'[1] = n
    BY <1>2, RecordStep
  <2>2. UNCHANGED windows /\ matrix' = Matrices(n)
    BY <1>2 DEF RecordPass, WriteMatrices
  <2> QED
    BY <2>1, <2>2 DEF MatrixInv, Matrices
<1>3. ASSUME NEW n \in Names, NEW width \in Widths, NEW answered \in SUBSET Keys,
             OpenWindow(n, width, answered)
      PROVE  MatrixInv'
  BY <1>3 DEF OpenWindow, MatrixInv
<1>4. ASSUME NEW n \in todo,
             PollEvents(n) \/ BeginWindow(n) \/ BeginWindowFails(n)
      PROVE  MatrixInv'
  BY <1>4 DEF PollEvents, BeginWindow, BeginWindowFails, Turn, MatrixInv
<1>5. CASE BeginFrame \/ EndPolling \/ EndFrame
  BY <1>5 DEF BeginFrame, EndPolling, EndFrame, MatrixInv, Inv, ControlInv
<1>6. CASE OpenFails \/ UNCHANGED vars
  BY <1>6 DEF OpenFails, vars, frameVars, MatrixInv, Matrices
<1> QED
  BY <1>1, <1>2, <1>3, <1>4, <1>5, <1>6 DEF Next

LEMMA ProjectionsDiffer ==
  ASSUME NEW s, NEW t, NEW f \in BOOLEAN, NEW g \in BOOLEAN
  PROVE  [size |-> s, flipped |-> f] = [size |-> t, flipped |-> g]
           <=> s = t /\ (f <=> g)
PROOF
<1> DEFINE p == [size |-> s, flipped |-> f]
           q == [size |-> t, flipped |-> g]
<1>1. p.size = s /\ q.size = t /\ p.flipped = f /\ q.flipped = g
  OBVIOUS
<1>2. s = t /\ f = g => p = q
  OBVIOUS
<1> QED
  BY <1>1, <1>2

\* When all passes of a frame are recorded, whatever the number of windows and
\* the order of the passes, the one matrix buffer has the projection of the
\* window recorded last: that of another just if they agree in size and in
\* whether they were ever resized.
THEOREM FrameReadsOneWindowCorrect == Spec => []FrameReadsOneWindow
PROOF
<1>1. Init => MatrixInv
  BY DEF Init, MatrixInv
<1>2. Spec => [](FollowInv /\ MatrixInv)
  <2>1. FollowInv => Inv
    BY DEF FollowInv
  <2> QED
    BY <1>1, <2>1, MatrixNext, FollowAlways, PTL DEF Spec
<1>3. FollowInv /\ MatrixInv => FrameReadsOneWindow
  <2> SUFFICES ASSUME FollowInv, MatrixInv, pc = "record", todo = {}
               PROVE  FrameReadsOneWindow
    BY DEF FrameReadsOneWindow
  <2>1. last # <<>>
    BY DEF FollowInv, Inv, ControlInv
  <2> DEFINE w == windows[last[1]]
  <2>2. /\ last[1] \in DOMAIN windows
        /\ matrix.projection = w.projection /\ matrix.inverse = w.inverse
    BY <2>1 DEF MatrixInv, Matrices
  <2>3. \A n \in DOMAIN windows :
          /\ windows[n].projection = [size |-> windows[n].rect,
                                     flipped |-> windows[n].resizedWhen = "never"]
          /\ windows[n].inverse <=> windows[n].resizedWhen = "since"
    BY DEF FollowInv, Follows
  <2>4. matrix.inverse <=> w.resizedWhen = "since"
    BY <2>2, <2>3
  <2>5. ASSUME NEW n \in DOMAIN windows
        PROVE  matrix.projection = windows[n].projection <=>
                 /\ windows[n].rect = w.rect
                 /\ (windows[n].resizedWhen = "never")
                      <=> (w.resizedWhen = "never")
    <3> DEFINE s == windows[n].rect
               t == w.rect
               f == windows[n].resizedWhen = "never"
               g == w.resizedWhen = "never"
    <3>1. /\ windows[n].projection = [size |-> s, flipped |-> f]
          /\ matrix.projection = [size |-> t, flipped |-> g]
      BY <2>2, <2>3
    <3>2. f \in BOOLEAN /\ g \in BOOLEAN
      OBVIOUS
    <3> HIDE DEF s, t, f, g
    <3>3. [size |-> s, flipped |-> f] = [size |-> t, flipped |-> g]
            <=> s = t /\ (f <=> g)
      BY <3>2, ProjectionsDiffer, Zenon
    <3>4. matrix.projection = windows[n].projection
            <=> [size |-> s, flipped |-> f] = [size |-> t, flipped |-> g]
      BY <3>1
    <3>5. matrix.projection = windows[n].projection <=> s = t /\ (f <=> g)
      BY <3>3, <3>4, Zenon
    <3> QED
      BY <3>5 DEF s, t, f, g
  <2> QED
    BY <2>4, <2>5 DEF FrameReadsOneWindow
<1> QED
  BY <1>2, <1>3, PTL
-----------------------------------------------------------------------------
(* The input.                                                               *)

\* The buttons that are held in the server, for each window.
HeldIn(n) == IF server.grab = n THEN server.held ELSE {}

ButtonsTrue(w, held) ==
  ~w.closed => \A b \in Pointer \cap DOMAIN Place :
                 b \in held <=> WillBeDown(w, w.buttons, b)

LEMMA ButtonOfPlace ==
  ASSUME NEW b \in DOMAIN Place
  PROVE  /\ b \in 1..3 /\ Button(b) = {Place[b]}
         /\ \A c \in Nat : c # b => Place[b] \notin Button(c)
PROOF
<1>1. b \in {1, 2, 3} /\ Place[1] = 0 /\ Place[2] = 2 /\ Place[3] = 1
  BY DEF Place
<1> QED
  BY <1>1 DEF Button

LEMMA SameButtons ==
  ASSUME NEW w, NEW v, NEW held, v.events = w.events, v.buttons = w.buttons,
         v.closed = w.closed, ButtonsTrue(w, held)
  PROVE  ButtonsTrue(v, held)
PROOF BY DEF ButtonsTrue, WillBeDown, IsLast

\* The last of the pending events of w that moves b is at i.
LastMove(w, i, b) ==
  /\ i \in DOMAIN w.events /\ Moves(w.events[i], b)
  /\ \A j \in DOMAIN w.events : j > i => ~Moves(w.events[j], b)

LEMMA DownByMoves ==
  ASSUME NEW w, NEW down, NEW b
  PROVE  WillBeDown(w, down, b) <=>
           IF \E i \in DOMAIN w.events : Moves(w.events[i], b)
           THEN \E i \in DOMAIN w.events :
                  LastMove(w, i, b) /\ w.events[i].kind = "press"
           ELSE Place[b] \in down
PROOF BY Zenon DEF WillBeDown, IsLast, LastMove

\* An event that is sent changes the button that it moves.
LEMMA SentButtons ==
  ASSUME NEW w \in Window, NEW event \in Event, NEW held, NEW after,
         ButtonsTrue(w, held),
         \A b \in Pointer \cap DOMAIN Place :
           b \in after <=> IF Moves(event, b) THEN event.kind = "press"
                           ELSE b \in held
  PROVE  ButtonsTrue(Sent(w, event), after)
PROOF
<1> DEFINE v == Sent(w, event)
           L == Len(w.events)
<1>1. /\ v.events = Append(w.events, event) /\ v.buttons = w.buttons
      /\ v.closed = w.closed
  BY DEF Sent, Window
<1>2. /\ L \in Nat /\ DOMAIN w.events = 1..L /\ DOMAIN v.events = 1..(L + 1)
      /\ v.events[L + 1] = event
      /\ \A i \in 1..L : v.events[i] = w.events[i]
  <2>1. w.events \in Seq(Event)
    BY DEF Window
  <2> QED
    BY <1>1, <2>1, AppendProperties
<1> HIDE DEF v, L
<1>3. ASSUME ~w.closed, NEW b \in Pointer \cap DOMAIN Place
      PROVE  b \in after <=> WillBeDown(v, v.buttons, b)
  <2>1. b \in held <=> WillBeDown(w, w.buttons, b)
    BY <1>3 DEF ButtonsTrue
  <2>2. \A i \in 1..L : Moves(v.events[i], b) <=> Moves(w.events[i], b)
    BY <1>2
  <2>3. CASE Moves(event, b)
    <3>1. LastMove(v, L + 1, b)
      BY <1>2, <2>3 DEF LastMove
    <3>2. \A i \in DOMAIN v.events : LastMove(v, i, b) => i = L + 1
      BY <1>2, <2>3 DEF LastMove
    <3>3. WillBeDown(v, v.buttons, b) <=> event.kind = "press"
      BY <1>2, <2>3, <3>1, <3>2, DownByMoves
    <3> QED
      BY <2>3, <3>3
  <2>4. CASE ~Moves(event, b)
    <3>1. CASE \E i \in DOMAIN w.events : Moves(w.events[i], b)
      <4>1. \A i \in 1..L : LastMove(v, i, b) <=> LastMove(w, i, b)
        BY <1>2, <2>2, <2>4 DEF LastMove
      <4>2. ~LastMove(v, L + 1, b)
        BY <1>2, <2>4 DEF LastMove
      <4>3. \E i \in DOMAIN v.events : Moves(v.events[i], b)
        BY <1>2, <2>2, <3>1
      <4>4. (\E i \in DOMAIN v.events :
               LastMove(v, i, b) /\ v.events[i].kind = "press")
            <=> \E i \in DOMAIN w.events :
                  LastMove(w, i, b) /\ w.events[i].kind = "press"
        <5>1. \A i \in DOMAIN v.events : i \in 1..L \/ i = L + 1
          BY <1>2
        <5>2. \A i \in DOMAIN v.events : LastMove(v, i, b) => i \in 1..L
          BY <4>2, <5>1
        <5>3. 1..L \subseteq DOMAIN v.events
          BY <1>2
        <5> QED
          BY <1>2, <4>1, <5>2, <5>3
      <4>5. WillBeDown(v, v.buttons, b) <=> WillBeDown(w, w.buttons, b)
        BY <3>1, <4>3, <4>4, DownByMoves
      <4> QED
        BY <2>1, <2>4, <4>5
    <3>2. CASE ~ \E i \in DOMAIN w.events : Moves(w.events[i], b)
      <4>1. ~ \E i \in DOMAIN v.events : Moves(v.events[i], b)
        BY <1>2, <2>2, <2>4, <3>2
      <4>2. WillBeDown(v, v.buttons, b) <=> WillBeDown(w, w.buttons, b)
        BY <1>1, <3>2, <4>1, DownByMoves
      <4> QED
        BY <2>1, <2>4, <4>2
    <3> QED
      BY <3>1, <3>2
  <2> QED
    BY <2>3, <2>4
<1> QED
  BY <1>1, <1>3 DEF ButtonsTrue, v

\* An event that is dispatched tells as much before as after.
LEMMA DispatchedButtons ==
  ASSUME NEW w \in Window, w.events # <<>>, NEW held, ButtonsTrue(w, held)
  PROVE  ButtonsTrue(Dispatched(w), held)
PROOF
<1> DEFINE v     == Dispatched(w)
           event == Head(w.events)
           L     == Len(w.events)
<1>1. /\ L \in Nat \ {0} /\ DOMAIN w.events = 1..L
      /\ event = w.events[1] /\ event \in Event
      /\ DOMAIN Tail(w.events) = 1..(L - 1)
      /\ \A i \in 1..(L - 1) : Tail(w.events)[i] = w.events[i + 1]
  <2>1. w.events \in Seq(Event)
    BY DEF Window
  <2> QED
    BY <2>1, HeadTailProperties
<1>2. v.events = Tail(w.events)
  BY DispatchedKeeps
<1>3. /\ v.closed = (w.closed \/ event.kind = "close")
      /\ v.buttons = IF event.kind = "press"
                     THEN w.buttons \cup Button(event.button)
                     ELSE IF event.kind = "release"
                     THEN w.buttons \ Button(event.button)
                     ELSE w.buttons
  BY <1>1, EventFields DEF Dispatched, Dispatch, Configures, Resize, Window
<1>4. event.kind \in {"press", "release"} => event.button \in Nat
  <2>1. \A c \in Pointer : c \in Nat
    BY WindowEventsAssumption
  <2> QED
    BY <1>1, <2>1, EventFields
<1> HIDE DEF v, event, L
<1>5. ASSUME ~w.closed, NEW b \in Pointer \cap DOMAIN Place
      PROVE  b \in held <=> WillBeDown(v, v.buttons, b)
  <2>1. b \in held <=> WillBeDown(w, w.buttons, b)
    BY <1>5 DEF ButtonsTrue
  <2>2. \A i \in 1..(L - 1) : v.events[i] = w.events[i + 1]
    BY <1>1, <1>2
  <2>3. CASE \E i \in DOMAIN v.events : Moves(v.events[i], b)
    <3>1. PICK i \in 1..(L - 1) : Moves(w.events[i + 1], b)
      BY <1>1, <1>2, <2>2, <2>3
    <3>2. ASSUME NEW j \in 1..(L - 1)
          PROVE  LastMove(v, j, b) <=> LastMove(w, j + 1, b)
      <4>1. ASSUME LastMove(v, j, b), NEW k \in 1..L, k > j + 1
            PROVE  ~Moves(w.events[k], b)
        <5>1. k - 1 \in 1..(L - 1) /\ (k - 1) + 1 = k /\ k - 1 > j
          BY <1>1, <4>1
        <5>2. v.events[k - 1] = w.events[k]
          BY <2>2, <5>1
        <5> QED
          BY <1>1, <1>2, <4>1, <5>1, <5>2 DEF LastMove
      <4>2. ASSUME LastMove(w, j + 1, b), NEW k \in 1..(L - 1), k > j
            PROVE  ~Moves(v.events[k], b)
        <5>1. k + 1 \in 1..L /\ k + 1 > j + 1
          BY <1>1, <4>2
        <5> QED
          BY <1>1, <2>2, <4>2, <5>1 DEF LastMove
      <4>3. j + 1 \in 1..L /\ v.events[j] = w.events[j + 1]
        BY <1>1, <2>2
      <4> QED
        BY <1>1, <1>2, <4>1, <4>2, <4>3 DEF LastMove
    <3>3. ~LastMove(w, 1, b)
      BY <1>1, <3>1 DEF LastMove
    <3>4. (\E j \in DOMAIN v.events :
             LastMove(v, j, b) /\ v.events[j].kind = "press")
          => \E j \in DOMAIN w.events :
               LastMove(w, j, b) /\ w.events[j].kind = "press"
      BY <1>1, <1>2, <2>2, <3>2
    <3>5. ASSUME NEW j \in DOMAIN w.events, LastMove(w, j, b),
                 w.events[j].kind = "press"
          PROVE  \E k \in DOMAIN v.events :
                   LastMove(v, k, b) /\ v.events[k].kind = "press"
      <4>1. j - 1 \in 1..(L - 1) /\ j = (j - 1) + 1
        BY <1>1, <3>3, <3>5
      <4> QED
        BY <1>1, <1>2, <2>2, <3>2, <3>5, <4>1
    <3>6. \E j \in DOMAIN w.events : Moves(w.events[j], b)
      BY <1>1, <3>1
    <3>7. WillBeDown(v, v.buttons, b) <=> WillBeDown(w, w.buttons, b)
      BY <2>3, <3>4, <3>5, <3>6, DownByMoves
    <3> QED
      BY <2>1, <3>7
  <2>4. CASE ~ \E i \in DOMAIN v.events : Moves(v.events[i], b)
    <3>1. \A j \in DOMAIN w.events : Moves(w.events[j], b) => j = 1
      <4>1. ASSUME NEW j \in 1..L, Moves(w.events[j], b), j # 1
            PROVE  FALSE
        <5>1. j - 1 \in 1..(L - 1) /\ (j - 1) + 1 = j
          BY <1>1, <4>1
        <5>2. v.events[j - 1] = w.events[j]
          BY <2>2, <5>1
        <5> QED
          BY <1>1, <1>2, <2>4, <4>1, <5>1, <5>2
      <4> QED
        BY <1>1, <4>1
    <3>2. WillBeDown(v, v.buttons, b) <=> Place[b] \in v.buttons
      BY <2>4, DownByMoves
    <3>3. CASE Moves(event, b)
      <4>1. LastMove(w, 1, b)
        BY <1>1, <3>1, <3>3 DEF LastMove
      <4>2. WillBeDown(w, w.buttons, b) <=> event.kind = "press"
        <5>1. \A j \in DOMAIN w.events : LastMove(w, j, b) => j = 1
          BY <3>1 DEF LastMove
        <5>2. 1 \in DOMAIN w.events /\ Moves(w.events[1], b)
          BY <4>1 DEF LastMove
        <5>3. (\E j \in DOMAIN w.events :
                 LastMove(w, j, b) /\ w.events[j].kind = "press")
              <=> event.kind = "press"
          BY <1>1, <4>1, <5>1, <5>2
        <5> QED
          BY <5>2, <5>3, DownByMoves
      <4>3. Place[b] \in v.buttons <=> event.kind = "press"
        BY <1>3, <3>3, ButtonOfPlace DEF Moves
      <4> QED
        BY <2>1, <3>2, <4>2, <4>3
    <3>4. CASE ~Moves(event, b)
      <4>1. ~ \E i \in DOMAIN w.events : Moves(w.events[i], b)
        BY <1>1, <3>1, <3>4
      <4>2. WillBeDown(w, w.buttons, b) <=> Place[b] \in w.buttons
        BY <4>1, DownByMoves
      <4>3. Place[b] \in v.buttons <=> Place[b] \in w.buttons
        BY <1>3, <1>4, <3>4, ButtonOfPlace DEF Moves
      <4> QED
        BY <2>1, <3>2, <4>2, <4>3
    <3> QED
      BY <3>3, <3>4
  <2> QED
    BY <2>3, <2>4
<1> QED
  BY <1>3, <1>5 DEF ButtonsTrue, v

\* The codes of the keys are those of the mapping when w was opened.
CodesTrue(w) == \A k \in Keys : w.keyLUT[k] + 8 = CodeRead(w, k)

LEMMA SameCodes ==
  ASSUME NEW w, NEW v, v.keyLUT = w.keyLUT, v.mapping = w.mapping, CodesTrue(w)
  PROVE  CodesTrue(v)
PROOF BY DEF CodesTrue, CodeRead

LEMMA KeyCodeRead ==
  ASSUME NEW mapping, NEW read, NEW key,
         \A c \in Codes : key \in read[c] <=> key \in mapping[c]
  PROVE  KeysToKeyCode(mapping, key) + 8 = CodeRead([mapping |-> read], key)
PROOF
<1> DEFINE found  == {i \in 0..246 : i + 8 \in Codes /\ key \in mapping[i + 8]}
           having == {c \in Codes \ {255} : key \in read[c]}
<1>1. \A c \in Codes : c \in Nat /\ 8 <= c /\ c <= 255
  BY WindowEventsAssumption
<1>2. \A i \in found : i \in Nat /\ i + 8 \in having
  OBVIOUS
<1>3. \A c \in having : c \in Nat /\ c - 8 \in found
  BY <1>1
<1>4. /\ KeysToKeyCode(mapping, key) = IF found = {} THEN 0 ELSE Min(found)
      /\ CodeRead([mapping |-> read], key) =
           IF having = {} THEN 8 ELSE Min(having)
  BY DEF KeysToKeyCode, CodeRead, None
<1> HIDE DEF found, having
<1>5. CASE found = {}
  <2>1. having = {}
    BY <1>3, <1>5
  <2> QED
    BY <1>4, <1>5, <2>1
<1>6. CASE found # {}
  <2>1. having # {}
    BY <1>2, <1>6
  <2>2. Min(found) \in found /\ \A i \in found : Min(found) <= i
    BY <1>2, <1>6, SmallestOf
  <2>3. Min(having) \in having /\ \A c \in having : Min(having) <= c
    BY <1>3, <2>1, SmallestOf
  <2>4. Min(found) <= Min(having) - 8 /\ Min(having) <= Min(found) + 8
    BY <1>2, <1>3, <2>2, <2>3
  <2>5. Min(found) \in Nat /\ Min(having) \in Nat
    BY <1>2, <1>3, <2>2, <2>3
  <2> QED
    BY <1>4, <1>6, <2>1, <2>4, <2>5
<1> QED
  BY <1>5, <1>6

LEMMA FreshInput ==
  ASSUME NEW width \in Widths, NEW answered \in SUBSET Keys,
         Create(width, answered) \in Window
  PROVE  /\ ButtonsTrue(Fresh(width, answered), {})
         /\ CodesTrue(Fresh(width, answered))
PROOF
<1> DEFINE w    == Fresh(width, answered)
           read == [c \in Codes |-> server.mapping[c] \cap answered]
<1>1. /\ w.events = <<>> /\ w.buttons = {} /\ w.mapping = read
      /\ w.keyLUT = [k \in Keys |-> IF k \in answered
                                    THEN KeysToKeyCode(server.mapping, k)
                                    ELSE None]
  BY DEF Fresh, Move, Relocated, Create
<1>2. ButtonsTrue(w, {})
  BY <1>1, DownByMoves DEF ButtonsTrue
<1>3. \A k : CodeRead(w, k) = CodeRead([mapping |-> read], k)
  BY <1>1 DEF CodeRead
<1>4. ASSUME NEW k \in Keys PROVE w.keyLUT[k] + 8 = CodeRead(w, k)
  <2>1. CASE k \in answered
    <3>1. \A c \in Codes : k \in read[c] <=> k \in server.mapping[c]
      BY <2>1
    <3>2. KeysToKeyCode(server.mapping, k) + 8 = CodeRead([mapping |-> read], k)
      BY <3>1, KeyCodeRead
    <3> QED
      BY <1>1, <1>3, <2>1, <3>2
  <2>2. CASE k \notin answered
    <3>1. {c \in Codes \ {255} : k \in w.mapping[c]} = {}
      BY <1>1, <2>2
    <3>2. CodeRead(w, k) = 8
      BY <3>1 DEF CodeRead
    <3> QED
      BY <1>1, <2>2, <3>2 DEF None
  <2> QED
    BY <2>1, <2>2
<1> QED
  BY <1>2, <1>4 DEF CodesTrue

\* What the server sends and what it holds agree.
LEMMA ServerButtons ==
  ASSUME Inv, ServerNext, NEW n \in DOMAIN windows,
         ButtonsTrue(windows[n], HeldIn(n))
  PROVE  ButtonsTrue(windows'[n], HeldIn(n)')
PROOF
<1>1. /\ windows[n] \in Window /\ windows \in [DOMAIN windows -> Window]
      /\ server \in ServerType
  BY DEF Inv, TypeOK, ServerType
<1>2. CASE UNCHANGED <<windows, server>>
  BY <1>2 DEF HeldIn
<1>3. ASSUME NEW m \in DOMAIN windows, NEW event \in Event,
             windows' = [windows EXCEPT ![m] = Sent(windows[m], event)],
             m # n => HeldIn(n)' = HeldIn(n),
             m = n =>
               \A b \in Pointer \cap DOMAIN Place :
                 b \in HeldIn(n)' <=> IF Moves(event, b) THEN event.kind = "press"
                                      ELSE b \in HeldIn(n)
      PROVE  ButtonsTrue(windows'[n], HeldIn(n)')
  <2>1. Sent(windows[m], event) \in Window
    BY SentTyped DEF Inv, TypeOK
  <2>2. /\ windows'[m] = Sent(windows[m], event)
        /\ m # n => windows'[n] = windows[n]
    BY <1>3, <2>1, Replaced DEF Inv
  <2> QED
    BY <1>1, <1>3, <2>2, SentButtons
<1>4. ASSUME NEW m \in DOMAIN windows, NEW size \in Sizes, Configure(m, size)
      PROVE  ButtonsTrue(windows'[n], HeldIn(n)')
  <2>1. Configured(size) \in Event /\ \A b : ~Moves(Configured(size), b)
    BY DEF Configured, Event, Moves
  <2>2. windows[m] \in Window
    BY DEF TypeOK, Inv
  <2>3. [windows[m] EXCEPT !.size = size, !.events = Append(@, Configured(size))]
          = Sent(windows[m], Configured(size))
    BY <2>2 DEF Sent, Configured, Window
  <2>4. windows' = [windows EXCEPT ![m] = Sent(windows[m], Configured(size))]
    BY <1>4, <2>3 DEF Configure
  <2>5. HeldIn(n)' = HeldIn(n)
    BY <1>4 DEF Configure, HeldIn
  <2> QED
    BY <1>3, <2>1, <2>4, <2>5
<1>5. ASSUME NEW m \in DOMAIN windows, AskClose(m)
      PROVE  ButtonsTrue(windows'[n], HeldIn(n)')
  <2>1. /\ Delete \in Event /\ Delete.kind # "configure"
        /\ \A b : ~Moves(Delete, b)
    BY DEF Delete, Event, Moves
  <2>2. windows' = [windows EXCEPT ![m] = Sent(windows[m], Delete)]
    BY <1>5, <2>1, SendIsSent DEF AskClose, Inv
  <2>3. HeldIn(n)' = HeldIn(n)
    BY <1>5 DEF AskClose, HeldIn
  <2> QED
    BY <1>3, <2>1, <2>2, <2>3
<1>6. ASSUME NEW m \in DOMAIN windows, NEW b \in Pointer, Press(m, b)
      PROVE  ButtonsTrue(windows'[n], HeldIn(n)')
  <2>1. /\ Pressed(b) \in Event /\ Pressed(b).kind = "press"
        /\ \A c : Moves(Pressed(b), c) <=> c = b
    BY DEF Pressed, Event, Moves
  <2>2. windows' = [windows EXCEPT ![m] = Sent(windows[m], Pressed(b))]
    BY <1>6, <2>1, SendIsSent DEF Press, Inv
  <2>3. server'.held = server.held \cup {b} /\ server'.grab = m
    <3>1. CASE server.held = {}
      BY <1>1, <1>6, <3>1 DEF Press, ServerType
    <3>2. CASE server.held # {}
      BY <1>1, <1>6, <3>2 DEF Press, ServerType
    <3> QED
      BY <3>1, <3>2
  <2>4. server.held = {} \/ server.grab = m
    BY <1>6 DEF Press
  <2> QED
    BY <1>3, <2>1, <2>2, <2>3, <2>4 DEF HeldIn
<1>7. ASSUME NEW b \in Pointer, Release(b)
      PROVE  ButtonsTrue(windows'[n], HeldIn(n)')
  <2>1. /\ Released(b) \in Event /\ Released(b).kind = "release"
        /\ \A c : Moves(Released(b), c) <=> c = b
    BY DEF Released, Event, Moves
  <2>2. server.grab \in DOMAIN windows
    BY <1>7 DEF Release, Inv, ControlInv
  <2>3. server'.held = server.held \ {b} /\ server'.grab = server.grab
    BY <1>1, <1>7 DEF Release, ServerType
  <2>4. CASE Exists(server.grab)
    <3>1. windows' = [windows EXCEPT
            ![server.grab] = Sent(windows[server.grab], Released(b))]
      BY <1>7, <2>1, <2>2, <2>4, SendIsSent DEF Release, Inv
    <3> QED
      BY <1>3, <2>1, <2>2, <2>3, <3>1 DEF HeldIn
  <2>5. CASE ~Exists(server.grab)
    <3>1. UNCHANGED windows
      BY <1>7, <2>5 DEF Release
    <3>2. server.grab # n => HeldIn(n)' = HeldIn(n)
      BY <2>3 DEF HeldIn
    <3> QED
      BY <2>5, <3>1, <3>2 DEF ButtonsTrue, Exists
  <2> QED
    BY <2>4, <2>5
<1>8. CASE \/ \E c \in Codes : KeyDown(c) \/ KeyUp(c)
           \/ \E mapping \in Mappings : Remap(mapping)
  <2>1. /\ UNCHANGED windows
        /\ server'.held = server.held /\ server'.grab = server.grab
    BY <1>1, <1>8 DEF KeyDown, KeyUp, Remap, ServerType
  <2> QED
    BY <2>1 DEF HeldIn
<1> QED
  BY <1>4, <1>5, <1>6, <1>7, <1>8 DEF ServerNext

InputInv ==
  /\ Inv
  /\ \A n \in DOMAIN windows :
       ButtonsTrue(windows[n], HeldIn(n)) /\ CodesTrue(windows[n])

LEMMA SteppedCodes ==
  ASSUME NEW w \in Window, NEW v, Stepped(w, v), CodesTrue(w)
  PROVE  CodesTrue(v)
PROOF
<1>1. v.keyLUT = w.keyLUT /\ v.mapping = w.mapping
  BY DispatchedKeeps DEF Stepped, Handled, Sent, Begun, Move, Relocated, Window
<1> QED
  BY <1>1, SameCodes

\* Buttons stay true in a step that is not the server's.
LEMMA HandledButtons ==
  ASSUME NEW w \in Window, NEW v, NEW held, ButtonsTrue(w, held), Handled(w, v)
  PROVE  ButtonsTrue(v, held)
PROOF
<1>1. /\ Move(w).events = w.events /\ Move(w).buttons = w.buttons
      /\ Move(w).closed = w.closed
  BY DEF Move, Relocated, Window
<1>2. ASSUME NEW keys
      PROVE  /\ Begun(w, keys).events = w.events
             /\ Begun(w, keys).buttons = w.buttons
             /\ Begun(w, keys).closed = w.closed
  BY DEF Begun, Window
<1> QED
  BY <1>1, <1>2, SameButtons, DispatchedButtons DEF Handled

LEMMA InputNext == InputInv /\ [Next]_vars => InputInv'
PROOF
<1> SUFFICES ASSUME InputInv, [Next]_vars PROVE InputInv'
  OBVIOUS
<1>1. Inv'
  BY NextInv DEF InputInv
<1>2. ASSUME NEW n \in DOMAIN windows
      PROVE  ButtonsTrue(windows'[n], HeldIn(n)') /\ CodesTrue(windows'[n])
  <2>1. /\ windows[n] \in Window
        /\ ButtonsTrue(windows[n], HeldIn(n)) /\ CodesTrue(windows[n])
    BY DEF InputInv, Inv, TypeOK
  <2>2. CodesTrue(windows'[n])
    BY <2>1, EachSteps, SteppedCodes DEF InputInv
  <2>3. CASE ServerNext
    BY <2>1, <2>2, <2>3, ServerButtons DEF InputInv
  <2>4. CASE ~ServerNext
    <3>1. Handled(windows[n], windows'[n]) /\ UNCHANGED server
      BY <2>4, HandledSteps DEF InputInv
    <3>2. HeldIn(n)' = HeldIn(n)
      BY <3>1 DEF HeldIn
    <3> QED
      BY <2>1, <2>2, <3>1, <3>2, HandledButtons
  <2> QED
    BY <2>3, <2>4
<1>3. ASSUME NEW n \in DOMAIN windows' \ DOMAIN windows
      PROVE  ButtonsTrue(windows'[n], HeldIn(n)') /\ CodesTrue(windows'[n])
  <2>1. /\ ButtonsTrue(windows'[n], {}) /\ CodesTrue(windows'[n])
    BY <1>3, EachSteps, FreshInput DEF InputInv
  <2>2. HeldIn(n)' = {}
    <3>1. ~ServerNext
      BY <1>3, ServerSends, SendsTyped DEF InputInv, Inv
    <3>2. UNCHANGED server
      BY <3>1, HandledSteps DEF InputInv
    <3> QED
      BY <1>3, <3>2 DEF HeldIn, InputInv, Inv, ControlInv
  <2> QED
    BY <2>1, <2>2
<1>4. \A n \in DOMAIN windows' :
        ButtonsTrue(windows'[n], HeldIn(n)') /\ CodesTrue(windows'[n])
  BY <1>2, <1>3
<1> QED
  BY <1>1, <1>4 DEF InputInv, ButtonsTrue, CodesTrue, WillBeDown, IsLast,
     CodeRead, HeldIn

\* Byte x / 8 + 1 and bit x % 8 of the answer are those of code x + 8.
LEMMA BitOfCode ==
  ASSUME NEW x \in 0..246
  PROVE  Bit(x \div 8 + 1, x % 8) <=> x + 8 \in server.pressed
PROOF
<1>1. ASSUME NEW q \in Int, NEW r \in Int, q = x \div 8, r = x % 8
      PROVE  8 * q + r = x
  BY <1>1
<1>2. x \div 8 \in Int /\ x % 8 \in Int
  OBVIOUS
<1>3. ASSUME NEW q \in Int, NEW r \in Int, 8 * q + r = x
      PROVE  8 * (q + 1) + r = x + 8
  BY <1>3
<1> DEFINE q == x \div 8
           r == x % 8
<1>4. 8 * q + r = x
  BY <1>1, <1>2
<1>5. q \in Int /\ r \in Int
  BY <1>2
<1> HIDE DEF q, r
<1>6. 8 * (q + 1) + r = x + 8
  BY <1>3, <1>4, <1>5
<1> QED
  BY <1>6 DEF Bit, q, r

\* A window that has finished polling gives ImGui the buttons that the server
\* holds for it, but for the events on their way, and the keys that are down
\* by the mapping it was opened with, or none: for every mapping, order of
\* events and number of windows.
THEOREM InputTrueCorrect == Spec => InputTrue
PROOF
<1> DEFINE True ==
      \A n \in todo \ todo' :
       pc = "poll" /\ pc' = "poll" =>
         LET w == windows'[n]
             held == IF server.grab = n THEN server.held ELSE {}
         IN /\ ~w.closed =>
                 \A b \in Pointer \cap DOMAIN Place :
                   b \in held <=> WillBeDown(w, w.mouseDown, b)
            /\ w.keysDown \in
                 {{}, {k \in Keys : CodeRead(w, k) \in server.pressed}}
<1>1. InputInv /\ [Next]_vars => True
  <2> SUFFICES ASSUME InputInv, [Next]_vars, NEW n \in todo \ todo',
                      pc = "poll", pc' = "poll"
               PROVE  /\ ~windows'[n].closed =>
                           \A b \in Pointer \cap DOMAIN Place :
                             b \in HeldIn(n) <=>
                               WillBeDown(windows'[n], windows'[n].mouseDown, b)
                      /\ windows'[n].keysDown \in
                           {{}, {k \in Keys :
                                   CodeRead(windows'[n], k) \in server.pressed}}
    BY DEF HeldIn
  <2>1. BeginWindow(n)
    <3>1. ~ServerNext
      BY ServerSends DEF InputInv, frameVars
    <3> QED
      BY <3>1 DEF Next, OpenWindow, OpenFails, BeginFrame, PollEvents,
         BeginWindow, BeginWindowFails, Turn, EndPolling, RecordPass, EndFrame,
         vars, frameVars, InputInv, Inv, TypeOK
  <2> DEFINE w == windows[n]
             v == windows'[n]
  <2>2. n \in DOMAIN windows /\ w \in Window
    BY BeginStep, <2>1 DEF InputInv, Inv
  <2>3. PICK keys \in {KeyboardState(w), {}} :
          keys \in SUBSET Keys /\ windows' = [windows EXCEPT ![n] = Begun(w, keys)]
    BY BeginStep, <2>1 DEF InputInv, Inv
  <2>4. v = Begun(w, keys)
    BY <2>2, <2>3 DEF InputInv, Inv, TypeOK
  <2>5. /\ v.events = w.events /\ v.closed = w.closed /\ v.mouseDown = w.buttons
        /\ v.keysDown = keys /\ v.mapping = w.mapping
    BY <2>2, <2>4 DEF Begun, Window
  <2>6. ButtonsTrue(w, HeldIn(n)) /\ CodesTrue(w)
    BY <2>2 DEF InputInv
  <2>7. \A b : WillBeDown(v, v.mouseDown, b) <=> WillBeDown(w, w.buttons, b)
    BY <2>5 DEF WillBeDown, IsLast
  <2>8. KeyboardState(w) = {k \in Keys : CodeRead(v, k) \in server.pressed}
    <3>1. \A k \in Keys : CodeRead(v, k) = w.keyLUT[k] + 8
      BY <2>5, <2>6 DEF CodesTrue, CodeRead
    <3>2. \A k \in Keys : w.keyLUT[k] \in 0..246
      BY <2>2 DEF Window
    <3>3. ASSUME NEW k \in Keys
          PROVE  Bit(w.keyLUT[k] \div 8 + 1, w.keyLUT[k] % 8)
                   <=> CodeRead(v, k) \in server.pressed
      BY <3>1, <3>2, BitOfCode
    <3> QED
      BY <3>3 DEF KeyboardState
  <2> QED
    BY <2>3, <2>5, <2>6, <2>7, <2>8 DEF ButtonsTrue
<1>2. Init => InputInv
  <2> SUFFICES ASSUME Init PROVE InputInv
    OBVIOUS
  <2>1. DOMAIN windows = {}
    BY DEF Init
  <2> QED
    BY <2>1, InitInv DEF InputInv
<1>3. Spec => []InputInv
  BY <1>2, InputNext, PTL DEF Spec
<1>4. Spec => [][True]_vars
  BY <1>1, <1>3, PTL DEF Spec
<1> QED
  BY <1>4, PTL DEF InputTrue
=============================================================================
