--------------------------- MODULE WindowSurface ---------------------------
(***************************************************************************)
(* One window from creation to shutdown: the X server's window and its     *)
(* event queue (external), wsi::Window dispatching the events, the flag    *)
(* Renderer::Window keeps for a resize, and Surface::Resize, which builds  *)
(* a new swapchain with its views, targets and framebuffers next to the    *)
(* old ones and swaps them in, or gives up at any call.                    *)
(*                                                                         *)
(* One thread runs the frame loop; what else a frame does is in FrameLoop, *)
(* and so is an acquire that fails after a Resize that did not.            *)
(***************************************************************************)
EXTENDS Integers, Sequences, FiniteSets, SequencesExt

CONSTANTS
  Sizes,         \* sizes the X server may give the window, numbers
  Offsets,       \* positions it may give it
  MinExtent,     \* minImageExtent and maxImageExtent of the surface's
  MaxExtent,     \*   capabilities, when it has no currentExtent
  Ids,           \* names of swapchains, two more than MaxFailures
  NoId,          \* VK_NULL_HANDLE
  Faults,        \* calls that may fail: "setup", "ui", or a step of Resize
  MaxFailures,   \* bound: failing calls in one behaviour
  MaxConfigures  \* bound: times the server moves or resizes the window

\* The calls of Surface::Resize, in order.  A step that creates an image
\* creates its view too.
NextStep == [caps |-> "swapchain", swapchain |-> "images",
             images |-> "imageViews", imageViews |-> "depthImage",
             depthImage |-> "colorTarget", colorTarget |-> "colorTransition",
             colorTransition |-> "depthTarget",
             depthTarget |-> "depthTransition",
             depthTransition |-> "framebuffers", framebuffers |-> "commit"]

Steps == DOMAIN NextStep \cup {"commit"}

\* What a step creates that its local variables destroy again on return.
Kinds == {"imageViews", "depthImage", "colorTarget", "depthTarget",
          "framebuffers"}

ASSUME WindowSurfaceAssumption ==
  /\ Sizes \subseteq Nat
  /\ MinExtent \in Nat /\ MaxExtent \in Nat /\ MinExtent <= MaxExtent
  /\ NoId \notin Ids
  /\ MaxFailures \in Nat /\ MaxConfigures \in Nat
  /\ Faults \subseteq {"setup", "ui"} \cup Steps

VARIABLES
  server,     \* the X server's window: size, offset and whether it exists
  events,     \* events of this connection not yet polled
  configures, \* how often the server has moved or resized the window
  driver,     \* extentDefined: the surface's capabilities have a
              \*   currentExtent; lenient: vkCreateSwapchainKHR succeeds where
              \*   the Vulkan specification forbids the call
  rect,       \* rect_ of wsi::Window
  resized,    \* Window::resized
  running,    \* sRunning
  pc,         \* where the main thread is: a step of Resize, or outside
  caller,     \* who called Resize
  building,   \* newSwapchain
  newExtent,  \* newExtent
  swapchain,  \* Surface::swapchain
  extent,     \* Surface::extent
  swapchains, \* swapchains that exist
  retired,    \* those that were passed as oldSwapchain
  objects,    \* views, targets and framebuffers that exist, with the
              \*   swapchain they were built for
  faulted,    \* history: calls that failed
  failures    \* how many have

serverVars  == <<server, configures, driver>>
windowVars  == <<rect, resized, running>>
surfaceVars == <<swapchain, extent, swapchains, retired, objects>>
localVars   == <<caller, building, newExtent>>
faultVars   == <<faulted, failures>>
vars == <<serverVars, events, windowVars, pc, localVars, surfaceVars, faultVars>>

Rects == [size : Sizes, offset : Offsets]
Configured(size, offset) ==
  [kind |-> "configure", rect |-> [size |-> size, offset |-> offset]]
Delete == [kind |-> "delete"]
Events == [kind : {"configure"}, rect : Rects] \cup {Delete}

Outside == {"create", "ui", "loop", "poll", "frame", "gone", "hung"}

TypeOK ==
  /\ server \in [size : Sizes, offset : Offsets, exists : BOOLEAN]
  /\ events \in Seq(Events)
  /\ configures \in 0..MaxConfigures
  /\ driver \in [extentDefined : BOOLEAN, lenient : BOOLEAN]
  /\ rect \in Rects
  /\ resized \in BOOLEAN /\ running \in BOOLEAN
  /\ pc \in Outside \cup Steps
  /\ caller \in {"create", "begin", "suboptimal", "outOfDate"}
  /\ building \in Ids \cup {NoId} /\ swapchain \in Ids \cup {NoId}
  /\ newExtent \in Nat /\ extent \in Nat
  /\ swapchains \subseteq Ids /\ retired \subseteq swapchains
  /\ objects \subseteq Kinds \X Ids
  /\ faulted \subseteq {"setup", "ui"} \cup Steps
  /\ failures \in 0..MaxFailures

\* wsi::Window::Create has returned: rect_ is what was asked for, whatever the
\* server made of it, which an event will tell.
Init ==
  /\ rect \in Rects
  /\ server \in [size : Sizes, offset : Offsets, exists : {TRUE}]
  /\ events = IF server.size = rect.size /\ server.offset = rect.offset THEN <<>>
              ELSE <<Configured(server.size, server.offset)>>
  /\ configures = 0
  /\ driver \in [extentDefined : BOOLEAN, lenient : BOOLEAN]
  /\ resized = FALSE /\ running = TRUE
  /\ pc = "create" /\ caller = "create"
  /\ building = NoId /\ newExtent = 0
  /\ swapchain = NoId /\ extent = 0
  /\ swapchains = {} /\ retired = {} /\ objects = {}
  /\ faulted = {} /\ failures = 0
-----------------------------------------------------------------------------
(* The X server (external).                                                *)
Configure(size, offset) ==
  /\ server.exists
  /\ configures < MaxConfigures
  /\ size # server.size \/ offset # server.offset
  /\ server' = [server EXCEPT !.size = size, !.offset = offset]
  /\ configures' = configures + 1
  /\ events' = Append(events, Configured(size, offset))
  /\ UNCHANGED <<driver, windowVars, pc, localVars, surfaceVars, faultVars>>

\* The user asks the window manager to close the window.
AskClose ==
  /\ server.exists
  /\ Delete \notin ToSet(events)
  /\ events' = Append(events, Delete)
  /\ UNCHANGED <<serverVars, windowVars, pc, localVars, surfaceVars, faultVars>>
-----------------------------------------------------------------------------
Fail(f) ==
  /\ f \in Faults
  /\ failures < MaxFailures
  /\ failures' = failures + 1
  /\ faulted' = faulted \cup {f}

\* ~Surface: the swapchain, then the members.  A swapchain that no member
\* names stays behind.
DestroySurface ==
  /\ swapchains' = swapchains \ {swapchain}
  /\ retired' = retired \ {swapchain}
  /\ objects' = {o \in objects : o[2] # swapchain}
  /\ swapchain' = NoId
  /\ UNCHANGED extent

\* Surface::Create up to its call of Resize: surface, support, format and
\* semaphore.
CreateSurface ==
  /\ pc = "create"
  /\ \/ pc' = "caps" /\ UNCHANGED faultVars
     \/ pc' = "gone" /\ Fail("setup")
  /\ UNCHANGED <<serverVars, events, windowVars, localVars, surfaceVars>>

\* UI::Create, the last step of Window::Create that may fail.
CreateUI ==
  /\ pc = "ui"
  /\ \/ pc' = "loop" /\ UNCHANGED <<surfaceVars, faultVars>>
     \/ pc' = "gone" /\ Fail("ui") /\ DestroySurface
  /\ UNCHANGED <<serverVars, events, windowVars, localVars>>

\* The frame loop, or Shutdown once sRunning is false.
LoopTop ==
  /\ pc = "loop"
  /\ IF running THEN pc' = "poll" /\ UNCHANGED surfaceVars
                ELSE pc' = "gone" /\ DestroySurface
  /\ UNCHANGED <<serverVars, events, windowVars, localVars, faultVars>>

\* Dispatch of XCB_CONFIGURE_NOTIFY: a changed size is stored and reported,
\* and a changed position only if the size is the same.
RectAfterKeepSize(r) == IF r.size = rect.size THEN r ELSE rect
RectAfter(r) == IF r.size = rect.size THEN r ELSE [rect EXCEPT !.size = r.size]

DispatchConfigure ==
  /\ pc = "poll"
  /\ events # <<>> /\ Head(events).kind = "configure"
  /\ events' = Tail(events)
  /\ rect' = RectAfter(Head(events).rect)
  /\ resized' = (resized \/ Head(events).rect.size # rect.size)
  /\ UNCHANGED <<serverVars, running, pc, localVars, surfaceVars, faultVars>>

\* Dispatch of WM_DELETE_WINDOW: Close() calls the delegate, which terminates
\* the renderer, and destroys the window.
DispatchClose ==
  /\ pc = "poll"
  /\ events # <<>> /\ Head(events).kind = "delete"
  /\ events' = Tail(events)
  /\ running' = FALSE
  /\ server' = [server EXCEPT !.exists = FALSE]
  /\ UNCHANGED <<configures, driver, rect, resized, pc, localVars,
                 surfaceVars, faultVars>>

\* Window::BeginFrame after PollEvents.
PollDone ==
  /\ pc = "poll"
  /\ events = <<>>
  /\ caller' = "begin"
  /\ pc' = IF resized THEN "caps" ELSE "frame"
  /\ UNCHANGED <<serverVars, events, windowVars, building, newExtent,
                 surfaceVars, faultVars>>

\* EndFrame: nothing once sRunning is false; otherwise the acquire may find
\* the swapchain suboptimal or out of date, which a retired one always is.
Frame ==
  /\ pc = "frame"
  /\ \/ (running => swapchain \notin retired) /\ pc' = "loop" /\ UNCHANGED caller
     \/ running /\ swapchain \notin retired /\ pc' = "caps" /\ caller' = "suboptimal"
     \/ running /\ pc' = "caps" /\ caller' = "outOfDate"
  /\ UNCHANGED <<serverVars, events, windowVars, building, newExtent,
                 surfaceVars, faultVars>>
-----------------------------------------------------------------------------
(* Surface::Resize.                                                        *)
Clamp(n) == IF n < MinExtent THEN MinExtent
            ELSE IF n > MaxExtent THEN MaxExtent ELSE n

\* The call breaks a rule of vkCreateSwapchainKHR: the old swapchain is
\* retired already, or the native window has another one.
Misused == swapchain \in retired \/ swapchains \ (retired \cup {swapchain}) # {}

\* Error paths destroy the new swapchain, but not the one of the image views.
DestroysSwapchainNot(s) ==
  s \in {"images", "depthImage", "colorTarget", "colorTransition", "depthTarget",
         "framebuffers"}
DestroysSwapchain(s) ==
  s \in {"images", "depthImage", "colorTarget", "colorTransition", "depthTarget",
         "depthTransition", "framebuffers"}

\* vkCreateSwapchainKHR retires the old swapchain, whether or not it succeeds;
\* the old one is destroyed by Commit.
RetireOld == retired \cup ({swapchain} \cap Ids)

SwapchainsWithNewOnly(new) == (swapchains \ {swapchain}) \cup {new}
SwapchainsWith(new) == swapchains \cup {new}

\* Window::resized after Resize failed: BeginFrame leaves it, EndFrame clears
\* it.
ResizedAfterErrorCleared == resized /\ caller = "create"
ResizedAfterError == resized /\ caller \in {"create", "begin"}

\* Resize returns an error: the local objects are destroyed, and by
\* Surface::Create the surface.  BeginFrame goes round the loop.  EndFrame
\* tries to acquire once more, in vain if the swapchain is retired; if no
\* image was acquired the frame it submits never starts, and the main thread
\* waits for it for ever.
AfterError(retiredNow) ==
  CASE caller = "create" -> {"gone"}
    [] caller = "outOfDate" ->
         IF swapchain \in retiredNow THEN {"hung"} ELSE {"loop", "hung"}
    [] OTHER -> {"loop"}

ObjectsAfterErrorOld == {o \in objects : o[2] # swapchain}
ObjectsAfterError == {o \in objects : o[2] # building}

ResizeFails(retiredNow, leftovers) ==
  /\ newExtent' = 0 /\ building' = NoId
  /\ pc' \in AfterError(retiredNow)
  /\ resized' = ResizedAfterError
  /\ swapchains' = leftovers
  /\ retired' = retiredNow
  /\ objects' = ObjectsAfterError
  /\ UNCHANGED <<caller, extent, swapchain>>

Caps ==
  /\ pc = "caps"
  /\ \/ /\ server.exists
        /\ newExtent' = IF driver.extentDefined THEN server.size ELSE Clamp(rect.size)
        /\ pc' = NextStep[pc]
        /\ UNCHANGED <<resized, caller, building, surfaceVars, faultVars>>
     \/ /\ IF server.exists THEN Fail(pc) ELSE UNCHANGED faultVars
        /\ ResizeFails(retired, swapchains)
  /\ UNCHANGED <<serverVars, events, rect, running>>

CreateSwapchain ==
  /\ pc = "swapchain"
  /\ \/ /\ Misused => driver.lenient
        /\ building' \in Ids \ swapchains
        /\ swapchains' = SwapchainsWith(building')
        /\ retired' = RetireOld
        /\ pc' = NextStep[pc]
        /\ UNCHANGED <<resized, caller, newExtent, swapchain, extent, objects,
                       faultVars>>
     \/ /\ IF Misused /\ ~driver.lenient THEN UNCHANGED faultVars ELSE Fail(pc)
        /\ ResizeFails(RetireOld, swapchains)
  /\ UNCHANGED <<serverVars, events, rect, running>>

\* The images of the swapchain, their views, the targets, the framebuffers.
Build ==
  /\ pc \in Steps \ {"caps", "swapchain", "commit"}
  /\ \/ /\ objects' = objects \cup ({pc} \cap Kinds) \X {building}
        /\ pc' = NextStep[pc]
        /\ UNCHANGED <<resized, localVars, swapchain, extent, swapchains,
                       retired, faultVars>>
     \/ /\ Fail(pc)
        /\ ResizeFails(retired,
             IF DestroysSwapchain(pc) THEN swapchains \ {building} ELSE swapchains)
  /\ UNCHANGED <<serverVars, events, rect, running>>

\* The old swapchain is destroyed; the new objects are swapped in and the old
\* ones destroyed with the locals.
ObjectsAfterCommit == {o \in objects : o[2] # swapchain}

Commit ==
  /\ pc = "commit"
  /\ swapchain' = building
  /\ swapchains' = swapchains \ {swapchain}
  /\ retired' = retired \ {swapchain}
  /\ objects' = ObjectsAfterCommit
  /\ extent' = newExtent
  /\ resized' = IF caller = "create" THEN resized ELSE FALSE
  /\ building' = NoId /\ newExtent' = 0
  /\ pc' = CASE caller = "create" -> "ui"
             [] caller = "begin"  -> "frame"
             [] OTHER             -> "loop"
  /\ UNCHANGED <<serverVars, events, rect, running, caller, faultVars>>

Stopped == pc \in {"gone", "hung"} /\ UNCHANGED vars
-----------------------------------------------------------------------------
Resize == Caps \/ CreateSwapchain \/ Build \/ Commit

MainThread ==
  \/ CreateSurface \/ CreateUI \/ LoopTop
  \/ DispatchConfigure \/ DispatchClose \/ PollDone \/ Frame
  \/ Resize

Next ==
  \/ \E size \in Sizes, offset \in Offsets : Configure(size, offset)
  \/ AskClose
  \/ MainThread
  \/ Stopped

Spec == Init /\ [][Next]_vars

\* The operating system keeps scheduling the main thread.
FairSpec == Spec /\ WF_vars(MainThread)
-----------------------------------------------------------------------------
(***************************************************************************)
(* Properties                                                              *)
(***************************************************************************)
Resizing == pc \in Steps

\* The extent Resize would give the surface if nothing changed any more.
Wanted == IF driver.extentDefined THEN server.size ELSE Clamp(server.size)

\* Whatever call fails and whoever called Resize, the surface has exactly one
\* swapchain afterwards and one set of objects, its own; none is left when it
\* is destroyed.  Only a failed image view leaves a swapchain behind.
NothingLeaked ==
  ~Resizing =>
    /\ objects = Kinds \X ({swapchain} \cap Ids)
    /\ "imageViews" \in faulted \/ swapchains = {swapchain} \cap Ids

\* The surface's swapchain and every object built for it exist at any moment:
\* while Resize builds new ones the GPU may still render to the old.
SurfaceIntact ==
  swapchain # NoId =>
    swapchain \in swapchains /\ Kinds \X {swapchain} \subseteq objects

\* Once the server's events are handled the surface has the window's extent,
\* or resized says that it does not: no failed Resize and no size change that
\* arrives during one is forgotten.
ExtentFollows ==
  pc \in {"loop", "poll", "frame"} /\ events = <<>> /\ ~resized
    => extent = Wanted

\* The surface comes to have the window's extent after any changes of its
\* size and failed attempts, unless the renderer is terminated, the window
\* was never opened, or a failed Resize in EndFrame hangs the loop.  It takes
\* a driver that accepts a retired swapchain as oldSwapchain.
ExtentRecovers ==
  driver.lenient /\ extent # Wanted
    ~> extent = Wanted \/ ~running \/ pc \in {"gone", "hung"}

\* "Delegate function called when the window is moved" (wsi/window.h): once
\* the server's events are handled rect_ has the window's position.
OffsetFollows ==
  pc = "frame" /\ events = <<>> => rect.offset = server.offset
=============================================================================
