------------------------ MODULE WindowSurfaceProofs ------------------------
(***************************************************************************)
(* Type correctness of WindowSurface, and that Resize neither leaks nor    *)
(* loses what a surface is made of, for every value of the constants.      *)
(***************************************************************************)
EXTENDS WindowSurface, TLAPS

\* The objects Resize has built for newSwapchain when it is at step p.
Built(p) ==
  {k \in Kinds :
     \/ k = "imageViews"
        /\ p \in {"depthImage", "colorTarget", "colorTransition",
                  "depthTarget", "depthTransition", "framebuffers", "commit"}
     \/ k = "depthImage"
        /\ p \in {"colorTarget", "colorTransition", "depthTarget",
                  "depthTransition", "framebuffers", "commit"}
     \/ k = "colorTarget"
        /\ p \in {"colorTransition", "depthTarget", "depthTransition",
                  "framebuffers", "commit"}
     \/ k = "depthTarget"
        /\ p \in {"depthTransition", "framebuffers", "commit"}
     \/ k = "framebuffers" /\ p = "commit"}

BuildSteps == Steps \ {"caps", "swapchain", "commit"}

\* The swapchains and the objects that exist are those of the surface and
\* those of the Resize in progress.
OldOne == swapchain # NoId => swapchain \in swapchains
NewOne ==
  /\ building # NoId <=> pc \in Steps \ {"caps", "swapchain"}
  /\ building # NoId =>
       building \in swapchains /\ building \notin retired /\ building # swapchain
ObjectsInv ==
  objects = (Kinds \X ({swapchain} \cap Ids)) \cup (Built(pc) \X ({building} \cap Ids))
SwapchainsInv ==
  "imageViews" \in faulted \/ swapchains = {swapchain, building} \cap Ids

SurfaceInv == OldOne /\ NewOne /\ ObjectsInv /\ SwapchainsInv

Inv == TypeOK /\ SurfaceInv
-----------------------------------------------------------------------------
LEMMA StepNames ==
  Steps = {"caps", "swapchain", "images", "imageViews", "depthImage",
           "colorTarget", "colorTransition", "depthTarget",
           "depthTransition", "framebuffers", "commit"}
PROOF BY DEF Steps, NextStep

\* Each step but the first two adds what it is named for.
LEMMA BuiltNext ==
  ASSUME NEW p \in BuildSteps
  PROVE  /\ NextStep[p] \in Steps \ {"caps", "swapchain"}
         /\ Built(NextStep[p]) = Built(p) \cup ({p} \cap Kinds)
PROOF
<1>1. CASE p = "images" BY <1>1, StepNames DEF NextStep, Built, Kinds
<1>2. CASE p = "imageViews" BY <1>2, StepNames DEF NextStep, Built, Kinds
<1>3. CASE p = "depthImage" BY <1>3, StepNames DEF NextStep, Built, Kinds
<1>4. CASE p = "colorTarget" BY <1>4, StepNames DEF NextStep, Built, Kinds
<1>5. CASE p = "colorTransition" BY <1>5, StepNames DEF NextStep, Built, Kinds
<1>6. CASE p = "depthTarget" BY <1>6, StepNames DEF NextStep, Built, Kinds
<1>7. CASE p = "depthTransition" BY <1>7, StepNames DEF NextStep, Built, Kinds
<1>8. CASE p = "framebuffers" BY <1>8, StepNames DEF NextStep, Built, Kinds
<1> QED
  BY <1>1, <1>2, <1>3, <1>4, <1>5, <1>6, <1>7, <1>8, StepNames DEF BuildSteps

LEMMA NothingBuilt ==
  ASSUME NEW p \in Outside \cup {"caps", "swapchain", "images", "imageViews"}
  PROVE  Built(p) = {}
PROOF BY DEF Built, Outside, Kinds

LEMMA AllBuilt == Built("commit") = Kinds
PROOF BY DEF Built, Kinds
-----------------------------------------------------------------------------
\* How the parts of SurfaceInv follow once the primed surface is known.
SurfaceVars == <<swapchain, building, swapchains, retired, objects, faulted>>

LEMMA ConfiguredEvent ==
  ASSUME NEW size \in Sizes, NEW offset \in Offsets
  PROVE  Configured(size, offset) \in Events
PROOF BY DEF Configured, Events, Rects

LEMMA OneEvent ==
  ASSUME NEW e \in Events
  PROVE  <<>> \in Seq(Events) /\ <<e>> \in Seq(Events)
PROOF OBVIOUS

LEMMA InitInv == Init => Inv
PROOF
<1> SUFFICES ASSUME Init PROVE Inv
  OBVIOUS
<1>1. pc = "create" /\ Built("create") = {}
  BY NothingBuilt DEF Init, Outside
<1>2. SurfaceInv
  BY <1>1, StepNames, WindowSurfaceAssumption
     DEF Init, SurfaceInv, OldOne, NewOne, ObjectsInv, SwapchainsInv
<1>3. TypeOK
  <2>1. server \in [size : Sizes, offset : Offsets, exists : BOOLEAN]
    BY DEF Init
  <2>2. events \in Seq(Events)
    <3>1. events = <<>> \/ events = <<Configured(server.size, server.offset)>>
      BY DEF Init
    <3>2. Configured(server.size, server.offset) \in Events
      BY <2>1, ConfiguredEvent
    <3> QED
      BY <3>1, <3>2, OneEvent
  <2>3. rect \in Rects /\ driver \in [extentDefined : BOOLEAN, lenient : BOOLEAN]
    BY DEF Init
  <2>4. configures \in 0..MaxConfigures /\ failures \in 0..MaxFailures
    BY WindowSurfaceAssumption DEF Init
  <2>5. objects \subseteq Kinds \X Ids /\ swapchains \subseteq Ids
        /\ retired \subseteq swapchains
    BY DEF Init
  <2> QED
    BY <2>1, <2>2, <2>3, <2>4, <2>5 DEF Init, TypeOK, Outside
<1> QED
  BY <1>2, <1>3 DEF Inv

\* A step of somebody else, or outside Resize, that leaves the surface alone.
LEMMA SurfaceUntouched ==
  ASSUME SurfaceInv, UNCHANGED <<SurfaceVars, pc>>
  PROVE  SurfaceInv'
PROOF
  BY DEF SurfaceInv, OldOne, NewOne, ObjectsInv, SwapchainsInv, SurfaceVars, Built

LEMMA SurfaceOutside ==
  ASSUME Inv, building = NoId, pc \in Outside \cup {"caps", "swapchain"},
         pc' \in Outside \cup {"caps", "swapchain"},
         UNCHANGED <<swapchain, building, swapchains, retired, objects>>,
         faulted \subseteq faulted'
  PROVE  SurfaceInv'
PROOF
<1>1. Built(pc) = {} /\ Built(pc') = {}
  BY NothingBuilt
<1>2. pc' \notin Steps \ {"caps", "swapchain"}
  BY StepNames DEF Outside
<1> QED
  BY <1>1, <1>2 DEF Inv, SurfaceInv, OldOne, NewOne, ObjectsInv, SwapchainsInv

LEMMA SurfaceDestroyed ==
  ASSUME Inv, building = NoId, DestroySurface, building' = building,
         pc \in Outside, pc' = "gone", faulted \subseteq faulted'
  PROVE  SurfaceInv'
PROOF
<1>1. Built(pc) = {} /\ Built(pc') = {}
  BY NothingBuilt DEF Outside
<1>2. pc' \notin Steps \ {"caps", "swapchain"}
  BY StepNames
<1>3. objects' = {}
  BY <1>1 DEF DestroySurface, Inv, SurfaceInv, ObjectsInv
<1> QED
  BY <1>1, <1>2, <1>3, WindowSurfaceAssumption
     DEF DestroySurface, Inv, TypeOK, SurfaceInv, OldOne, NewOne, ObjectsInv,
         SwapchainsInv
-----------------------------------------------------------------------------
\* A step that fails is counted, and remembered.
LEMMA FailTyped ==
  ASSUME Inv, NEW f, Fail(f)
  PROVE  /\ faulted' \subseteq {"setup", "ui"} \cup Steps
         /\ failures' \in 0..MaxFailures
         /\ faulted \subseteq faulted' /\ f \in faulted'
PROOF
<1>1. f \in {"setup", "ui"} \cup Steps
  BY WindowSurfaceAssumption DEF Fail
<1>2. failures' \in 0..MaxFailures
  BY WindowSurfaceAssumption DEF Fail, Inv, TypeOK
<1> QED
  BY <1>1, <1>2 DEF Fail, Inv, TypeOK

\* Resize returns an error with the swapchains it leaves behind.
LEMMA ResizeFailed ==
  ASSUME Inv, NEW retiredNow, NEW leftovers, ResizeFails(retiredNow, leftovers),
         pc \in Steps,
         retiredNow \subseteq leftovers, leftovers \subseteq swapchains,
         swapchain # NoId => swapchain \in leftovers,
         faulted \subseteq faulted',
         "imageViews" \in faulted' \/ leftovers = {swapchain} \cap Ids
  PROVE  SurfaceInv'
PROOF
<1>1. pc' \in Outside /\ pc' \notin Steps \ {"caps", "swapchain"}
  BY StepNames DEF ResizeFails, AfterError, Outside
<1>2. Built(pc') = {}
  BY <1>1, NothingBuilt
<1>3. objects' = Kinds \X ({swapchain} \cap Ids)
  <2>1. objects = (Kinds \X ({swapchain} \cap Ids)) \cup (Built(pc) \X ({building} \cap Ids))
    BY DEF Inv, SurfaceInv, ObjectsInv
  <2>2. \A o \in Kinds \X ({swapchain} \cap Ids) : o[2] # building
    BY WindowSurfaceAssumption DEF Inv, TypeOK, SurfaceInv, NewOne
  <2>3. \A o \in Built(pc) \X ({building} \cap Ids) : o[2] = building
    OBVIOUS
  <2>4. objects' = {o \in objects : o[2] # building}
    BY DEF ResizeFails, ObjectsAfterError
  <2> QED
    BY <2>1, <2>2, <2>3, <2>4
<1> QED
  BY <1>1, <1>2, <1>3, WindowSurfaceAssumption
     DEF ResizeFails, Inv, TypeOK, SurfaceInv, OldOne, NewOne, ObjectsInv,
         SwapchainsInv

LEMMA ResizeFailedTyped ==
  ASSUME Inv, NEW retiredNow, NEW leftovers, ResizeFails(retiredNow, leftovers),
         retiredNow \subseteq leftovers, leftovers \subseteq swapchains
  PROVE  /\ resized' \in BOOLEAN /\ pc' \in Outside
         /\ caller' = caller /\ building' = NoId /\ newExtent' \in Nat
         /\ swapchain' = swapchain /\ extent' = extent
         /\ swapchains' \subseteq Ids /\ retired' \subseteq swapchains'
         /\ objects' \subseteq Kinds \X Ids
PROOF
<1>1. pc' \in Outside
  BY DEF ResizeFails, AfterError, Outside
<1>2. objects' \subseteq Kinds \X Ids
  BY DEF ResizeFails, ObjectsAfterError, Inv, TypeOK
<1> QED
  BY <1>1, <1>2 DEF ResizeFails, ResizedAfterError, Inv, TypeOK
-----------------------------------------------------------------------------
\* What a step of Resize leaves alone keeps its type.
LEMMA ResizeFrame ==
  ASSUME Inv, UNCHANGED <<serverVars, events, rect, running>>
  PROVE  /\ server' \in [size : Sizes, offset : Offsets, exists : BOOLEAN]
         /\ events' \in Seq(Events)
         /\ configures' \in 0..MaxConfigures
         /\ driver' \in [extentDefined : BOOLEAN, lenient : BOOLEAN]
         /\ rect' \in Rects
         /\ running' \in BOOLEAN
PROOF BY DEF Inv, TypeOK, serverVars

\* A call that may fail, or cannot succeed because of what happened before.
LEMMA MaybeFails ==
  ASSUME Inv, NEW c, NEW f, IF c THEN UNCHANGED faultVars ELSE Fail(f)
  PROVE  /\ faulted' \subseteq {"setup", "ui"} \cup Steps
         /\ failures' \in 0..MaxFailures
         /\ faulted \subseteq faulted'
PROOF
<1>1. CASE c
  BY <1>1 DEF Inv, TypeOK, faultVars
<1>2. CASE ~c
  BY <1>2, FailTyped
<1> QED
  BY <1>1, <1>2

LEMMA CapsInv == Inv /\ Caps => Inv'
PROOF
<1> SUFFICES ASSUME Inv, Caps PROVE Inv'
  OBVIOUS
<1>1. /\ pc = "caps" /\ pc \in Steps /\ UNCHANGED <<serverVars, events, rect, running>>
      /\ building = NoId
  BY StepNames DEF Caps, Inv, SurfaceInv, NewOne
<1>2. CASE /\ newExtent' = IF driver.extentDefined THEN server.size ELSE Clamp(rect.size)
           /\ pc' = NextStep[pc]
           /\ UNCHANGED <<resized, caller, building, surfaceVars, faultVars>>
  <2>1. pc' = "swapchain" /\ pc' \in Steps
    BY <1>1, <1>2, StepNames DEF NextStep
  <2>2. newExtent' \in Nat
    BY <1>2, WindowSurfaceAssumption DEF Inv, TypeOK, Rects, Clamp
  <2>3. TypeOK'
    BY <1>1, <1>2, <2>1, <2>2, ResizeFrame
       DEF Inv, TypeOK, surfaceVars, faultVars
  <2>4. SurfaceInv'
    BY <1>1, <1>2, <2>1, SurfaceOutside DEF surfaceVars, faultVars
  <2> QED
    BY <2>3, <2>4 DEF Inv
<1>3. CASE /\ IF server.exists THEN Fail(pc) ELSE UNCHANGED faultVars
           /\ ResizeFails(retired, swapchains)
  <2>1. /\ faulted' \subseteq {"setup", "ui"} \cup Steps
        /\ failures' \in 0..MaxFailures
        /\ faulted \subseteq faulted'
    BY <1>3, MaybeFails
  <2>2. retired \subseteq swapchains
    BY DEF Inv, TypeOK
  <2>3. TypeOK'
    BY <1>1, <1>3, <2>1, <2>2, ResizeFrame, ResizeFailedTyped DEF Inv, TypeOK
  <2>4. SurfaceInv'
    <3>1. "imageViews" \in faulted' \/ swapchains = {swapchain} \cap Ids
      BY <1>1, <2>1, WindowSurfaceAssumption DEF Inv, SurfaceInv, SwapchainsInv
    <3>2. swapchain # NoId => swapchain \in swapchains
      BY DEF Inv, SurfaceInv, OldOne
    <3> QED
      BY <1>1, <1>3, <2>1, <2>2, <3>1, <3>2, ResizeFailed
  <2> QED
    BY <2>3, <2>4 DEF Inv
<1> QED
  BY <1>2, <1>3 DEF Caps

LEMMA CreateSwapchainInv == Inv /\ CreateSwapchain => Inv'
PROOF
<1> SUFFICES ASSUME Inv, CreateSwapchain PROVE Inv'
  OBVIOUS
<1>1. /\ pc = "swapchain" /\ pc \in Steps /\ UNCHANGED <<serverVars, events, rect, running>>
      /\ building = NoId
  BY StepNames DEF CreateSwapchain, Inv, SurfaceInv, NewOne
<1>2. RetireOld \subseteq swapchains
  BY WindowSurfaceAssumption DEF RetireOld, Inv, TypeOK, SurfaceInv, OldOne
<1>3. CASE /\ building' \in Ids \ swapchains
           /\ swapchains' = SwapchainsWith(building')
           /\ retired' = RetireOld
           /\ pc' = NextStep[pc]
           /\ UNCHANGED <<resized, caller, newExtent, swapchain, extent, objects,
                          faultVars>>
  <2>1. pc' = "images" /\ pc' \in Steps
    BY <1>1, <1>3, StepNames DEF NextStep
  <2>2. TypeOK'
    BY <1>1, <1>2, <1>3, <2>1, ResizeFrame DEF SwapchainsWith, Inv, TypeOK, faultVars
  <2>3. SurfaceInv'
    <3>1. Built(pc) = {} /\ Built(pc') = {}
      BY <1>1, <2>1, NothingBuilt
    <3>2. OldOne'
      BY <1>3 DEF SwapchainsWith, Inv, SurfaceInv, OldOne
    <3>3. NewOne'
      BY <1>2, <1>3, <2>1, WindowSurfaceAssumption
         DEF SwapchainsWith, Inv, SurfaceInv, OldOne, NewOne
    <3>4. ObjectsInv'
      BY <1>3, <3>1 DEF Inv, SurfaceInv, ObjectsInv
    <3>5. SwapchainsInv'
      BY <1>1, <1>3, WindowSurfaceAssumption
         DEF SwapchainsWith, faultVars, Inv, SurfaceInv, SwapchainsInv
    <3> QED
      BY <3>2, <3>3, <3>4, <3>5 DEF SurfaceInv
  <2> QED
    BY <2>2, <2>3 DEF Inv
<1>4. CASE /\ IF Misused /\ ~driver.lenient THEN UNCHANGED faultVars ELSE Fail(pc)
           /\ ResizeFails(RetireOld, swapchains)
  <2>1. /\ faulted' \subseteq {"setup", "ui"} \cup Steps
        /\ failures' \in 0..MaxFailures
        /\ faulted \subseteq faulted'
    BY <1>4, MaybeFails
  <2>2. TypeOK'
    BY <1>1, <1>2, <1>4, <2>1, ResizeFrame, ResizeFailedTyped DEF Inv, TypeOK
  <2>3. SurfaceInv'
    <3>1. "imageViews" \in faulted' \/ swapchains = {swapchain} \cap Ids
      BY <1>1, <2>1, WindowSurfaceAssumption DEF Inv, SurfaceInv, SwapchainsInv
    <3>2. swapchain # NoId => swapchain \in swapchains
      BY DEF Inv, SurfaceInv, OldOne
    <3> QED
      BY <1>1, <1>2, <1>4, <2>1, <3>1, <3>2, ResizeFailed
  <2> QED
    BY <2>2, <2>3 DEF Inv
<1> QED
  BY <1>3, <1>4 DEF CreateSwapchain
LEMMA BuildInv == Inv /\ Build => Inv'
PROOF
<1> SUFFICES ASSUME Inv, Build PROVE Inv'
  OBVIOUS
<1>1. /\ pc \in BuildSteps /\ pc \in Steps
      /\ UNCHANGED <<serverVars, events, rect, running>>
      /\ building # NoId /\ building \in Ids
      /\ building \in swapchains /\ building \notin retired /\ building # swapchain
  BY StepNames DEF Build, BuildSteps, Inv, TypeOK, SurfaceInv, NewOne
<1>2. CASE /\ objects' = objects \cup ({pc} \cap Kinds) \X {building}
           /\ pc' = NextStep[pc]
           /\ UNCHANGED <<resized, localVars, swapchain, extent, swapchains,
                          retired, faultVars>>
  <2>1. /\ pc' \in Steps \ {"caps", "swapchain"}
        /\ Built(pc') = Built(pc) \cup ({pc} \cap Kinds)
    BY <1>1, <1>2, BuiltNext
  <2>2. objects' \subseteq Kinds \X Ids
    BY <1>1, <1>2 DEF Inv, TypeOK
  <2>3. TypeOK'
    BY <1>1, <1>2, <2>1, <2>2, ResizeFrame DEF Inv, TypeOK, localVars, faultVars
  <2>4. SurfaceInv'
    <3>1. ObjectsInv'
      BY <1>1, <1>2, <2>1 DEF localVars, Inv, SurfaceInv, ObjectsInv
    <3>2. OldOne' /\ NewOne' /\ SwapchainsInv'
      BY <1>1, <1>2, <2>1
         DEF localVars, faultVars, Inv, SurfaceInv, OldOne, NewOne, SwapchainsInv
    <3> QED
      BY <3>1, <3>2 DEF SurfaceInv
  <2> QED
    BY <2>3, <2>4 DEF Inv
<1>3. CASE /\ Fail(pc)
           /\ ResizeFails(retired, IF DestroysSwapchain(pc)
                                   THEN swapchains \ {building} ELSE swapchains)
  <2> DEFINE leftovers == IF DestroysSwapchain(pc)
                          THEN swapchains \ {building} ELSE swapchains
  <2>1. /\ faulted' \subseteq {"setup", "ui"} \cup Steps
        /\ failures' \in 0..MaxFailures
        /\ faulted \subseteq faulted' /\ pc \in faulted'
    BY <1>3, FailTyped
  <2>2. retired \subseteq leftovers /\ leftovers \subseteq swapchains
    BY <1>1 DEF Inv, TypeOK
  <2>3. TypeOK'
    <3> HIDE DEF leftovers
    <3> QED
      BY <1>1, <1>3, <2>1, <2>2, ResizeFrame, ResizeFailedTyped
         DEF Inv, TypeOK, leftovers
  <2>4. SurfaceInv'
    <3>1. "imageViews" \in faulted' \/ leftovers = {swapchain} \cap Ids
      <4>1. CASE DestroysSwapchain(pc)
        BY <1>1, <2>1, <4>1, WindowSurfaceAssumption DEF Inv, TypeOK, SurfaceInv, SwapchainsInv
      <4>2. CASE ~DestroysSwapchain(pc)
        BY <1>1, <2>1, <4>2, StepNames DEF DestroysSwapchain, BuildSteps
      <4> QED
        BY <4>1, <4>2
    <3>2. swapchain # NoId => swapchain \in leftovers
      BY <1>1 DEF Inv, SurfaceInv, OldOne
    <3> HIDE DEF leftovers
    <3> QED
      BY <1>1, <1>3, <2>1, <2>2, <3>1, <3>2, ResizeFailed DEF leftovers
  <2> QED
    BY <2>3, <2>4 DEF Inv
<1> QED
  BY <1>2, <1>3 DEF Build

LEMMA CommitInv == Inv /\ Commit => Inv'
PROOF
<1> SUFFICES ASSUME Inv, Commit PROVE Inv'
  OBVIOUS
<1>1. /\ pc = "commit" /\ pc \in Steps /\ UNCHANGED <<serverVars, events, rect, running>>
      /\ building # NoId /\ building \in Ids
      /\ building \in swapchains /\ building \notin retired /\ building # swapchain
  BY StepNames DEF Commit, Inv, TypeOK, SurfaceInv, NewOne
<1>2. pc' \in {"ui", "frame", "loop"}
  BY DEF Commit
<1>3. pc' \in Outside /\ pc' \notin Steps /\ Built(pc') = {} /\ Built(pc) = Kinds
  BY <1>1, <1>2, StepNames, NothingBuilt, AllBuilt DEF Outside
<1>4. objects' = Kinds \X ({building} \cap Ids)
  BY <1>1, <1>3 DEF Commit, ObjectsAfterCommit, Inv, SurfaceInv, ObjectsInv
<1>5. TypeOK'
  <2>1. resized' \in BOOLEAN
    BY DEF Commit, Inv, TypeOK
  <2>2. objects' \subseteq Kinds \X Ids
    BY <1>4
  <2> QED
    BY <1>1, <1>3, <2>1, <2>2, ResizeFrame DEF Commit, Inv, TypeOK, faultVars
<1>6. SurfaceInv'
  BY <1>1, <1>3, <1>4, WindowSurfaceAssumption
     DEF Commit, faultVars, Inv, TypeOK, SurfaceInv, OldOne, NewOne, ObjectsInv,
         SwapchainsInv
<1> QED
  BY <1>5, <1>6 DEF Inv-----------------------------------------------------------------------------
(* The steps outside Resize.                                               *)
LEMMA ServerInv ==
  ASSUME Inv, NEW size \in Sizes, NEW offset \in Offsets,
         Configure(size, offset) \/ AskClose
  PROVE  Inv'
PROOF
<1>1. server' \in [size : Sizes, offset : Offsets, exists : BOOLEAN]
  BY DEF Configure, AskClose, serverVars, Inv, TypeOK
<1>2. events' \in Seq(Events)
  <2>1. Configured(size, offset) \in Events /\ Delete \in Events
    BY ConfiguredEvent DEF Events
  <2>2. events \in Seq(Events)
    BY DEF Inv, TypeOK
  <2>3. \/ events' = Append(events, Configured(size, offset))
        \/ events' = Append(events, Delete)
    BY DEF Configure, AskClose
  <2> QED
    BY <2>1, <2>2, <2>3
<1>3. configures' \in 0..MaxConfigures
  BY WindowSurfaceAssumption DEF Configure, AskClose, serverVars, Inv, TypeOK
<1>4. UNCHANGED <<driver, windowVars, pc, localVars, surfaceVars, faultVars>>
  BY DEF Configure, AskClose, serverVars
<1>5. TypeOK'
  BY <1>1, <1>2, <1>3, <1>4
     DEF windowVars, localVars, surfaceVars, faultVars, Inv, TypeOK
<1>6. SurfaceInv'
  BY <1>4, SurfaceUntouched
     DEF localVars, surfaceVars, faultVars, SurfaceVars, Inv
<1> QED
  BY <1>5, <1>6 DEF Inv

LEMMA DispatchInv == Inv /\ (DispatchConfigure \/ DispatchClose) => Inv'
PROOF
<1> SUFFICES ASSUME Inv, DispatchConfigure \/ DispatchClose PROVE Inv'
  OBVIOUS
<1>1. /\ events \in Seq(Events) /\ events # <<>> /\ events' = Tail(events)
      /\ UNCHANGED <<configures, driver, pc, localVars, surfaceVars, faultVars>>
  BY DEF DispatchConfigure, DispatchClose, serverVars, Inv, TypeOK
<1>2. events' \in Seq(Events) /\ Head(events) \in Events
  BY <1>1
<1>3. server' \in [size : Sizes, offset : Offsets, exists : BOOLEAN]
  BY DEF DispatchConfigure, DispatchClose, serverVars, Inv, TypeOK
<1>4. rect' \in Rects /\ resized' \in BOOLEAN /\ running' \in BOOLEAN
  <2>1. CASE DispatchConfigure
    <3>1. Head(events).rect \in Rects
      BY <1>2, <2>1 DEF DispatchConfigure, Events, Delete
    <3> QED
      BY <2>1, <3>1 DEF DispatchConfigure, RectAfter, Rects, Inv, TypeOK
  <2>2. CASE DispatchClose
    BY <2>2 DEF DispatchClose, Inv, TypeOK
  <2> QED
    BY <2>1, <2>2
<1>5. TypeOK'
  BY <1>1, <1>2, <1>3, <1>4 DEF localVars, surfaceVars, faultVars, Inv, TypeOK
<1>6. SurfaceInv'
  BY <1>1, SurfaceUntouched DEF localVars, surfaceVars, faultVars, SurfaceVars, Inv
<1> QED
  BY <1>5, <1>6 DEF Inv

\* Creation, the loop and the frame: the surface is kept, or destroyed.
LEMMA LoopInv ==
  Inv /\ (CreateSurface \/ CreateUI \/ LoopTop \/ PollDone \/ Frame) => Inv'
PROOF
<1> SUFFICES ASSUME Inv, CreateSurface \/ CreateUI \/ LoopTop \/ PollDone \/ Frame
             PROVE  Inv'
  OBVIOUS
<1>1. /\ pc \in Outside /\ building = NoId
      /\ UNCHANGED <<serverVars, events, windowVars, building, newExtent>>
  BY StepNames DEF CreateSurface, CreateUI, LoopTop, PollDone, Frame, Outside,
                   localVars, Inv, SurfaceInv, NewOne
<1>2. /\ faulted' \subseteq {"setup", "ui"} \cup Steps
      /\ failures' \in 0..MaxFailures /\ faulted \subseteq faulted'
  <2>1. UNCHANGED faultVars \/ Fail("setup") \/ Fail("ui")
    BY DEF CreateSurface, CreateUI, LoopTop, PollDone, Frame
  <2>2. CASE UNCHANGED faultVars
    BY <2>2 DEF faultVars, Inv, TypeOK
  <2> QED
    BY <2>1, <2>2, FailTyped
<1>3. /\ pc' \in Outside \cup {"caps"}
      /\ caller' \in {"create", "begin", "suboptimal", "outOfDate"}
  BY DEF CreateSurface, CreateUI, LoopTop, PollDone, Frame, Outside, localVars,
         Inv, TypeOK
<1>4. UNCHANGED surfaceVars \/ (DestroySurface /\ pc' = "gone")
  BY DEF CreateSurface, CreateUI, LoopTop, PollDone, Frame
<1>5. /\ swapchain' \in Ids \cup {NoId} /\ extent' \in Nat
      /\ swapchains' \subseteq Ids /\ retired' \subseteq swapchains'
      /\ objects' \subseteq Kinds \X Ids
  BY <1>4 DEF surfaceVars, DestroySurface, Inv, TypeOK
<1>6. TypeOK'
  BY <1>1, <1>2, <1>3, <1>5, StepNames DEF serverVars, windowVars, Inv, TypeOK
<1>7. SurfaceInv'
  <2>1. CASE UNCHANGED surfaceVars
    BY <1>1, <1>2, <1>3, <2>1, SurfaceOutside DEF surfaceVars
  <2>2. CASE DestroySurface /\ pc' = "gone"
    BY <1>1, <1>2, <2>2, SurfaceDestroyed
  <2> QED
    BY <1>4, <2>1, <2>2
<1> QED
  BY <1>6, <1>7 DEF Inv

LEMMA StutterInv == Inv /\ UNCHANGED vars => Inv'
PROOF
  BY SurfaceUntouched
     DEF vars, serverVars, windowVars, localVars, surfaceVars, faultVars,
         SurfaceVars, Inv, TypeOK

LEMMA NextInv == Inv /\ [Next]_vars => Inv'
PROOF
<1> SUFFICES ASSUME Inv, [Next]_vars PROVE Inv'
  OBVIOUS
<1>1. ASSUME NEW size \in Sizes, NEW offset \in Offsets, Configure(size, offset)
      PROVE  Inv'
  BY <1>1, ServerInv
<1>2. CASE AskClose
  <2>1. server.size \in Sizes /\ server.offset \in Offsets
    BY DEF Inv, TypeOK
  <2> QED
    BY <1>2, <2>1, ServerInv
<1>3. CASE MainThread
  BY <1>3, LoopInv, DispatchInv, CapsInv, CreateSwapchainInv, BuildInv, CommitInv
     DEF MainThread, Resize
<1>4. CASE Stopped \/ UNCHANGED vars
  BY <1>4, StutterInv DEF Stopped
<1> QED
  BY <1>1, <1>2, <1>3, <1>4 DEF Next
-----------------------------------------------------------------------------
\* Everything keeps its type, and the retired swapchains are among those that
\* exist: ~Surface and Resize never forget one they have destroyed.
THEOREM TypeCorrect == Spec => []TypeOK
PROOF
<1>1. Spec => []Inv
  BY InitInv, NextInv, PTL DEF Spec
<1>2. Inv => TypeOK
  BY DEF Inv
<1> QED
  BY <1>1, <1>2, PTL

\* Whatever fails, in whatever order, the surface's swapchain and all that is
\* built on it exist as long as the surface names them.
THEOREM SurfaceIntactCorrect == Spec => []SurfaceIntact
PROOF
<1>1. Spec => []Inv
  BY InitInv, NextInv, PTL DEF Spec
<1>2. Inv => SurfaceIntact
  BY DEF Inv, TypeOK, SurfaceInv, OldOne, ObjectsInv, SurfaceIntact
<1> QED
  BY <1>1, <1>2, PTL

\* Outside Resize there is nothing but what the surface owns, and a failed
\* image view is the only way to have a swapchain more.
THEOREM NothingLeakedCorrect == Spec => []NothingLeaked
PROOF
<1>1. Spec => []Inv
  BY InitInv, NextInv, PTL DEF Spec
<1>2. Inv => NothingLeaked
  <2> SUFFICES ASSUME Inv, ~Resizing PROVE NothingLeaked
    BY DEF NothingLeaked
  <2>1. building = NoId
    BY StepNames DEF Resizing, Inv, SurfaceInv, NewOne
  <2>2. {building} \cap Ids = {}
    BY <2>1, WindowSurfaceAssumption
  <2> QED
    BY <2>1, <2>2, WindowSurfaceAssumption
       DEF NothingLeaked, Inv, SurfaceInv, ObjectsInv, SwapchainsInv
<1> QED
  BY <1>1, <1>2, PTL
-----------------------------------------------------------------------------
(* That no change of size is forgotten.                                    *)

Changes(es, i) == es[i].kind = "configure"

\* The server's size is the last one it has sent, or the one in rect_.
LastChange(es, i) ==
  Changes(es, i) /\ \A j \in (i + 1)..Len(es) : ~Changes(es, j)

ServerSize ==
  \/ (\A i \in 1..Len(events) : ~Changes(events, i)) /\ rect.size = server.size
  \/ \E i \in 1..Len(events) : LastChange(events, i) /\ events[i].rect.size = server.size

\* No event in the queue will make Dispatch see another size.
Settled == \A i \in 1..Len(events) : Changes(events, i) => events[i].rect.size = rect.size

\* Resize was called by BeginFrame because of resized, otherwise not.
ResizedInv ==
  /\ pc = "frame" => ~resized
  /\ pc \in Steps => (resized <=> caller = "begin")
  /\ pc = "create" => caller = "create"
  /\ pc \in {"create", "ui"} => ~resized

\* While nothing is on its way the surface, or the one being built, fits.
ExtentInv ==
  Settled =>
    /\ pc \in {"ui", "loop", "poll", "frame"} /\ ~resized => extent = Wanted
    /\ pc \in Steps /\ caller \in {"suboptimal", "outOfDate"} => extent = Wanted
    /\ pc \in Steps \ {"caps"} => newExtent = Wanted

FollowInv == Inv /\ ServerSize /\ ResizedInv /\ ExtentInv

LEMMA SettledSize ==
  ASSUME ServerSize, Settled
  PROVE  rect.size = server.size
PROOF BY DEF ServerSize, Settled, LastChange

\* Another event at the end of the queue.
LEMMA AppendSize ==
  ASSUME Inv, ServerSize, UNCHANGED rect,
         NEW e \in Events, events' = Append(events, e),
         \/ e.kind = "configure" /\ e.rect.size = server'.size
         \/ e.kind = "delete" /\ server'.size = server.size
  PROVE  /\ ServerSize'
         /\ Settled' => Settled /\ server'.size = server.size
PROOF
<1>1. /\ events \in Seq(Events) /\ Len(events) \in Nat
      /\ Len(events') = Len(events) + 1
      /\ events'[Len(events) + 1] = e
      /\ \A i \in 1..Len(events) : events'[i] = events[i]
  BY DEF Inv, TypeOK
<1>2. CASE e.kind = "configure" /\ e.rect.size = server'.size
  <2>1. ServerSize'
    <3>1. LastChange(events', Len(events) + 1)
      BY <1>1, <1>2 DEF LastChange, Changes
    <3> QED
      BY <1>1, <1>2, <3>1 DEF ServerSize
  <2>2. ASSUME Settled' PROVE Settled /\ server'.size = server.size
    <3>1. Settled
      BY <1>1, <2>2 DEF Settled, Changes
    <3>2. server'.size = rect.size
      BY <1>1, <1>2, <2>2 DEF Settled, Changes
    <3> QED
      BY <3>1, <3>2, SettledSize
  <2> QED
    BY <2>1, <2>2
<1>3. CASE e.kind = "delete" /\ server'.size = server.size
  <2>1. ServerSize'
    <3>1. ~Changes(events', Len(events) + 1)
      BY <1>1, <1>3 DEF Changes
    <3>2. \A i \in 1..Len(events) : LastChange(events, i) => LastChange(events', i)
      BY <1>1, <3>1 DEF LastChange, Changes
    <3> QED
      BY <1>1, <1>3, <3>1, <3>2 DEF ServerSize, Changes
  <2>2. Settled' => Settled
    BY <1>1 DEF Settled, Changes
  <2> QED
    BY <1>3, <2>1, <2>2
<1> QED
  BY <1>2, <1>3

\* The first event is taken from the queue.
LEMMA TailSize ==
  ASSUME Inv, ServerSize, events # <<>>, events' = Tail(events),
         server'.size = server.size,
         \/ Head(events).kind = "configure" /\ rect'.size = Head(events).rect.size
         \/ Head(events).kind = "delete" /\ rect' = rect
  PROVE  /\ ServerSize'
         /\ rect'.size = rect.size => (Settled' <=> Settled)
PROOF
<1>1. /\ events \in Seq(Events) /\ Len(events) \in Nat \ {0}
      /\ Len(events') = Len(events) - 1
      /\ \A i \in 1..Len(events') : events'[i] = events[i + 1]
      /\ Head(events) = events[1]
  BY DEF Inv, TypeOK
<1>2. \A i \in 1..Len(events') : Changes(events', i) = Changes(events, i + 1)
  BY <1>1 DEF Changes
<1>3. ServerSize'
  <2>1. CASE (\A i \in 1..Len(events) : ~Changes(events, i)) /\ rect.size = server.size
    BY <1>1, <1>2, <2>1 DEF ServerSize, Changes
  <2>2. ASSUME NEW i \in 1..Len(events), LastChange(events, i),
               events[i].rect.size = server.size
        PROVE  ServerSize'
    <3>1. CASE i = 1
      <4>1. rect'.size = server'.size
        BY <1>1, <2>2, <3>1 DEF LastChange, Changes
      <4>2. \A j \in 1..Len(events') : ~Changes(events', j)
        BY <1>1, <1>2, <2>2, <3>1 DEF LastChange
      <4> QED
        BY <4>1, <4>2 DEF ServerSize
    <3>2. CASE i # 1
      <4>1. i - 1 \in 1..Len(events')
        BY <1>1, <3>2
      <4>2. LastChange(events', i - 1)
        BY <1>1, <1>2, <2>2, <4>1 DEF LastChange
      <4>3. events'[i - 1].rect.size = server'.size
        BY <1>1, <2>2, <4>1
      <4> QED
        BY <4>1, <4>2, <4>3 DEF ServerSize
    <3> QED
      BY <3>1, <3>2
  <2> QED
    BY <2>1, <2>2 DEF ServerSize
<1>4. rect'.size = rect.size => (Settled' <=> Settled)
  BY <1>1, <1>2 DEF Settled, Changes
<1> QED
  BY <1>3, <1>4
LEMMA FollowInit == Init => FollowInv
PROOF
<1> SUFFICES ASSUME Init PROVE FollowInv
  OBVIOUS
<1>1. Inv
  BY InitInv
<1>2. ServerSize
  <2>1. CASE events = <<>> /\ server.size = rect.size
    BY <2>1 DEF ServerSize
  <2>2. CASE events = <<Configured(server.size, server.offset)>>
    <3>1. Len(events) = 1 /\ events[1] = Configured(server.size, server.offset)
      BY <2>2
    <3>2. events[1].kind = "configure" /\ events[1].rect.size = server.size
      BY <3>1 DEF Configured
    <3>3. LastChange(events, 1)
      BY <3>1, <3>2 DEF LastChange, Changes
    <3> QED
      BY <3>1, <3>2, <3>3 DEF ServerSize
  <2> QED
    BY <2>1, <2>2 DEF Init
<1>3. ResizedInv /\ ExtentInv
  BY StepNames DEF Init, ResizedInv, ExtentInv
<1> QED
  BY <1>1, <1>2, <1>3 DEF FollowInv

LEMMA ServerFollow ==
  ASSUME FollowInv, NEW size \in Sizes, NEW offset \in Offsets,
         Configure(size, offset) \/ AskClose
  PROVE  ServerSize' /\ ResizedInv' /\ ExtentInv'
PROOF
<1>1. Inv /\ ServerSize
  BY DEF FollowInv
<1>2. UNCHANGED <<driver, windowVars, pc, localVars, surfaceVars>>
  BY DEF Configure, AskClose, serverVars
<1>3. ServerSize' /\ (Settled' => Settled /\ server'.size = server.size)
  <2>1. CASE Configure(size, offset)
    <3> DEFINE e == Configured(size, offset)
    <3>1. e \in Events /\ e.kind = "configure" /\ e.rect.size = size
      BY ConfiguredEvent DEF Configured
    <3>2. server'.size = size
      BY <2>1 DEF Configure, Inv, TypeOK, FollowInv
    <3>3. events' = Append(events, e) /\ UNCHANGED rect
      BY <1>2, <2>1 DEF Configure, windowVars
    <3> HIDE DEF e
    <3> QED
      BY <1>1, <3>1, <3>2, <3>3, AppendSize
  <2>2. CASE AskClose
    <3>1. /\ Delete \in Events /\ Delete.kind = "delete"
          /\ events' = Append(events, Delete)
          /\ server'.size = server.size /\ UNCHANGED rect
      BY <1>2, <2>2 DEF AskClose, Events, Delete, serverVars, windowVars
    <3> QED
      BY <1>1, <3>1, AppendSize
  <2> QED
    BY <2>1, <2>2
<1>4. ResizedInv'
  BY <1>2 DEF FollowInv, ResizedInv, windowVars, localVars
<1>5. ExtentInv'
  BY <1>2, <1>3
     DEF FollowInv, ExtentInv, Wanted, windowVars, localVars, surfaceVars
<1> QED
  BY <1>3, <1>4, <1>5

LEMMA DispatchFollow ==
  ASSUME FollowInv, DispatchConfigure \/ DispatchClose
  PROVE  ServerSize' /\ ResizedInv' /\ ExtentInv'
PROOF
<1>1. Inv /\ ServerSize
  BY DEF FollowInv
<1>2. /\ pc = "poll" /\ events # <<>> /\ events' = Tail(events)
      /\ server'.size = server.size
      /\ UNCHANGED <<driver, pc, localVars, surfaceVars>>
  BY DEF DispatchConfigure, DispatchClose, serverVars, Inv, TypeOK, FollowInv
<1>3. pc \notin Steps
  BY <1>2, StepNames
<1>4. ResizedInv'
  BY <1>2, <1>3 DEF ResizedInv
<1>5. CASE DispatchConfigure
  <2>1. /\ Head(events).kind = "configure"
        /\ rect'.size = Head(events).rect.size
        /\ resized' = (resized \/ Head(events).rect.size # rect.size)
    BY <1>5 DEF DispatchConfigure, RectAfter, Inv, TypeOK, FollowInv, Rects
  <2>2. ServerSize' /\ (rect'.size = rect.size => (Settled' <=> Settled))
    BY <1>1, <1>2, <2>1, TailSize
  <2>3. ExtentInv'
    BY <1>2, <1>3, <2>1, <2>2
       DEF FollowInv, ExtentInv, Wanted, localVars, surfaceVars
  <2> QED
    BY <1>4, <2>2, <2>3
<1>6. CASE DispatchClose
  <2>1. Head(events).kind = "delete" /\ rect' = rect /\ resized' = resized
    BY <1>6 DEF DispatchClose
  <2>2. ServerSize' /\ (Settled' <=> Settled)
    BY <1>1, <1>2, <2>1, TailSize
  <2>3. ExtentInv'
    BY <1>2, <1>3, <2>1, <2>2
       DEF FollowInv, ExtentInv, Wanted, localVars, surfaceVars
  <2> QED
    BY <1>4, <2>2, <2>3
<1> QED
  BY <1>5, <1>6

\* Nothing is sent or dispatched: what is on its way stays the same.
LEMMA SameEvents ==
  ASSUME UNCHANGED <<serverVars, events, rect>>
  PROVE  /\ ServerSize' <=> ServerSize
         /\ Settled' <=> Settled
         /\ Wanted' = Wanted
PROOF BY DEF serverVars, ServerSize, Settled, Wanted

LEMMA LoopFollow ==
  ASSUME FollowInv,
         CreateSurface \/ CreateUI \/ LoopTop \/ PollDone \/ Frame
  PROVE  ServerSize' /\ ResizedInv' /\ ExtentInv'
PROOF
<1>1. UNCHANGED <<serverVars, events, rect, resized, extent>>
  BY DEF CreateSurface, CreateUI, LoopTop, PollDone, Frame, windowVars,
         surfaceVars, DestroySurface
<1>2. pc' \notin Steps \ {"caps"}
  BY StepNames DEF CreateSurface, CreateUI, LoopTop, PollDone, Frame
<1>3. ResizedInv'
  BY <1>1, StepNames
     DEF CreateSurface, CreateUI, LoopTop, PollDone, Frame, FollowInv, ResizedInv,
         localVars
<1>4. ExtentInv'
  BY <1>1, <1>2, SameEvents, StepNames
     DEF CreateSurface, CreateUI, LoopTop, PollDone, Frame, FollowInv, ExtentInv,
         ResizedInv, localVars
<1> QED
  BY <1>1, <1>3, <1>4, SameEvents DEF FollowInv
\* After an error BeginFrame finds resized set, and EndFrame the extent of
\* before.
LEMMA FailFollow ==
  ASSUME FollowInv, NEW retiredNow, NEW leftovers, ResizeFails(retiredNow, leftovers),
         pc \in Steps, UNCHANGED <<serverVars, events, rect, running>>
  PROVE  ServerSize' /\ ResizedInv' /\ ExtentInv'
PROOF
<1>1. /\ pc' \in {"gone", "hung", "loop"} /\ pc' \notin Steps
      /\ pc' = "loop" => caller # "create"
  BY StepNames DEF ResizeFails, AfterError
<1>2. /\ UNCHANGED <<caller, extent>>
      /\ resized' = (resized /\ caller \in {"create", "begin"})
  BY DEF ResizeFails, ResizedAfterError
<1>3. caller \in {"create", "begin", "suboptimal", "outOfDate"}
  BY DEF FollowInv, Inv, TypeOK
<1>4. ResizedInv'
  BY <1>1 DEF ResizedInv
<1>5. ExtentInv'
  BY <1>1, <1>2, <1>3, SameEvents DEF FollowInv, ResizedInv, ExtentInv
<1> QED
  BY <1>4, <1>5, SameEvents DEF FollowInv

LEMMA ResizeFollow ==
  ASSUME FollowInv, Caps \/ CreateSwapchain \/ Build
  PROVE  ServerSize' /\ ResizedInv' /\ ExtentInv'
PROOF
<1>1. pc \in Steps \ {"commit"} /\ UNCHANGED <<serverVars, events, rect, running>>
  BY StepNames DEF Caps, CreateSwapchain, Build
<1>2. CASE \E retiredNow, leftovers : ResizeFails(retiredNow, leftovers)
  BY <1>1, <1>2, FailFollow
<1>3. CASE /\ pc' = NextStep[pc]
           /\ UNCHANGED <<resized, caller, extent>>
           /\ \/ /\ pc = "caps"
                 /\ newExtent' = IF driver.extentDefined THEN server.size
                                 ELSE Clamp(rect.size)
              \/ pc # "caps" /\ UNCHANGED newExtent
  <2>1. pc' \in Steps \ {"caps"}
    <3>1. CASE pc \in BuildSteps
      BY <1>3, <3>1, BuiltNext
    <3>2. CASE pc \in {"caps", "swapchain"}
      BY <1>3, <3>2, StepNames DEF NextStep
    <3> QED
      BY <1>1, <3>1, <3>2 DEF BuildSteps
  <2>2. ResizedInv'
    BY <1>1, <1>3, <2>1, StepNames DEF FollowInv, ResizedInv
  <2>3. Settled => newExtent' = Wanted
    <3>1. CASE pc = "caps"
      <4>1. Settled => rect.size = server.size
        BY SettledSize DEF FollowInv
      <4> QED
        BY <1>3, <3>1, <4>1 DEF Wanted
    <3>2. CASE pc # "caps"
      BY <1>1, <1>3, <3>2 DEF FollowInv, ExtentInv
    <3> QED
      BY <3>1, <3>2
  <2>4. ExtentInv'
    BY <1>1, <1>3, <2>1, <2>3, SameEvents, StepNames DEF FollowInv, ExtentInv
  <2> QED
    BY <1>1, <2>2, <2>4, SameEvents DEF FollowInv
<1>4. \/ \E retiredNow, leftovers : ResizeFails(retiredNow, leftovers)
      \/ /\ pc' = NextStep[pc]
         /\ UNCHANGED <<resized, caller, extent>>
         /\ \/ /\ pc = "caps"
               /\ newExtent' = IF driver.extentDefined THEN server.size
                               ELSE Clamp(rect.size)
            \/ pc # "caps" /\ UNCHANGED newExtent
  <2>1. CASE Caps
    BY <2>1 DEF Caps, surfaceVars
  <2>2. CASE CreateSwapchain
    BY <2>2 DEF CreateSwapchain
  <2>3. CASE Build
    BY <2>3 DEF Build, localVars
  <2> QED
    BY <2>1, <2>2, <2>3
<1> QED
  BY <1>2, <1>3, <1>4

LEMMA CommitFollow ==
  ASSUME FollowInv, Commit
  PROVE  ServerSize' /\ ResizedInv' /\ ExtentInv'
PROOF
<1>1. /\ pc = "commit" /\ pc \in Steps \ {"caps"}
      /\ UNCHANGED <<serverVars, events, rect>>
      /\ pc' \in {"ui", "frame", "loop"} /\ pc' \notin Steps
      /\ extent' = newExtent
  BY StepNames DEF Commit
<1>2. ~resized'
  BY <1>1 DEF Commit, FollowInv, ResizedInv
<1>3. ResizedInv'
  BY <1>1, <1>2 DEF ResizedInv
<1>4. ExtentInv'
  BY <1>1, SameEvents DEF FollowInv, ExtentInv
<1> QED
  BY <1>1, <1>3, <1>4, SameEvents DEF FollowInv

LEMMA FollowNext == FollowInv /\ [Next]_vars => FollowInv'
PROOF
<1> SUFFICES ASSUME FollowInv, [Next]_vars PROVE FollowInv'
  OBVIOUS
<1>1. Inv'
  BY NextInv DEF FollowInv
<1>2. ASSUME NEW size \in Sizes, NEW offset \in Offsets, Configure(size, offset)
      PROVE  ServerSize' /\ ResizedInv' /\ ExtentInv'
  BY <1>2, ServerFollow
<1>3. CASE AskClose
  <2>1. server.size \in Sizes /\ server.offset \in Offsets
    BY DEF FollowInv, Inv, TypeOK
  <2> QED
    BY <1>1, <1>3, <2>1, ServerFollow DEF FollowInv
<1>4. CASE MainThread
  BY <1>1, <1>4, LoopFollow, DispatchFollow, ResizeFollow, CommitFollow
     DEF MainThread, Resize, FollowInv
<1>5. CASE Stopped \/ UNCHANGED vars
  <2>1. UNCHANGED <<serverVars, events, rect, resized, pc, caller, extent, newExtent>>
    BY <1>5 DEF Stopped, vars, windowVars, localVars, surfaceVars
  <2>2. ResizedInv' /\ ExtentInv'
    BY <2>1, SameEvents DEF FollowInv, ResizedInv, ExtentInv
  <2> QED
    BY <1>1, <2>1, <2>2, SameEvents DEF FollowInv
<1> QED
  BY <1>1, <1>2, <1>3, <1>4, <1>5 DEF Next, FollowInv

\* For any number and order of size changes, dispatched before, while and
\* after Resize runs or fails: with no event left the surface has the extent
\* of the window, or resized says that it has not.
THEOREM ExtentFollowsCorrect == Spec => []ExtentFollows
PROOF
<1>1. Spec => []FollowInv
  BY FollowInit, FollowNext, PTL DEF Spec
<1>2. FollowInv => ExtentFollows
  <2> SUFFICES ASSUME FollowInv, events = <<>> PROVE ExtentFollows
    BY DEF ExtentFollows
  <2>1. Settled
    BY DEF Settled
  <2> QED
    BY <2>1 DEF FollowInv, ExtentInv, ExtentFollows
<1> QED
  BY <1>1, <1>2, PTL
=============================================================================
