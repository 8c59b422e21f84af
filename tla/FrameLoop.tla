----------------------------- MODULE FrameLoop -----------------------------
(***************************************************************************)
(* The frame loop of iris: the application's main thread running           *)
(*    while (IsRunning()) { if (!BeginFrame()) continue; EndFrame(); }     *)
(* with everything BeginFrame and EndFrame call, the GPU queue it submits  *)
(* to, and the IO tasks that post continuations to it.                     *)
(*                                                                         *)
(* The main thread is one process with a program counter; a Vulkan call    *)
(* that may fail is a step of its own.  The GPU (external) executes the    *)
(* submissions of the one graphics queue in order: a submission signals    *)
(* its fence only after every earlier one has finished.                    *)
(***************************************************************************)
EXTENDS Integers, Sequences, FiniteSets

CONSTANTS
  Windows,         \* windows that control files ask to open
  Scenes,          \* glTF files whose meshes are uploaded
  None,            \* no window or scene
  Faults,          \* the failing calls explored, a subset of FaultNames
  AcquireResults,  \* what vkAcquireNextImageKHR may return
  MaxFailures,     \* bound: steps of one behaviour in which a call fails
  MaxUploads       \* bound: one-time submissions of one continuation

\* The calls whose failure the code handles (or ignores), by call site.
FaultNames == {"continuation", "resize", "resizeInEnd", "oneTimeWait",
               "oneTimeReset", "waitFence", "resetFence", "resetPool",
               "acquire", "reacquire", "allocate", "record", "mapUniforms",
               "endWindow", "submit", "present", "waitQueue", "waitDevice"}

\* Results other than VK_SUCCESS that the history variable remembers.
Mishaps == FaultNames \cup {"suboptimal"}

ASSUME FrameLoopAssumption ==
  /\ IsFiniteSet(Windows)
  /\ Windows \cap Scenes = {}
  /\ None \notin Windows \cup Scenes
  /\ Faults \subseteq FaultNames
  /\ AcquireResults \subseteq {"success", "suboptimal", "outOfDate"}
  /\ MaxFailures \in Nat
  /\ MaxUploads \in Nat \ {0}

Loads == Windows \cup Scenes

\* What a submission uses and the main thread destroys, frees or rewrites.
Surface(w)    == <<"surface", w>>    \* swapchain, views, targets, framebuffers
UIBuffers(w)  == <<"ui", w>>         \* vertex and index buffer of the UI
Pool          == <<"pool", None>>    \* sGraphicsCommandPools[0]
Secondaries   == <<"secondaries", None>>
Uniforms      == <<"uniforms", None>>  \* sMatrixBuffer and sLightBuffer
OneTimeBuffer == <<"oneTime", None>>
Resources == {Surface(w) : w \in Windows} \cup {UIBuffers(w) : w \in Windows}
               \cup {Pool, Secondaries, Uniforms, OneTimeBuffer}

VARIABLES
  running,          \* sRunning
  pc,               \* where the main thread is
  site,             \* which caller the current upload or resize returns to
  cur,              \* the window or scene being worked on
  left,             \* one-time submissions it still needs
  todo,             \* windows the current loop over Windows() has yet to visit
  open,             \* keys of Windows()
  loading,          \* files whose IO task has not finished
  ioContinuations,  \* sIOContinuations
  resized,          \* Window::resized
  retired,          \* swapchain was passed as oldSwapchain and not replaced
  image,            \* currentImageIndex: never set, of this swapchain, or older
  imageAvailable,   \* unconsumed signals of the semaphore, 2 for "two or more"
  uiFrame,          \* ImGui::NewFrame was called and EndFrame was not yet
  secondaries,      \* sSecondaryCommandBuffers: what each handle stands for
  frameFence,       \* sFrameComplete is signaled
  oneTimeFence,     \* sOneTimeSubmitFence is signaled
  presentReady,     \* sImagesReadyForPresent has an unconsumed signal
  gpuQueue,         \* submissions not yet finished
  clobbered,        \* history: resources released while a submission used them
  faulted,          \* history: calls that failed, suboptimal acquires
  failures          \* how many have failed

control   == <<pc, site, cur, left, todo>>
ioVars    == <<loading, ioContinuations>>
surfaces  == <<retired, image, imageAvailable>>
fences    == <<frameFence, oneTimeFence>>
faultVars == <<faulted, failures>>
vars == <<running, control, open, ioVars, resized, surfaces, uiFrame,
          secondaries, fences, presentReady, gpuQueue, clobbered, faultVars>>

PCs == {"loop", "drain", "windows", "resize", "oneTime", "oneTimeWait",
        "commit", "newFrame", "waitFence", "resetFence", "resetPool",
        "acquire", "reacquire", "primary", "passes", "endWindow", "submit",
        "present", "shutdown", "waitDevice", "done", "crashed"}

\* A handle of sSecondaryCommandBuffers is null, or that of a command buffer
\* not recorded since it was allocated or its pool reset, of a recorded one,
\* or of one whose recording failed.
BufferStates == {"null", "initial", "recorded", "invalid"}

Submission == [kind : {"frame", "oneTime"}, uses : SUBSET Resources,
               blocked : SUBSET Windows]

ControlTypes ==
  /\ running \in BOOLEAN
  /\ pc \in PCs
  /\ site \in {"drain", "begin", "end"}
  /\ cur \in Loads \cup {None}
  /\ left \in Nat
  /\ todo \subseteq open
  /\ open \subseteq Windows

IOTypes == loading \subseteq Loads /\ ioContinuations \in Seq(Loads)

WindowTypes ==
  /\ resized \in [Windows -> BOOLEAN]
  /\ retired \in [Windows -> BOOLEAN]
  /\ image \in [Windows -> {"none", "current", "stale"}]
  /\ imageAvailable \in [Windows -> 0..2]
  /\ uiFrame \in [Windows -> BOOLEAN]

DeviceTypes ==
  /\ secondaries \in Seq(BufferStates)
  /\ frameFence \in BOOLEAN
  /\ oneTimeFence \in BOOLEAN
  /\ presentReady \in BOOLEAN
  /\ gpuQueue \in Seq(Submission)

HistoryTypes ==
  /\ clobbered \subseteq Resources
  /\ faulted \subseteq Mishaps
  /\ failures \in Nat

TypeOK == ControlTypes /\ IOTypes /\ WindowTypes /\ DeviceTypes /\ HistoryTypes

Init ==
  /\ running = TRUE
  /\ pc = "loop" /\ site = "drain" /\ cur = None /\ left = 0 /\ todo = {}
  /\ open = {}
  /\ loading = Loads
  /\ ioContinuations = <<>>
  /\ resized = [w \in Windows |-> FALSE]
  /\ retired = [w \in Windows |-> FALSE]
  /\ image = [w \in Windows |-> "none"]
  /\ imageAvailable = [w \in Windows |-> 0]
  /\ uiFrame = [w \in Windows |-> FALSE]
  /\ secondaries = <<>>
  /\ frameFence = TRUE       \* created with VK_FENCE_CREATE_SIGNALED_BIT
  /\ oneTimeFence = FALSE
  /\ presentReady = FALSE
  /\ gpuQueue = <<>>
  /\ clobbered = {}
  /\ faulted = {} /\ failures = 0
-----------------------------------------------------------------------------
InQueue(kind) == \E i \in 1..Len(gpuQueue) : gpuQueue[i].kind = kind
GpuUses == UNION {gpuQueue[i].uses : i \in 1..Len(gpuQueue)}

\* The main thread destroys, frees, resets or rewrites the resources in S.
Release(S) == clobbered' = clobbered \cup (S \cap GpuUses)

Goto(p) == pc' = p /\ UNCHANGED <<site, cur, left, todo>>

\* The Vulkan call named f returns an error.
Fail(f) ==
  /\ f \in Faults
  /\ failures < MaxFailures
  /\ failures' = failures + 1
  /\ faulted' = faulted \cup {f}

\* What a call does with a null handle, a buffer in the wrong state or the
\* pointer of a failed vmaMapMemory is undefined: the process goes on or ends.
GoOnOrCrash(p) == pc' \in {p, "crashed"}

\* The fault charged when work done on behalf of the current site fails.
SiteFault == CASE site = "drain" -> "continuation"
               [] site = "begin" -> "resize"
               [] site = "end"   -> "resizeInEnd"
-----------------------------------------------------------------------------
(* IO tasks: a worker finishes a file and pushes its continuation; a file  *)
(* with an unknown extension is logged and pushes nothing.                 *)
FinishLoad(l) ==
  /\ l \in loading
  /\ loading' = loading \ {l}
  /\ ioContinuations' \in {ioContinuations, Append(ioContinuations, l)}
  /\ UNCHANGED <<running, control, open, resized, surfaces, uiFrame,
                 secondaries, fences, presentReady, gpuQueue, clobbered,
                 faultVars>>

(* The GPU finishes the oldest submission and signals its fence, unless it *)
(* waits on a semaphore nobody will signal.                                *)
GpuFinish ==
  /\ gpuQueue # <<>>
  /\ Head(gpuQueue).blocked = {}
  /\ gpuQueue' = Tail(gpuQueue)
  /\ frameFence' = (frameFence \/ Head(gpuQueue).kind = "frame")
  /\ oneTimeFence' = (oneTimeFence \/ Head(gpuQueue).kind = "oneTime")
  /\ UNCHANGED <<running, control, open, ioVars, resized, surfaces, uiFrame,
                 secondaries, presentReady, clobbered, faultVars>>
-----------------------------------------------------------------------------
(* BeginFrame: the running check, then every queued continuation.          *)
AfterLoopTopUnchecked == "drain"
AfterLoopTopEarlyOut == IF ~running THEN "shutdown"
                        ELSE IF open = {} THEN "loop" ELSE "drain"
AfterLoopTop == IF running THEN "drain" ELSE "shutdown"

LoopTop ==
  /\ pc = "loop"
  /\ Goto(AfterLoopTop)
  /\ UNCHANGED <<running, open, ioVars, resized, surfaces, uiFrame,
                 secondaries, fences, presentReady, gpuQueue, clobbered,
                 faultVars>>

(* A continuation that fails at once is logged; otherwise it performs      *)
(* one-time submissions: a window its layout transitions and UI uploads, a *)
(* scene the uploads of its meshes.                                        *)
RunContinuation ==
  /\ pc = "drain"
  /\ ioContinuations # <<>>
  /\ ioContinuations' = Tail(ioContinuations)
  /\ \/ Fail("continuation") /\ UNCHANGED control
     \/ /\ \E n \in 1..MaxUploads : left' = n
        /\ cur' = Head(ioContinuations)
        /\ site' = "drain"
        /\ pc' = "oneTime"
        /\ UNCHANGED <<todo, faultVars>>
  /\ UNCHANGED <<running, open, loading, resized, surfaces, uiFrame,
                 secondaries, fences, presentReady, gpuQueue, clobbered>>

DrainDone ==
  /\ pc = "drain"
  /\ ioContinuations = <<>>
  /\ IF open = {} THEN Goto("loop")
     ELSE pc' = "windows" /\ todo' = open /\ UNCHANGED <<site, cur, left>>
  /\ UNCHANGED <<running, open, ioVars, resized, surfaces, uiFrame,
                 secondaries, fences, presentReady, gpuQueue, clobbered,
                 faultVars>>

(* Window::BeginFrame: PollEvents may call Window::Resize or Window::Close *)
(* (-> Terminate); a window marked resized then resizes its surface.       *)
PollWindow(w) ==
  /\ pc = "windows"
  /\ w \in todo
  /\ \E resizeEvent, closeEvent \in BOOLEAN :
       /\ resized' = [resized EXCEPT ![w] = @ \/ resizeEvent]
       /\ running' = (running /\ ~closeEvent)
  /\ cur' = w
  /\ site' = "begin"
  /\ pc' = IF resized'[w] THEN "resize" ELSE "newFrame"
  /\ UNCHANGED <<left, todo, open, ioVars, surfaces, uiFrame, secondaries,
                 fences, presentReady, gpuQueue, clobbered, faultVars>>

NewFrame ==
  /\ pc = "newFrame"
  /\ uiFrame' = [uiFrame EXCEPT ![cur] = TRUE]
  /\ todo' = todo \ {cur}
  /\ pc' = "windows"
  /\ UNCHANGED <<site, cur, left, running, open, ioVars, resized, surfaces,
                 secondaries, fences, presentReady, gpuQueue, clobbered,
                 faultVars>>

WindowsDone ==
  /\ pc = "windows"
  /\ todo = {}
  /\ Goto("waitFence")
  /\ UNCHANGED <<running, open, ioVars, resized, surfaces, uiFrame,
                 secondaries, fences, presentReady, gpuQueue, clobbered,
                 faultVars>>
-----------------------------------------------------------------------------
(* Surface::Resize and the one-time submissions.                           *)

\* Resize transitions two images: the color and the depth-stencil target.
TransitionsNone == 0
Transitions == 2

\* The caller's reaction to an error: BeginFrame returns false with resized
\* still set, EndFrame ignores it, the drain loop logs it and goes on.
ResizedAfterErrorCleared ==
  IF site = "drain" THEN resized ELSE [resized EXCEPT ![cur] = FALSE]
ResizedAfterError ==
  IF site = "end" THEN [resized EXCEPT ![cur] = FALSE] ELSE resized

Abandon ==
  /\ Goto(CASE site = "drain" -> "drain"
            [] site = "begin" -> "loop"
            [] site = "end"   -> "reacquire")
  /\ resized' = ResizedAfterError

\* CreateSwapchain retires the old swapchain; a later failure destroys the
\* new one and leaves the retired one in place.
ResizeStart ==
  /\ pc = "resize"
  /\ \/ /\ retired' = [retired EXCEPT ![cur] = TRUE]
        /\ left' = Transitions
        /\ pc' = "oneTime"
        /\ UNCHANGED <<site, cur, todo, resized, faultVars>>
     \/ /\ Fail(SiteFault)
        /\ retired' \in {retired, [retired EXCEPT ![cur] = TRUE]}
        /\ Abandon
  /\ UNCHANGED <<running, open, ioVars, image, imageAvailable, uiFrame,
                 secondaries, fences, presentReady, gpuQueue, clobbered>>

\* BeginOneTimeSubmit and EndOneTimeSubmit up to vkQueueSubmit.
OneTimeSubmit ==
  /\ pc = "oneTime"
  /\ \/ /\ gpuQueue' = Append(gpuQueue,
               [kind |-> "oneTime", uses |-> {OneTimeBuffer, Pool},
                blocked |-> {}])
        /\ Goto("oneTimeWait")
        /\ UNCHANGED <<resized, faultVars>>
     \/ /\ Fail(SiteFault)
        /\ Abandon
        /\ UNCHANGED gpuQueue
  /\ UNCHANGED <<running, open, ioVars, surfaces, uiFrame, secondaries,
                 fences, presentReady, clobbered>>

\* vkWaitForFences on sOneTimeSubmitFence returns.
OneTimeDoneUnwaited == TRUE
OneTimeDone == oneTimeFence

\* EndOneTimeSubmit from vkWaitForFences on; every path frees the buffer.
OneTimeWait ==
  /\ pc = "oneTimeWait"
  /\ Release({OneTimeBuffer})
  /\ \/ /\ OneTimeDone
        /\ oneTimeFence' = FALSE
        /\ left' = left - 1
        /\ pc' = IF left > 1 THEN "oneTime"
                 ELSE IF cur \in Scenes THEN "drain" ELSE "commit"
        /\ UNCHANGED <<site, cur, todo, resized, faultVars>>
     \/ /\ \/ Fail("oneTimeWait")
           \/ OneTimeDone /\ Fail("oneTimeReset")
        /\ Abandon
        /\ UNCHANGED oneTimeFence
  /\ UNCHANGED <<running, open, ioVars, surfaces, uiFrame, secondaries,
                 frameFence, presentReady, gpuQueue>>

\* Window::resized after its surface was resized.
ResizedAfterCommitKept == resized
ResizedAfterCommit == [resized EXCEPT ![cur] = FALSE]

\* The rest of Resize: the old swapchain, views, targets and framebuffers
\* are destroyed.  A new window has none; it is inserted into Windows().
Commit ==
  /\ pc = "commit"
  /\ \/ /\ Release(IF cur \in open THEN {Surface(cur)} ELSE {})
        /\ retired' = [retired EXCEPT ![cur] = FALSE]
        /\ image' = [image EXCEPT ![cur] = IF @ = "none" THEN @ ELSE "stale"]
        /\ open' = IF site = "drain" THEN open \cup {cur} ELSE open
        /\ resized' = ResizedAfterCommit
        /\ Goto(CASE site = "drain" -> "drain"
                  [] site = "begin" -> "newFrame"
                  [] site = "end"   -> "reacquire")
        /\ UNCHANGED faultVars
     \/ /\ Fail(SiteFault)
        /\ Abandon
        /\ UNCHANGED <<retired, image, open, clobbered>>
  /\ UNCHANGED <<running, ioVars, imageAvailable, uiFrame, secondaries,
                 fences, presentReady, gpuQueue>>
-----------------------------------------------------------------------------
(* The rest of BeginFrame: wait for the previous frame, reset its fence,   *)
(* reset the command pool.  EndFrame returns at once when a Close event    *)
(* has cleared sRunning.                                                   *)
FrameDoneUnwaited == TRUE
FrameDone == frameFence

WaitFrameFence ==
  /\ pc = "waitFence"
  /\ \/ FrameDone /\ Goto("resetFence") /\ UNCHANGED faultVars
     \/ Fail("waitFence") /\ Goto("loop")
  /\ UNCHANGED <<running, open, ioVars, resized, surfaces, uiFrame,
                 secondaries, fences, presentReady, gpuQueue, clobbered>>

ResetFrameFence ==
  /\ pc = "resetFence"
  /\ \/ frameFence' = FALSE /\ Goto("resetPool") /\ UNCHANGED faultVars
     \/ Fail("resetFence") /\ Goto("loop") /\ UNCHANGED frameFence
  /\ UNCHANGED <<running, open, ioVars, resized, surfaces, uiFrame,
                 secondaries, oneTimeFence, presentReady, gpuQueue, clobbered>>

ResetPool ==
  /\ pc = "resetPool"
  /\ \/ /\ Release({Pool})
        /\ secondaries' = [i \in 1..Len(secondaries) |->
             IF secondaries[i] = "null" THEN "null" ELSE "initial"]
        /\ todo' = open
        /\ pc' = IF running THEN "acquire" ELSE "loop"
        /\ UNCHANGED <<site, cur, left, faultVars>>
     \/ /\ Fail("resetPool")
        /\ Goto("loop")
        /\ UNCHANGED <<clobbered, secondaries>>
  /\ UNCHANGED <<running, open, ioVars, resized, surfaces, uiFrame, fences,
                 presentReady, gpuQueue>>
-----------------------------------------------------------------------------
(* EndFrame.                                                               *)

\* An image of w's swapchain was acquired; the semaphore will be signaled.
Acquired(w) ==
  /\ image' = [image EXCEPT ![w] = "current"]
  /\ imageAvailable' = [imageAvailable EXCEPT ![w] = IF @ < 2 THEN @ + 1 ELSE 2]

NeedsResizeSuboptimalOnly(result) == result = "suboptimal"
NeedsResize(result) == result \in {"suboptimal", "outOfDate"}

\* A suboptimal or out-of-date swapchain is resized; an error is logged.
Acquire(w) ==
  /\ pc = "acquire"
  /\ w \in todo
  /\ \E result \in AcquireResults \cup {"error"} :
       /\ CASE result \in {"success", "suboptimal"} -> Acquired(w)
            [] OTHER -> UNCHANGED <<image, imageAvailable>>
       /\ CASE result = "error"      -> Fail("acquire")
            [] result = "suboptimal" -> /\ faulted' = faulted \cup {result}
                                        /\ UNCHANGED failures
            [] OTHER                 -> UNCHANGED faultVars
       /\ IF NeedsResize(result)
          THEN pc' = "resize" /\ cur' = w /\ site' = "end" /\ UNCHANGED todo
          ELSE todo' = todo \ {w} /\ UNCHANGED <<pc, cur, site>>
  /\ UNCHANGED <<left, running, open, ioVars, resized, retired, uiFrame,
                 secondaries, fences, presentReady, gpuQueue, clobbered>>

\* The second vkAcquireNextImageKHR: always fails on a retired swapchain, and
\* its failure is only logged.
Reacquire ==
  /\ pc = "reacquire"
  /\ \/ ~retired[cur] /\ Acquired(cur) /\ UNCHANGED faultVars
     \/ retired[cur] /\ UNCHANGED <<image, imageAvailable, faultVars>>
     \/ Fail("reacquire") /\ UNCHANGED <<image, imageAvailable>>
  /\ todo' = todo \ {cur}
  /\ pc' = "acquire"
  /\ UNCHANGED <<site, cur, left, running, open, ioVars, resized, retired,
                 uiFrame, secondaries, fences, presentReady, gpuQueue,
                 clobbered>>

TooFewSecondaries == Len(secondaries) < Cardinality(open)

\* sSecondaryCommandBuffers, re-allocated with handles that are h when there
\* are fewer than windows.
Reallocated(h) == IF TooFewSecondaries
                  THEN [i \in 1..Cardinality(open) |-> h] ELSE secondaries

\* One buffer per window is recorded; for those in failed it fails, which is
\* only logged.
RecordedWhenAllocated(buffers, failed) ==
  [i \in 1..Len(buffers) |->
     IF ~TooFewSecondaries \/ buffers[i] = "null" THEN buffers[i]
     ELSE IF i \in failed THEN "invalid" ELSE "recorded"]
Recorded(buffers, failed) ==
  [i \in 1..Len(buffers) |->
     IF i > Cardinality(open) \/ buffers[i] = "null" THEN buffers[i]
     ELSE IF i \in failed THEN "invalid" ELSE "recorded"]

\* A failed allocation is only logged, too: the vector has its new size, and
\* its handles stay null until there are more windows than handles again.
Record ==
  /\ pc = "acquire"
  /\ todo = {}
  /\ \/ /\ secondaries' = Recorded(Reallocated("initial"), {})
        /\ UNCHANGED faultVars
     \/ /\ Fail("record")
        /\ \E failed \in (SUBSET (1..Cardinality(open))) \ {{}} :
             secondaries' = Recorded(Reallocated("initial"), failed)
     \/ /\ TooFewSecondaries
        /\ Fail("allocate")
        /\ secondaries' = Reallocated("null")
  /\ IF \A i \in 1..Len(secondaries') : secondaries'[i] = "recorded"
     THEN pc' = "primary" ELSE GoOnOrCrash("primary")
  /\ Release({Secondaries})
  /\ UNCHANGED <<todo, site, cur, left, running, open, ioVars, resized,
                 surfaces, uiFrame, fences, presentReady, gpuQueue>>

\* The lights are written to sLightBuffer and the primary command buffer is
\* begun; an error of either is only logged, and the pointer written through.
BeginPrimary ==
  /\ pc = "primary"
  /\ Release({Uniforms})
  /\ \/ pc' = "passes" /\ UNCHANGED faultVars
     \/ (Fail("mapUniforms") \/ Fail("record")) /\ GoOnOrCrash("passes")
  /\ todo' = open
  /\ UNCHANGED <<site, cur, left, running, open, ioVars, resized, surfaces,
                 uiFrame, secondaries, fences, presentReady, gpuQueue>>

\* The render pass of window w: its matrices overwrite sMatrixBuffer, again
\* also when it could not be mapped, and all the secondaries are executed.
Pass(w) ==
  /\ pc = "passes"
  /\ w \in todo
  /\ Release({Uniforms})
  /\ cur' = w
  /\ \/ /\ \A i \in 1..Len(secondaries) : secondaries[i] = "recorded"
        /\ pc' = "endWindow"
        /\ UNCHANGED faultVars
     \/ /\ \E i \in 1..Len(secondaries) : secondaries[i] # "recorded"
        /\ GoOnOrCrash("endWindow")
        /\ UNCHANGED faultVars
     \/ Fail("mapUniforms") /\ GoOnOrCrash("endWindow")
  /\ UNCHANGED <<site, left, todo, running, open, ioVars, resized, surfaces,
                 uiFrame, secondaries, fences, presentReady, gpuQueue>>

\* Window::EndFrame ends the UI frame, whatever became of the image.
UiFrameEndedIfAcquired(w) ==
  IF image[w] = "current" THEN [uiFrame EXCEPT ![w] = FALSE] ELSE uiFrame
UiFrameEnded(w) == [uiFrame EXCEPT ![w] = FALSE]

\* Window::EndFrame replaces the UI buffers that are too small, maps them and
\* records the UI; its error, which may come after a buffer was replaced, is
\* only logged.
EndWindow ==
  /\ pc = "endWindow"
  /\ \E grow \in BOOLEAN : Release(IF grow THEN {UIBuffers(cur)} ELSE {})
  /\ uiFrame' = UiFrameEnded(cur)
  /\ todo' = todo \ {cur}
  /\ pc' = "passes"
  /\ Fail("endWindow") \/ UNCHANGED faultVars
  /\ UNCHANGED <<site, cur, left, running, open, ioVars, resized, surfaces,
                 secondaries, fences, presentReady, gpuQueue>>

PassesDone ==
  /\ pc = "passes"
  /\ todo = {}
  /\ \/ pc' = "submit" /\ UNCHANGED faultVars
     \/ Fail("record") /\ GoOnOrCrash("submit")
  /\ UNCHANGED <<site, cur, left, todo, running, open, ioVars, resized,
                 surfaces, uiFrame, secondaries, fences, presentReady,
                 gpuQueue, clobbered>>

Frame == [kind |-> "frame",
          uses |-> {Surface(w) : w \in open} \cup {UIBuffers(w) : w \in open}
                     \cup {Pool, Secondaries, Uniforms},
          blocked |-> {w \in open : imageAvailable[w] = 0}]

\* The submission waits on every window's imageAvailable, acquired or not.
ConsumedNone == imageAvailable
Consumed == [w \in Windows |->
  IF w \in open /\ imageAvailable[w] > 0
  THEN imageAvailable[w] - 1 ELSE imageAvailable[w]]

Submit ==
  /\ pc = "submit"
  /\ Goto("present")
  /\ \/ /\ gpuQueue' = Append(gpuQueue, Frame)
        /\ imageAvailable' = Consumed
        /\ presentReady' = TRUE
        /\ UNCHANGED faultVars
     \/ Fail("submit") /\ UNCHANGED <<gpuQueue, imageAvailable, presentReady>>
  /\ UNCHANGED <<running, open, ioVars, resized, retired, image, uiFrame,
                 secondaries, fences, clobbered>>

\* Errors are logged; those other than out-of-date leave the semaphore alone.
Present ==
  /\ pc = "present"
  /\ Goto("loop")
  /\ \/ presentReady' = FALSE /\ UNCHANGED faultVars
     \/ Fail("present") /\ UNCHANGED presentReady
  /\ UNCHANGED <<running, open, ioVars, resized, surfaces, uiFrame,
                 secondaries, fences, gpuQueue, clobbered>>

\* The two waits of Shutdown, for the queue and for the device: their
\* results are ignored.
Idle == gpuQueue = <<>>

WaitQueueIdle ==
  /\ pc = "shutdown"
  /\ \/ Idle /\ UNCHANGED faultVars
     \/ Fail("waitQueue")
  /\ Goto("waitDevice")
  /\ UNCHANGED <<running, open, ioVars, resized, surfaces, uiFrame,
                 secondaries, fences, presentReady, gpuQueue, clobbered>>

\* ... and then Meshes(), Windows() and all else is destroyed.
Shutdown ==
  /\ pc = "waitDevice"
  /\ \/ Idle /\ UNCHANGED faultVars
     \/ Fail("waitDevice")
  /\ Release(Resources)
  /\ open' = {}
  /\ todo' = {}
  /\ pc' = "done"
  /\ UNCHANGED <<site, cur, left, running, ioVars, resized, surfaces, uiFrame,
                 secondaries, fences, presentReady, gpuQueue>>

Finished == pc \in {"done", "crashed"} /\ UNCHANGED vars
-----------------------------------------------------------------------------
BeginFrame ==
  \/ LoopTop \/ RunContinuation \/ DrainDone
  \/ \E w \in Windows : PollWindow(w)
  \/ NewFrame \/ WindowsDone
  \/ WaitFrameFence \/ ResetFrameFence \/ ResetPool

ResizeSurface == ResizeStart \/ OneTimeSubmit \/ OneTimeWait \/ Commit

EndFrame ==
  \/ \E w \in Windows : Acquire(w)
  \/ Reacquire \/ Record \/ BeginPrimary
  \/ \E w \in Windows : Pass(w)
  \/ EndWindow \/ PassesDone \/ Submit \/ Present

MainThread == BeginFrame \/ ResizeSurface \/ EndFrame
                \/ WaitQueueIdle \/ Shutdown

Next == MainThread \/ GpuFinish \/ (\E l \in Loads : FinishLoad(l)) \/ Finished

Spec == Init /\ [][Next]_vars

\* The operating system keeps scheduling the main thread and the workers,
\* and the GPU finishes what it can start.
Fairness ==
  /\ WF_vars(MainThread)
  /\ WF_vars(GpuFinish)
  /\ \A l \in Loads : WF_vars(FinishLoad(l))

FairSpec == Spec /\ Fairness
-----------------------------------------------------------------------------
(***************************************************************************)
(* Properties                                                              *)
(***************************************************************************)
After(mishaps) == faulted \cap mishaps # {}

\* EndFrame has gone over the images and records the frame.
Drawing == pc \in {"primary", "passes", "endWindow", "submit"}

\* Nothing is destroyed, freed, reset or rewritten while a submission uses
\* it: not the surface Resize replaces before BeginFrame has waited for the
\* previous frame, not the pool, the UI buffers or the uniforms, and not what
\* Shutdown destroys while the last frame is being drawn: either of its two
\* waits is enough, and both may fail unnoticed.  Losing the fence of a
\* one-time submission is the only other way out.
NothingClobbered ==
  \/ clobbered = {}
  \/ After({"oneTimeWait", "oneTimeReset"})
  \/ {"waitQueue", "waitDevice"} \subseteq faulted

\* sFrameComplete tells the truth: it is unsignaled while a frame is queued,
\* so there is never a second one.
FrameFenceTruthful ==
  /\ frameFence => ~InQueue("frame")
  /\ \A i, j \in 1..Len(gpuQueue) :
       gpuQueue[i].kind = "frame" /\ gpuQueue[j].kind = "frame" => i = j

\* The frame in the queue can never start, or BeginFrame waits for a fence
\* that no submission will signal.
Stuck ==
  \/ \E i \in 1..Len(gpuQueue) : gpuQueue[i].blocked # {}
  \/ pc = "waitFence" /\ ~frameFence /\ ~InQueue("frame")

\* The loop hangs only after one of the failures EndFrame and BeginFrame log
\* and go on from; a failed continuation, a resize that fails in BeginFrame,
\* a failed fence wait or reset, a command buffer that is not allocated or
\* recorded, a window whose UI is not drawn and a failed present are survived
\* as far as the fence goes.
HangsOnlyAfterUnrecovered ==
  Stuck => After({"resetPool", "submit", "acquire", "reacquire",
                  "resizeInEnd", "oneTimeWait", "oneTimeReset"})

\* Every framebuffer recorded and every image presented is indexed by a
\* currentImageIndex acquired from the window's present swapchain, unless
\* acquiring failed.
RecordsAcquiredImages ==
  Drawing /\ ~After({"acquire", "reacquire", "resizeInEnd", "oneTimeWait",
                     "oneTimeReset"})
    => \A w \in open : image[w] = "current"

\* A binary semaphore is waited on between two signals: an image is acquired
\* only when imageAvailable is unsignaled and a frame is submitted only when
\* sImagesReadyForPresent is.  A suboptimal acquire breaks the first, a
\* present that fails the second.
SemaphoresBalanced ==
  /\ ~After({"suboptimal"}) =>
       /\ pc = "acquire" => \A w \in todo : imageAvailable[w] = 0
       /\ pc = "reacquire" => imageAvailable[cur] = 0
  /\ pc = "submit" /\ ~After({"present"}) => ~presentReady

\* EndFrame never acquires from a swapchain that a failed Resize has retired:
\* BeginFrame keeps resized set and tries again until Resize succeeds.
AcquiresLiveSwapchain ==
  pc = "acquire" /\ ~After({"resizeInEnd", "oneTimeWait", "oneTimeReset"})
    => \A w \in todo : ~retired[w]

\* A window starts a UI frame only after ending its last one, unless
\* BeginFrame gave up half-way (another window's Resize, the fence).
UiFramesPaired ==
  pc = "newFrame" /\ uiFrame[cur]
    => After({"resize", "waitFence", "resetFence", "resetPool", "oneTimeWait",
              "oneTimeReset"})

\* Every secondary command buffer a frame executes was recorded after the
\* pool was last reset, and one for each window, whichever frame they were
\* allocated in and however many windows were opened since.  Only a failed
\* allocation leaves null handles, and only a failed recording others.
SecondariesRecorded ==
  Drawing =>
    /\ Len(secondaries) = Cardinality(open)
    /\ \A i \in 1..Len(secondaries) :
         \/ secondaries[i] = "recorded"
         \/ secondaries[i] = "invalid" /\ After({"record"})
         \/ secondaries[i] = "null" /\ After({"allocate"})

\* "waiting on all acquired image semaphores" (EndFrame): the submission
\* waits only on semaphores that an acquire will signal.
WaitsOnAcquiredSemaphores ==
  pc = "submit" => \A w \in open : imageAvailable[w] > 0

\* A window's Close event makes the application shut down.
CloseLeadsToShutdown == ~running ~> pc = "done"

\* Every file's continuation is run, window or no window, unless the
\* application shuts down first.
ContinuationsRun ==
  \A l \in Loads : (\E i \in 1..Len(ioContinuations) : ioContinuations[i] = l)
     ~> (\A i \in 1..Len(ioContinuations) : ioContinuations[i] # l) \/ pc = "done"

\* A window that was resized gets a surface of its new size, also when
\* Resize fails at first, unless the application shuts down.
ResizesHandled == \A w \in Windows : resized[w] ~> ~resized[w] \/ pc = "done"
-----------------------------------------------------------------------------
(* The abstract specification this module implements.                      *)
Recording ==
  \/ pc \in {"resetFence", "resetPool", "acquire", "reacquire", "primary",
             "passes", "endWindow", "submit", "crashed"}
  \/ site = "end" /\ pc \in {"resize", "oneTime", "oneTimeWait", "commit"}

Ownership == INSTANCE FrameOwnership WITH
  owner <- IF InQueue("frame") THEN "gpu" ELSE "cpu",
  phase <- IF Recording THEN "recording" ELSE "idle"

\* The per-frame resources change hands only as FrameOwnership allows.
RefinesOwnership == Ownership!Spec

\* ... and the GPU gives them back, under every failure the loop survives.
RefinesFairOwnership == Ownership!FairSpec
=============================================================================
