------------------------ MODULE FrameLoopFaultsProofs ------------------------
(***************************************************************************)
(* Proofs about FrameLoop, for any number of windows, scenes and failures: *)
(* what each failure may cost the windows of a frame, and what it may not. *)
(***************************************************************************)
EXTENDS FrameLoopProofs

\* The main thread resizes a surface, or uploads what a continuation needs.
Working == pc \in {"resize", "oneTime", "oneTimeWait", "commit"}
WorkingFor(s) == Working /\ site = s

\* EndFrame acquires the images of the windows.
Acquiring == pc \in {"acquire", "reacquire"} \/ WorkingFor("end")

\* Only a window that the loop over Windows() has not finished is worked on.
PlaceInv ==
  /\ pc = "resize" => site # "drain"
  /\ \/ WorkingFor("begin") \/ WorkingFor("end")
     \/ pc \in {"newFrame", "reacquire", "endWindow"}
     => cur \in todo

LostInEnd == {"resizeInEnd", "oneTimeWait", "oneTimeReset"}

\* A retired swapchain is that of a window that is resized again: at once, or
\* by BeginFrame, which does not let a frame begin before.
LiveInv ==
  \/ After(LostInEnd)
  \/ /\ \A w \in open : retired[w] => resized[w] \/ (w = cur /\ WorkingFor("end"))
     /\ WorkingFor("begin") => resized[cur]
     /\ pc \in {"windows", "newFrame"} \/ WorkingFor("begin") =>
          \A w \in open \ todo : ~retired[w]
     /\ pc = "newFrame" => ~retired[cur]
     /\ WorkingFor("end") => \A w \in open \ {cur} : ~retired[w]
     /\ \/ pc \in {"waitFence", "resetFence", "resetPool", "acquire", "reacquire",
                   "present"}
        \/ Drawing
        => \A w \in open : ~retired[w]

LostImage == {"acquire", "reacquire"} \cup LostInEnd

\* The windows that are done with have an image, and a signal on its way.
HasImage(w) == image[w] = "current" /\ imageAvailable[w] > 0
ImageInv ==
  \/ After(LostImage)
  \/ /\ Acquiring => \A w \in open \ todo : HasImage(w)
     /\ Drawing => \A w \in open : HasImage(w)

\* The fence is signaled, or a frame will signal it, or it is too late.
HangInv ==
  \/ After({"resetPool", "submit"} \cup LostImage)
  \/ /\ \A i \in 1..Len(gpuQueue) : gpuQueue[i].blocked = {}
     /\ pc = "resetFence" => frameFence
     /\ ~Recording /\ ~frameFence /\ ~InQueue("frame") =>
          ~running /\ pc \in {"loop", "shutdown", "waitDevice", "done"}

\* A window has a signal only from the acquire to the submission.
Unsignaled(w) == imageAvailable[w] = 0
SignaledIn(S) ==
  \A w \in Windows : Unsignaled(w) \/ (w \in S /\ imageAvailable[w] = 1)
SemaphoreInv ==
  \/ After({"suboptimal"})
  \/ /\ \/ pc \in {"resetFence", "resetPool"}
        \/ ~Recording /\ (frameFence \/ InQueue("frame"))
        => SignaledIn({})
     /\ Acquiring => SignaledIn(open \ todo)
     /\ Drawing => SignaledIn(open)
PresentInv == presentReady => pc = "present" \/ After({"present"})

GivenUp == {"resize", "waitFence", "resetFence", "resetPool", "oneTimeWait",
            "oneTimeReset"}

\* A UI frame lasts from BeginFrame's loop over Windows() to EndFrame's.
UiIn(S) == \A w \in Windows \ S : ~uiFrame[w]
UiInv ==
  \/ After(GivenUp)
  \/ /\ pc # "done" => UiIn(open)
     /\ pc = "loop" /\ running => UiIn({})
     /\ pc = "drain" \/ WorkingFor("drain") => UiIn({})
     /\ pc \in {"windows", "newFrame"} \/ WorkingFor("begin") => UiIn(open \ todo)
     /\ pc \in {"passes", "endWindow"} => UiIn(todo)
     /\ pc \in {"submit", "present"} => UiIn({})

\* There are never more secondaries than windows, so that a frame that has
\* recorded one per window has recorded them all.
SecondaryInv ==
  /\ pc # "done" => Len(secondaries) <= Cardinality(open)
  /\ \A i \in 1..Len(secondaries) :
       /\ secondaries[i] = "null" => After({"allocate"})
       /\ secondaries[i] = "invalid" => After({"record"})
  /\ Drawing => /\ Len(secondaries) = Cardinality(open)
                /\ \A i \in 1..Len(secondaries) : secondaries[i] # "initial"
-----------------------------------------------------------------------------
\* What has not failed after a step had not before, and does not in the step.
LEMMA NotAfter ==
  ASSUME [Next]_vars, NEW S, ~After(S)'
  PROVE  ~After(S) /\ \A f \in S : ~Fail(f)
<1>1. faulted \subseteq faulted' /\ faulted' \cap S = {}
      BY FaultedGrows DEF After
<1>2. QED
      BY <1>1 DEF After, Fail

LEMMA PlaceStep == TypeInv /\ PlaceInv /\ [Next]_vars => PlaceInv'
<1> SUFFICES ASSUME TypeInv, PlaceInv, [Next]_vars PROVE PlaceInv'
    OBVIOUS
<1>0. site \in {"drain", "begin", "end"}
      BY DEF TypeInv, TypeOK, ControlTypes
<1> USE DEF PlaceInv, Working, WorkingFor
<1>1. ASSUME NEW w \in Windows, PollWindow(w) \/ Acquire(w) \/ Pass(w)
      PROVE  PlaceInv'
      BY <1>1 DEF PollWindow, Acquire, NeedsResize, Pass, GoOnOrCrash
<1>2. CASE LoopTop \/ DrainDone \/ WindowsDone \/ WaitQueueIdle \/ Shutdown
    \/ RunContinuation
      BY <1>2 DEF LoopTop, AfterLoopTop, DrainDone, WindowsDone,
      WaitQueueIdle, Shutdown,
                  RunContinuation, Goto, control
<1>3. CASE NewFrame \/ Reacquire
      BY <1>3 DEF NewFrame, Reacquire
<1>4. CASE ResizeStart \/ OneTimeSubmit
      BY <1>0, <1>4 DEF ResizeStart, OneTimeSubmit, Abandon, Goto
<1>5. CASE OneTimeWait \/ Commit
      BY <1>0, <1>5 DEF OneTimeWait, Commit, Abandon, Goto
<1>6. CASE WaitFrameFence \/ ResetFrameFence \/ ResetPool
      BY <1>6 DEF WaitFrameFence, ResetFrameFence, ResetPool, Goto
<1>7. CASE Record \/ BeginPrimary \/ EndWindow \/ PassesDone \/ Submit
    \/ Present
      BY <1>7 DEF Record, BeginPrimary, EndWindow, PassesDone, Submit,
      Present, Goto, GoOnOrCrash
<1>8. CASE UNCHANGED control
      BY <1>8 DEF control
<1>9. QED
      BY <1>1, <1>2, <1>3, <1>4, <1>5, <1>6, <1>7, <1>8, NextSteps
      DEF vars, FinishLoad, GpuFinish

\* The handles after a reallocation and a recording.
LEMMA RecordedAre ==
  ASSUME TypeInv, Len(secondaries) <= Cardinality(open), NEW failed,
         NEW buffers, buffers = Recorded(Reallocated("initial"), failed)
  PROVE  /\ Len(buffers) = Cardinality(open)
         /\ \A i \in 1..Len(buffers) :
              \/ buffers[i] = "recorded"
              \/ buffers[i] = "invalid" /\ i \in failed
              \/ /\ buffers[i] = "null"
                 /\ i \in 1..Len(secondaries) /\ secondaries[i] = "null"
<1>1. Cardinality(open) \in Nat /\ secondaries \in Seq(BufferStates)
      BY ReallocatedTypes DEF TypeInv, TypeOK, DeviceTypes, BufferStates
<1>2. CASE TooFewSecondaries
      BY <1>1, <1>2 DEF Recorded, Reallocated
<1>3. CASE ~TooFewSecondaries
  <2>1. Reallocated("initial") = secondaries /\ Len(secondaries) = Cardinality(open)
        BY <1>1, <1>3 DEF Reallocated, TooFewSecondaries
  <2>2. QED
        BY <1>1, <2>1 DEF Recorded
<1>4. QED
      BY <1>2, <1>3

LEMMA RecordStep ==
  ASSUME TypeInv, SecondaryInv, [Next]_vars, Record
  PROVE  SecondaryInv'
<1>0. /\ pc' \in {"primary", "crashed"} /\ pc = "acquire" /\ UNCHANGED open
      /\ Len(secondaries) <= Cardinality(open)
      BY DEF Record, GoOnOrCrash, SecondaryInv
<1>1. CASE secondaries' = Recorded(Reallocated("initial"), {})
  <2>1. /\ Len(secondaries') = Cardinality(open)
        /\ \A i \in 1..Len(secondaries') :
             \/ secondaries'[i] = "recorded"
             \/ /\ secondaries'[i] = "null"
                /\ i \in 1..Len(secondaries) /\ secondaries[i] = "null"
        BY <1>0, <1>1, RecordedAre
  <2>2. QED
        BY <1>0, <2>1, FaultedGrows DEF SecondaryInv, After, Drawing
<1>2. CASE Fail("record") /\ \E failed :
             secondaries' = Recorded(Reallocated("initial"), failed)
  <2>1. /\ Len(secondaries') = Cardinality(open)
        /\ \A i \in 1..Len(secondaries') :
             \/ secondaries'[i] \in {"recorded", "invalid"}
             \/ /\ secondaries'[i] = "null"
                /\ i \in 1..Len(secondaries) /\ secondaries[i] = "null"
        BY <1>0, <1>2, RecordedAre
  <2>2. After({"record"})'
        BY <1>2 DEF Fail, After
  <2>3. QED
        BY <1>0, <2>1, <2>2, FaultedGrows DEF SecondaryInv, After, Drawing
<1>3. CASE /\ TooFewSecondaries
           /\ Fail("allocate")
           /\ secondaries' = Reallocated("null")
  <2>1. /\ Len(secondaries') = Cardinality(open)
        /\ \A i \in 1..Len(secondaries') : secondaries'[i] = "null"
    <3>1. Cardinality(open) \in Nat
          BY ReallocatedTypes DEF BufferStates
    <3>2. secondaries' = [i \in 1..Cardinality(open) |-> "null"]
          BY <1>3 DEF Reallocated
    <3>3. QED
          BY <3>1, <3>2
  <2>2. After({"allocate"})'
        BY <1>3 DEF Fail, After
  <2>3. QED
        BY <1>0, <2>1, <2>2 DEF SecondaryInv, Drawing
<1>4. QED
      BY <1>1, <1>2, <1>3 DEF Record

LEMMA SecondaryStep ==
  ASSUME TypeInv, SecondaryInv, [Next]_vars
  PROVE  SecondaryInv'
<1>0. secondaries \in Seq(BufferStates)
      BY DEF TypeInv, TypeOK, DeviceTypes
<1>1. CASE UNCHANGED <<open, secondaries>> /\ (Drawing' => Drawing)
           /\ (pc' # "done" => pc # "done")
      BY <1>1, FaultedGrows DEF SecondaryInv, After
<1>2. ASSUME NEW w \in Windows, PollWindow(w) \/ Acquire(w) \/ Pass(w)
      PROVE  SecondaryInv'
      BY <1>1, <1>2 DEF PollWindow, Acquire, Pass, GoOnOrCrash, Drawing
<1>3. CASE LoopTop \/ DrainDone \/ WindowsDone \/ WaitQueueIdle
           \/ RunContinuation \/ NewFrame \/ Reacquire \/ WaitFrameFence
           \/ ResetFrameFence
      BY <1>1, <1>3
      DEF LoopTop, AfterLoopTop, DrainDone, WindowsDone, WaitQueueIdle,
          RunContinuation, NewFrame, Reacquire, WaitFrameFence,
          ResetFrameFence,
          Goto, control, Drawing
<1>4. CASE BeginPrimary \/ EndWindow \/ PassesDone \/ Submit \/ Present
      BY <1>1, <1>4
      DEF BeginPrimary, EndWindow, PassesDone, Submit, Present, Goto,
      GoOnOrCrash,
          Drawing
<1>5. CASE ResizeStart \/ OneTimeSubmit \/ OneTimeWait
      BY <1>1, <1>5
      DEF ResizeStart, OneTimeSubmit, OneTimeWait, Abandon, Goto, TypeInv,
      TypeOK,
          ControlTypes, Drawing
<1>6. CASE Commit
  <2>1. /\ pc = "commit" /\ ~Drawing' /\ UNCHANGED secondaries
        /\ open \subseteq open'
        BY <1>6 DEF Commit, Abandon, Goto, TypeInv, TypeOK, ControlTypes,
        Drawing
  <2>2. IsFiniteSet(open')
        BY TypeStep, FrameLoopAssumption, FS_Subset
        DEF TypeInv, TypeOK, ControlTypes
  <2>3. /\ Cardinality(open) \in Nat /\ Cardinality(open') \in Nat
        /\ Cardinality(open) <= Cardinality(open')
        BY <2>1, <2>2, FS_Subset, FS_CardinalityType
  <2>4. Len(secondaries') <= Cardinality(open')
        BY <1>0, <2>1, <2>3, LenProperties DEF SecondaryInv
  <2>5. QED
        BY <2>1, <2>4, FaultedGrows DEF SecondaryInv, After
<1>7. CASE ResetPool
  <2>1. ~Drawing' /\ pc = "resetPool" /\ UNCHANGED open
        BY <1>7 DEF ResetPool, Goto, Drawing
  <2>2. CASE UNCHANGED secondaries
        BY <2>1, <2>2, FaultedGrows DEF SecondaryInv, After
  <2>3. CASE secondaries' = [i \in 1..Len(secondaries) |->
               IF secondaries[i] = "null" THEN "null" ELSE "initial"]
    <3>1. /\ Len(secondaries') = Len(secondaries)
          /\ \A i \in 1..Len(secondaries) :
               \/ secondaries'[i] = "initial"
               \/ secondaries'[i] = "null" /\ secondaries[i] = "null"
          BY <1>0, <2>3
    <3>2. QED
          BY <2>1, <3>1, FaultedGrows DEF SecondaryInv, After
  <2>4. QED
        BY <1>7, <2>2, <2>3 DEF ResetPool
<1>8. CASE Shutdown
  <2>1. ~Drawing' /\ pc' = "done" /\ UNCHANGED secondaries
        BY <1>8 DEF Shutdown, Drawing
  <2>2. QED
        BY <2>1, FaultedGrows DEF SecondaryInv, After
<1>9. CASE UNCHANGED <<control, open, secondaries>>
      BY <1>1, <1>9 DEF control, Drawing
<1>10. QED
       BY <1>2, <1>3, <1>4, <1>5, <1>6, <1>7, <1>8, <1>9, RecordStep, NextSteps
       DEF vars, FinishLoad, GpuFinish

\* What vkAcquireNextImageKHR may return, and what comes of it.
AcquireResizes(w) ==
  pc' = "resize" /\ cur' = w /\ site' = "end" /\ UNCHANGED todo
AcquireGoesOn(w) == todo' = todo \ {w} /\ UNCHANGED <<pc, cur, site>>

LEMMA AcquireCases ==
  ASSUME NEW w \in Windows, Acquire(w)
  PROVE  /\ pc = "acquire" /\ w \in todo
         /\ UNCHANGED <<open, resized, retired, uiFrame, running, frameFence,
                        gpuQueue, presentReady>>
         /\ \/ Acquired(w) /\ AcquireGoesOn(w)
            \/ /\ Acquired(w) /\ AcquireResizes(w)
               /\ faulted' = faulted \cup {"suboptimal"}
            \/ UNCHANGED <<image, imageAvailable>> /\ AcquireResizes(w)
            \/ /\ UNCHANGED <<image, imageAvailable>> /\ AcquireGoesOn(w)
               /\ Fail("acquire")
<1>1. PICK result \in AcquireResults \cup {"error"} :
        /\ CASE result \in {"success", "suboptimal"} -> Acquired(w)
             [] OTHER -> UNCHANGED <<image, imageAvailable>>
        /\ CASE result = "error"      -> Fail("acquire")
             [] result = "suboptimal" -> /\ faulted' = faulted \cup {result}
                                         /\ UNCHANGED failures
             [] OTHER                 -> UNCHANGED faultVars
        /\ IF NeedsResize(result)
           THEN pc' = "resize" /\ cur' = w /\ site' = "end" /\ UNCHANGED todo
           ELSE todo' = todo \ {w} /\ UNCHANGED <<pc, cur, site>>
      BY Zenon DEF Acquire
<1>2. result \in {"success", "suboptimal", "outOfDate", "error"}
      BY FrameLoopAssumption
<1>3. /\ pc = "acquire" /\ w \in todo
      /\ UNCHANGED <<open, resized, retired, uiFrame, running, frameFence,
                     gpuQueue, presentReady>>
      BY DEF Acquire, fences
<1>4. CASE result = "success"
  <2>1. Acquired(w)
        BY <1>1, <1>4
  <2>2. AcquireGoesOn(w)
        BY <1>1, <1>4 DEF NeedsResize, AcquireGoesOn
  <2>3. QED
        BY <1>3, <2>1, <2>2
<1>5. CASE result = "suboptimal"
  <2>1. Acquired(w) /\ faulted' = faulted \cup {"suboptimal"}
        BY <1>1, <1>5
  <2>2. AcquireResizes(w)
        BY <1>1, <1>5 DEF NeedsResize, AcquireResizes
  <2>3. QED
        BY <1>3, <2>1, <2>2
<1>6. CASE result = "outOfDate"
  <2>1. UNCHANGED <<image, imageAvailable>>
        BY <1>1, <1>6
  <2>2. AcquireResizes(w)
        BY <1>1, <1>6 DEF NeedsResize, AcquireResizes
  <2>3. QED
        BY <1>3, <2>1, <2>2
<1>7. CASE result = "error"
  <2>1. UNCHANGED <<image, imageAvailable>> /\ Fail("acquire")
        BY <1>1, <1>7
  <2>2. AcquireGoesOn(w)
        BY <1>1, <1>7 DEF NeedsResize, AcquireGoesOn
  <2>3. QED
        BY <1>3, <2>1, <2>2
<1>8. QED
      BY <1>2, <1>4, <1>5, <1>6, <1>7
-----------------------------------------------------------------------------
\* The swapchains.
LEMMA LiveStep == TypeInv /\ PlaceInv /\ LiveInv /\ [Next]_vars => LiveInv'
<1> SUFFICES ASSUME TypeInv, PlaceInv, LiveInv, [Next]_vars, ~After(LostInEnd)'
             PROVE  LiveInv'
    BY DEF LiveInv
<1>0. /\ ~After(LostInEnd)
      /\ ~Fail("resizeInEnd") /\ ~Fail("oneTimeWait") /\ ~Fail("oneTimeReset")
      BY NotAfter DEF LostInEnd
<1>00. /\ site \in {"drain", "begin", "end"} /\ todo \subseteq open
       /\ open \subseteq Windows
       /\ resized \in [Windows -> BOOLEAN] /\ retired \in [Windows -> BOOLEAN]
       BY DEF TypeInv, TypeOK, ControlTypes, WindowTypes
<1> USE <1>0, <1>00 DEF LiveInv, PlaceInv, Working, WorkingFor, Drawing
<1>1. ASSUME NEW w \in Windows, PollWindow(w)
      PROVE  LiveInv'
      BY <1>1 DEF PollWindow, surfaces
<1>2. ASSUME NEW w \in Windows, Acquire(w)
      PROVE  LiveInv'
      BY <1>2, AcquireCases DEF AcquireResizes, AcquireGoesOn
<1>3. ASSUME NEW w \in Windows, Pass(w)
      PROVE  LiveInv'
      BY <1>3 DEF Pass, GoOnOrCrash, surfaces
<1>4. CASE LoopTop \/ DrainDone \/ WindowsDone \/ WaitQueueIdle \/ Shutdown
    \/ RunContinuation
      BY <1>4 DEF LoopTop, AfterLoopTop, DrainDone, WindowsDone,
      WaitQueueIdle, Shutdown,
                  RunContinuation, Goto, control, surfaces
<1>5. CASE NewFrame \/ Reacquire
      BY <1>5 DEF NewFrame, Reacquire, surfaces
<1>6. CASE ResizeStart
      BY <1>6 DEF ResizeStart, Abandon, ResizedAfterError, Goto, SiteFault,
                  TypeInv, ControlInv
<1>7. CASE OneTimeSubmit
      BY <1>7 DEF OneTimeSubmit, Abandon, ResizedAfterError, Goto, SiteFault,
                  surfaces
<1>8. CASE OneTimeWait
      BY <1>8, FrameLoopAssumption DEF OneTimeWait, surfaces, TypeInv,
      ControlInv
<1>9. CASE Commit
      BY <1>9 DEF Commit, Abandon, ResizedAfterError, ResizedAfterCommit, Goto,
                  SiteFault, TypeInv, ControlInv
<1>10. CASE WaitFrameFence \/ ResetFrameFence \/ ResetPool
       BY <1>10 DEF WaitFrameFence, ResetFrameFence, ResetPool, Goto, surfaces
<1>11. CASE Record \/ BeginPrimary \/ EndWindow \/ PassesDone \/ Submit
    \/ Present
       BY <1>11 DEF Record, BeginPrimary, EndWindow, PassesDone, Submit,
       Present, Goto, GoOnOrCrash, surfaces
<1>12. CASE UNCHANGED <<control, open, resized, surfaces>>
       BY <1>12 DEF control, surfaces
<1>13. QED
       BY <1>1, <1>2, <1>3, <1>4, <1>5, <1>6, <1>7, <1>8, <1>9, <1>10, <1>11,
          <1>12, NextSteps
       DEF vars, FinishLoad, GpuFinish
-----------------------------------------------------------------------------
\* The images.
LEMMA AcquiredImage ==
  ASSUME WindowTypes, NEW w \in Windows, Acquired(w)
  PROVE  /\ HasImage(w)'
         /\ \A v \in Windows \ {w} : /\ image'[v] = image[v]
                                     /\ imageAvailable'[v] = imageAvailable[v]
         /\ imageAvailable[w] = 0 => imageAvailable'[w] = 1
BY DEF Acquired, HasImage, WindowTypes

LEMMA ImageStep ==
  ASSUME TypeInv, PlaceInv, LiveInv, ImageInv, [Next]_vars
  PROVE  ImageInv'
<1> SUFFICES ASSUME ~After(LostImage)' PROVE ImageInv'
    BY DEF ImageInv
<1>0. /\ ~After(LostImage) /\ ~After(LostInEnd)
      /\ ~Fail("resizeInEnd") /\ ~Fail("oneTimeWait") /\ ~Fail("oneTimeReset")
      /\ ~Fail("acquire") /\ ~Fail("reacquire")
  <2>1. ~After(LostImage) /\ \A f \in LostImage : ~Fail(f)
        BY NotAfter
  <2>2. QED
        BY <2>1 DEF LostImage, LostInEnd, After
<1>00. /\ site \in {"drain", "begin", "end"} /\ todo \subseteq open
       /\ open \subseteq Windows /\ WindowTypes
       BY DEF TypeInv, TypeOK, ControlTypes
<1>000. /\ Acquiring => \A w \in open \ todo : HasImage(w)
        /\ Drawing => \A w \in open : HasImage(w)
        BY <1>0 DEF ImageInv
<1> USE <1>0, <1>00, <1>000 DEF PlaceInv, Acquiring, Working, WorkingFor,
Drawing
<1>1. ASSUME NEW w \in Windows, PollWindow(w) \/ Pass(w)
      PROVE  ImageInv'
      BY <1>1 DEF PollWindow, Pass, GoOnOrCrash, surfaces, ImageInv, HasImage
<1>2. ASSUME NEW w \in Windows, Acquire(w)
      PROVE  ImageInv'
  <2>1. /\ pc = "acquire" /\ w \in todo /\ UNCHANGED open
        /\ AcquireResizes(w) \/ (AcquireGoesOn(w) /\ Acquired(w))
        /\ Acquired(w) \/ UNCHANGED <<image, imageAvailable>>
        BY <1>2, AcquireCases
  <2>2. \A v \in Windows \ {w} : HasImage(v) => HasImage(v)'
        BY <2>1, AcquiredImage DEF HasImage
  <2>3. CASE AcquireResizes(w)
        BY <2>1, <2>2, <2>3 DEF AcquireResizes, ImageInv
  <2>4. CASE AcquireGoesOn(w) /\ Acquired(w)
    <3>1. HasImage(w)'
          BY <2>4, AcquiredImage
    <3>2. QED
          BY <2>1, <2>2, <2>4, <3>1 DEF AcquireGoesOn, ImageInv
  <2>5. QED
        BY <2>1, <2>3, <2>4
<1>3. CASE LoopTop \/ DrainDone \/ WindowsDone \/ WaitQueueIdle \/ Shutdown
    \/ RunContinuation
           \/ NewFrame
      BY <1>3 DEF LoopTop, AfterLoopTop, DrainDone, WindowsDone,
      WaitQueueIdle, Shutdown,
                  RunContinuation, NewFrame, Goto, control, ImageInv
<1>4. CASE Reacquire
  <2>1. PICK w \in Windows : w = cur
        BY <1>4 DEF Reacquire, TypeInv, ControlInv
  <2>2. pc = "reacquire" /\ w \in todo /\ ~retired[w]
        BY <1>4, <2>1 DEF Reacquire, LiveInv
  <2>3. /\ Acquired(w) /\ todo' = todo \ {w} /\ pc' = "acquire"
        /\ UNCHANGED open
        BY <1>4, <2>1, <2>2 DEF Reacquire
  <2>4. HasImage(w)' /\ \A v \in Windows \ {w} : HasImage(v) => HasImage(v)'
        BY <2>3, AcquiredImage DEF HasImage
  <2>5. QED
        BY <2>2, <2>3, <2>4 DEF ImageInv
<1>5. CASE ResizeStart \/ OneTimeSubmit
      BY <1>5 DEF ResizeStart, OneTimeSubmit, Abandon, Goto, SiteFault,
      surfaces,
                  ImageInv, HasImage
<1>6. CASE OneTimeWait
      BY <1>6 DEF OneTimeWait, surfaces, ImageInv, HasImage
<1>7. CASE Commit
  <2>1. CASE site = "end"
    <3>1. /\ cur \in todo /\ pc' = "reacquire"
          /\ UNCHANGED <<todo, open, imageAvailable>>
          /\ image' = [image EXCEPT ![cur] = IF @ = "none" THEN @ ELSE "stale"]
          BY <1>7, <2>1 DEF Commit, Goto, SiteFault
    <3>2. \A w \in Windows \ {cur} : HasImage(w) => HasImage(w)'
          BY <3>1 DEF HasImage, WindowTypes
    <3>3. QED
          BY <1>7, <2>1, <3>1, <3>2 DEF Commit, ImageInv
  <2>2. CASE site # "end"
    <3>1. pc' \in {"drain", "newFrame", "loop"}
          BY <1>7, <2>2 DEF Commit, Abandon, Goto
    <3>2. QED
          BY <3>1 DEF ImageInv
  <2>3. QED
        BY <2>1, <2>2
<1>8. CASE WaitFrameFence \/ ResetFrameFence \/ ResetPool
      BY <1>8 DEF WaitFrameFence, ResetFrameFence, ResetPool, Goto, surfaces,
                  ImageInv
<1>9. CASE Record \/ BeginPrimary \/ EndWindow \/ PassesDone \/ Submit
    \/ Present
      BY <1>9 DEF Record, BeginPrimary, EndWindow, PassesDone, Submit,
      Present, Goto, GoOnOrCrash, surfaces, ImageInv,
                  HasImage
<1>10. CASE UNCHANGED <<control, open, surfaces>>
       BY <1>10 DEF control, surfaces, ImageInv, HasImage
<1>11. QED
       BY <1>1, <1>2, <1>3, <1>4, <1>5, <1>6, <1>7, <1>8, <1>9, <1>10,
       NextSteps
       DEF vars, FinishLoad, GpuFinish
-----------------------------------------------------------------------------
\* The queue and the fence.
Blocking == \E i \in 1..Len(gpuQueue) : gpuQueue[i].blocked # {}

LEMMA Appended ==
  ASSUME gpuQueue \in Seq(Submission), NEW s \in Submission,
         gpuQueue' = Append(gpuQueue, s)
  PROVE  /\ s.blocked = {} /\ ~Blocking => ~Blocking'
         /\ InQueue("frame") => InQueue("frame")'
         /\ s.kind = "frame" => InQueue("frame")'
<1>1. /\ Len(gpuQueue) \in Nat /\ Len(gpuQueue') = Len(gpuQueue) + 1
      /\ \A i \in 1..Len(gpuQueue) : gpuQueue'[i] = gpuQueue[i]
      /\ gpuQueue'[Len(gpuQueue) + 1] = s
      BY AppendProperties, LenProperties
<1>2. \A i \in 1..Len(gpuQueue') : i \in 1..Len(gpuQueue) \/ i = Len(gpuQueue) + 1
      BY <1>1
<1>3. 1..Len(gpuQueue) \subseteq 1..Len(gpuQueue')
      BY <1>1
<1>4. Len(gpuQueue) + 1 \in 1..Len(gpuQueue')
      BY <1>1
<1>5. QED
      BY <1>1, <1>2, <1>3, <1>4 DEF Blocking, InQueue

LEMMA Finishes ==
  ASSUME gpuQueue \in Seq(Submission), GpuFinish
  PROVE  /\ ~Blocking => ~Blocking'
         /\ InQueue("frame") => InQueue("frame")' \/ frameFence'
<1>1. /\ Len(gpuQueue) \in Nat /\ Len(gpuQueue') = Len(gpuQueue) - 1
      /\ \A i \in 1..Len(gpuQueue') : /\ i + 1 \in 1..Len(gpuQueue)
                                      /\ gpuQueue'[i] = gpuQueue[i + 1]
      /\ Head(gpuQueue) = gpuQueue[1]
      BY DEF GpuFinish
<1>2. ASSUME NEW i \in 1..Len(gpuQueue), gpuQueue[i].kind = "frame"
      PROVE  InQueue("frame")' \/ frameFence'
  <2>1. CASE i = 1
        BY <1>1, <1>2, <2>1 DEF GpuFinish
  <2>2. CASE i # 1
    <3>1. i - 1 \in 1..Len(gpuQueue') /\ (i - 1) + 1 = i
          BY <1>1, <2>2
    <3>2. gpuQueue'[i - 1] = gpuQueue[i]
          BY <1>1, <3>1
    <3>3. QED
          BY <1>2, <3>1, <3>2 DEF InQueue
  <2>3. QED
        BY <2>1, <2>2
<1>3. QED
      BY <1>1, <1>2 DEF Blocking, InQueue

LEMMA HangStep ==
  ASSUME TypeInv, PlaceInv, ImageInv, HangInv, [Next]_vars
  PROVE  HangInv'
<1> DEFINE Lost == {"resetPool", "submit"} \cup LostImage
<1> SUFFICES ASSUME ~After(Lost)' PROVE HangInv'
    BY DEF HangInv
<1>0. /\ ~After(Lost) /\ ~After(LostImage)
      /\ ~Fail("resetPool") /\ ~Fail("submit")
  <2>1. ~After(Lost) /\ \A f \in Lost : ~Fail(f)
        BY NotAfter
  <2>2. QED
        BY <2>1 DEF After
<1>00. /\ site \in {"drain", "begin", "end"} /\ gpuQueue \in Seq(Submission)
       /\ open \subseteq Windows /\ running \in BOOLEAN /\ frameFence \in BOOLEAN
       BY DEF TypeInv, TypeOK, ControlTypes, DeviceTypes
<1>000. /\ ~Blocking
        /\ pc = "resetFence" => frameFence
        /\ ~Recording /\ ~frameFence /\ ~InQueue("frame") =>
             ~running /\ pc \in {"loop", "shutdown", "waitDevice", "done"}
        BY <1>0 DEF HangInv, Blocking
<1>0000. ASSUME /\ ~Blocking'
                /\ pc' = "resetFence" => frameFence'
                /\ ~Recording' /\ ~frameFence' /\ ~InQueue("frame")' =>
                     ~running' /\ pc' \in {"loop", "shutdown", "waitDevice", "done"}
         PROVE  HangInv'
  BY <1>0000 DEF HangInv, Blocking
<1> HIDE DEF Lost
<1> USE <1>0, <1>00, <1>000
<1>1. CASE UNCHANGED <<gpuQueue, frameFence>>
  <2>1. ~Blocking' /\ (InQueue("frame")' <=> InQueue("frame"))
        BY <1>1 DEF Blocking, InQueue
  <2>2. ASSUME NEW w \in Windows, PollWindow(w) \/ Acquire(w) \/ Pass(w)
        PROVE  HangInv'
        BY <1>1, <1>0000, <2>1, <2>2
        DEF PollWindow, Acquire, Pass, GoOnOrCrash, Recording
  <2>3. CASE LoopTop \/ DrainDone \/ WindowsDone \/ WaitQueueIdle
      \/ Shutdown \/ RunContinuation
             \/ NewFrame \/ Reacquire
        BY <1>1, <1>0000, <2>1, <2>3
        DEF LoopTop, AfterLoopTop, DrainDone, WindowsDone, WaitQueueIdle,
        Shutdown, Goto,
            RunContinuation, NewFrame, Reacquire, control, Recording
  <2>4. CASE ResizeStart \/ OneTimeSubmit
        BY <1>1, <1>0000, <2>1, <2>4
        DEF ResizeStart, OneTimeSubmit, Abandon, Goto, SiteFault, Recording,
            PlaceInv
  <2>5. CASE OneTimeWait
    <3>1. pc' \in {"oneTime", "drain", "commit", "loop", "reacquire"}
          BY <2>5 DEF OneTimeWait, Abandon, Goto
    <3>2. running' = running /\ pc = "oneTimeWait"
          BY <2>5 DEF OneTimeWait
    <3>3. ~Recording' => ~Recording
          BY <2>5, FrameLoopAssumption
          DEF OneTimeWait, Abandon, Goto, Recording, TypeInv, ControlInv
    <3>4. QED
          BY <1>1, <1>0000, <2>1, <3>1, <3>2, <3>3
  <2>6. CASE Commit
        BY <1>1, <1>0000, <2>1, <2>6 DEF Commit, Abandon, Goto, Recording
  <2>7. CASE WaitFrameFence \/ ResetFrameFence \/ ResetPool
        BY <1>1, <1>0000, <2>1, <2>7
        DEF WaitFrameFence, FrameDone, ResetFrameFence, ResetPool, Goto,
        Recording
  <2>8. CASE Record \/ BeginPrimary \/ EndWindow \/ PassesDone \/ Present
        BY <1>1, <1>0000, <2>1, <2>8
        DEF Record, BeginPrimary, EndWindow, PassesDone, Present, Goto,
        GoOnOrCrash, Recording
  <2>9. CASE Submit
    <3>1. gpuQueue' = Append(gpuQueue, Frame)
          BY <2>9 DEF Submit
    <3>2. QED
          BY <1>1, <3>1 
  <2>10. CASE UNCHANGED <<control, running>>
        BY <1>1, <1>0000, <2>1, <2>10 DEF control, Recording
  <2>11. QED
        BY <1>1, <2>2, <2>3, <2>4, <2>5, <2>6, <2>7, <2>8, <2>9, <2>10,
        NextSteps
        DEF vars, FinishLoad, GpuFinish
<1>2. CASE GpuFinish
  <2>1. ~Blocking' /\ (InQueue("frame") => InQueue("frame")' \/ frameFence')
        BY <1>2, Finishes
  <2>2. /\ UNCHANGED <<pc, site, running>> /\ (frameFence => frameFence')
        BY <1>2 DEF GpuFinish, control
  <2>3. QED
        BY <1>0000, <2>1, <2>2 DEF Recording
<1>3. CASE OneTimeSubmit /\ gpuQueue' # gpuQueue
  <2> DEFINE s == [kind |-> "oneTime", uses |-> {OneTimeBuffer, Pool},
                   blocked |-> {}]
  <2>1. gpuQueue' = Append(gpuQueue, s) /\ s \in Submission /\ s.blocked = {}
        BY <1>3 DEF OneTimeSubmit, Submission, Resources
  <2>2. ~Blocking' /\ (InQueue("frame") => InQueue("frame")')
        BY <2>1, Appended
  <2>3. /\ UNCHANGED <<site, running, frameFence>>
        /\ pc = "oneTime" /\ pc' = "oneTimeWait"
        BY <1>3 DEF OneTimeSubmit, Goto, fences
  <2>4. QED
        BY <1>0000, <2>2, <2>3 DEF Recording
<1>4. CASE Submit
  <2>1. gpuQueue' = Append(gpuQueue, Frame) /\ Frame \in Submission
        BY <1>4
        DEF Submit, TypeInv, TypeOK, ControlTypes, Frame, Submission, Resources
  <2>2. Frame.blocked = {}
        BY <1>4 DEF Submit, ImageInv, HasImage, Frame, Drawing
  <2>3. Frame.kind = "frame"
        BY DEF Frame
  <2>4. ~Blocking' /\ InQueue("frame")'
        BY <2>1, <2>2, <2>3, Appended
  <2>5. pc' = "present"
        BY <1>4 DEF Submit, Goto
  <2>6. QED
        BY <1>0000, <2>4, <2>5
<1>5. CASE ResetFrameFence /\ frameFence' # frameFence
  <2>1. /\ UNCHANGED gpuQueue /\ pc' = "resetPool"
        BY <1>5 DEF ResetFrameFence, Goto
  <2>2. ~Blocking'
        BY <2>1 DEF Blocking
  <2>3. QED
        BY <1>0000, <2>1, <2>2 DEF Recording
<1>6. ASSUME NEW w \in Windows, PollWindow(w) \/ Acquire(w) \/ Pass(w)
      PROVE  UNCHANGED <<gpuQueue, frameFence>>
      BY <1>6 DEF PollWindow, Acquire, Pass, fences
<1>7. QED
      BY <1>1, <1>2, <1>3, <1>4, <1>5, <1>6, NextSteps
      DEF vars, fences, FinishLoad, LoopTop, RunContinuation, DrainDone,
          NewFrame, WindowsDone, ResizeStart, OneTimeSubmit, OneTimeWait,
          Commit,
          WaitFrameFence, ResetFrameFence, ResetPool, Reacquire, Record,
          BeginPrimary, EndWindow, PassesDone, Present, WaitQueueIdle, Shutdown
-----------------------------------------------------------------------------
\* The semaphores.
LEMMA AcquiredOnce ==
  ASSUME WindowTypes, NEW w \in Windows, Acquired(w), NEW S, SignaledIn(S),
         w \notin S, NEW T, T = S \cup {w}
  PROVE  \A v \in Windows : imageAvailable'[v] = 0
                              \/ (v \in T /\ imageAvailable'[v] = 1)
<1>1. imageAvailable[w] = 0
      BY DEF SignaledIn, Unsignaled
<1>2. QED
      BY <1>1, AcquiredImage DEF SignaledIn, Unsignaled

LEMMA SemaphoreStep ==
  ASSUME TypeInv, PlaceInv, FrameInv, SemaphoreInv, [Next]_vars
  PROVE  SemaphoreInv'
<1> SUFFICES ASSUME ~After({"suboptimal"})' PROVE SemaphoreInv'
    BY DEF SemaphoreInv
<1>0. ~After({"suboptimal"})
      BY NotAfter
<1>00. /\ site \in {"drain", "begin", "end"} /\ todo \subseteq open
       /\ open \subseteq Windows /\ WindowTypes /\ gpuQueue \in Seq(Submission)
       BY DEF TypeInv, TypeOK, ControlTypes, DeviceTypes
<1>000. /\ \/ pc \in {"resetFence", "resetPool"}
           \/ ~Recording /\ (frameFence \/ InQueue("frame"))
           => SignaledIn({})
        /\ Acquiring => SignaledIn(open \ todo)
        /\ Drawing => SignaledIn(open)
        BY <1>0 DEF SemaphoreInv
<1> USE <1>0, <1>00, <1>000 DEF PlaceInv, Acquiring, Working, WorkingFor,
Drawing
<1>1. ASSUME NEW w \in Windows, Acquire(w)
      PROVE  SemaphoreInv'
  <2>1. /\ pc = "acquire" /\ w \in todo /\ UNCHANGED open
        /\ \/ UNCHANGED imageAvailable /\ AcquireResizes(w)
           \/ UNCHANGED imageAvailable /\ AcquireGoesOn(w)
           \/ Acquired(w) /\ AcquireGoesOn(w)
    <3>1. faulted' # faulted \cup {"suboptimal"}
          BY DEF After
    <3>2. QED
          BY <1>1, <3>1, AcquireCases
  <2>2. CASE UNCHANGED imageAvailable /\ AcquireResizes(w)
        BY <2>1, <2>2 DEF AcquireResizes, SemaphoreInv, SignaledIn, Unsignaled,
                          Recording
  <2>3. CASE UNCHANGED imageAvailable /\ AcquireGoesOn(w)
        BY <2>1, <2>3 DEF AcquireGoesOn, SemaphoreInv, SignaledIn, Unsignaled,
                          Recording
  <2>4. CASE Acquired(w) /\ AcquireGoesOn(w)
    <3>1. (open \ todo)' = (open \ todo) \cup {w}
          BY <2>1, <2>4 DEF AcquireGoesOn
    <3>2. SignaledIn(open \ todo)'
          BY <2>1, <2>4, <3>1, AcquiredOnce DEF SignaledIn, Unsignaled
    <3>3. QED
          BY <2>1, <2>4, <3>2 DEF AcquireGoesOn, SemaphoreInv, Recording
  <2>5. QED
        BY <2>1, <2>2, <2>3, <2>4
<1>2. CASE Reacquire
  <2>1. PICK w \in Windows : w = cur
        BY <1>2 DEF Reacquire, TypeInv, ControlInv
  <2>2. /\ pc = "reacquire" /\ w \in todo /\ UNCHANGED open /\ pc' = "acquire"
        /\ todo' = todo \ {w}
        /\ Acquired(w) \/ UNCHANGED imageAvailable
        BY <1>2, <2>1 DEF Reacquire
  <2>3. (open \ todo)' = (open \ todo) \cup {w}
        BY <2>2
  <2>4. CASE Acquired(w)
    <3>1. SignaledIn(open \ todo)'
          BY <2>2, <2>3, <2>4, AcquiredOnce DEF SignaledIn, Unsignaled
    <3>2. QED
          BY <2>2, <3>1 DEF SemaphoreInv, Recording
  <2>5. CASE UNCHANGED imageAvailable
    <3>1. SignaledIn(open \ todo)'
          BY <2>2, <2>3, <2>5 DEF SignaledIn, Unsignaled
    <3>2. QED
          BY <2>2, <3>1 DEF SemaphoreInv, Recording
  <2>6. QED
        BY <2>2, <2>4, <2>5
<1>3. CASE Submit
  <2>1. pc = "submit" /\ pc' = "present" /\ SignaledIn(open)
        BY <1>3 DEF Submit, Goto
  <2>2. CASE imageAvailable' = Consumed
    <3>1. SignaledIn({})'
          BY <2>1, <2>2 DEF Consumed, SignaledIn, Unsignaled, WindowTypes
    <3>2. QED
          BY <2>1, <3>1 DEF SemaphoreInv
  <2>3. CASE UNCHANGED <<gpuQueue, frameFence>>
    <3>1. ~frameFence /\ ~InQueue("frame")
          BY <2>1 DEF FrameInv, Recording
    <3>2. ~frameFence' /\ ~InQueue("frame")'
          BY <2>3, <3>1 DEF InQueue
    <3>3. QED
          BY <2>1, <3>2 DEF SemaphoreInv
  <2>4. QED
        BY <1>3, <2>2, <2>3 DEF Submit, fences
<1>4. CASE UNCHANGED <<imageAvailable, gpuQueue, frameFence>> /\ ~Acquiring'
           /\ ~Drawing'
           /\ (~Recording' /\ pc # "resetPool" => ~Recording \/ pc = "resetFence")
           /\ (pc' \in {"resetFence", "resetPool"} =>
                  pc \in {"resetFence", "resetPool"} \/ (~Recording /\ frameFence))
  <2>1. SignaledIn({}) => SignaledIn({})'
        BY <1>4 DEF SignaledIn, Unsignaled
  <2>2. InQueue("frame")' = InQueue("frame")
        BY <1>4 DEF InQueue
  <2>3. QED
        BY <1>4, <2>1, <2>2 DEF SemaphoreInv
<1>5. ASSUME NEW w \in Windows, PollWindow(w)
      PROVE  SemaphoreInv'
      BY <1>4, <1>5 DEF PollWindow, Recording, surfaces, fences
<1>6. ASSUME NEW w \in Windows, Pass(w)
      PROVE  SemaphoreInv'
      BY <1>6 DEF Pass, GoOnOrCrash, Recording, surfaces, fences,
      SemaphoreInv, SignaledIn,
                  Unsignaled
<1>7. CASE LoopTop \/ DrainDone \/ WindowsDone \/ WaitQueueIdle \/ Shutdown
    \/ RunContinuation
           \/ NewFrame
      BY <1>4, <1>7 DEF LoopTop, AfterLoopTop, DrainDone, WindowsDone,
      WaitQueueIdle, Shutdown,
                        RunContinuation, NewFrame, Goto, control, Recording,
                        surfaces, fences
<1>8. CASE WaitFrameFence \/ Present
      BY <1>4, <1>8 DEF WaitFrameFence, FrameDone, Present, Goto, Recording,
                        surfaces, fences
<1>9. CASE BeginPrimary \/ EndWindow \/ PassesDone
      BY <1>9 DEF BeginPrimary, EndWindow, PassesDone, GoOnOrCrash, Recording,
                  surfaces, fences, SemaphoreInv, SignaledIn, Unsignaled
<1>10. CASE ResetFrameFence
  <2>1. pc = "resetFence" /\ pc' \in {"resetPool", "loop"} /\ SignaledIn({})
        BY <1>10 DEF ResetFrameFence, Goto
  <2>2. SignaledIn({})'
        BY <1>10, <2>1 DEF ResetFrameFence, surfaces, SignaledIn, Unsignaled
  <2>3. QED
        BY <2>1, <2>2 DEF SemaphoreInv
<1>11. CASE ResetPool
  <2>1. /\ pc = "resetPool" /\ SignaledIn({})
        /\ UNCHANGED <<imageAvailable, gpuQueue, frameFence, open>>
        /\ pc' = "loop" \/ (pc' = "acquire" /\ todo' = open)
        BY <1>11 DEF ResetPool, Goto, surfaces, fences
  <2>2. ~frameFence' /\ ~InQueue("frame")'
        BY <2>1 DEF FrameInv, Recording, InQueue
  <2>3. SignaledIn(open \ todo)'
        BY <2>1 DEF SignaledIn, Unsignaled
  <2>4. QED
        BY <2>1, <2>2, <2>3 DEF SemaphoreInv
<1>12. CASE Record
  <2>1. /\ pc = "acquire" /\ todo = {} /\ pc' \in {"primary", "crashed"}
        /\ UNCHANGED <<imageAvailable, open>>
        BY <1>12 DEF Record, GoOnOrCrash, surfaces
  <2>2. SignaledIn(open)'
        BY <2>1 DEF SignaledIn, Unsignaled
  <2>3. QED
        BY <2>1, <2>2 DEF SemaphoreInv, Recording
<1>13. CASE /\ UNCHANGED imageAvailable
            /\ InQueue("frame")' \/ frameFence' => InQueue("frame") \/ frameFence
            /\ ~(pc' \in {"resetFence", "resetPool"}) /\ ~Drawing'
            /\ Recording' <=> Recording
            /\ Acquiring' => Acquiring /\ UNCHANGED <<open, todo>>
  <2>1. SignaledIn({}) => SignaledIn({})'
        BY <1>13 DEF SignaledIn, Unsignaled
  <2>2. Acquiring' => SignaledIn(open \ todo)'
        BY <1>13 DEF SignaledIn, Unsignaled
  <2>3. QED
        BY <1>13, <2>1, <2>2 DEF SemaphoreInv
<1>14. CASE OneTimeSubmit
  <2>1. InQueue("frame")' => InQueue("frame")
    <3> DEFINE s == [kind |-> "oneTime", uses |-> {OneTimeBuffer, Pool},
                     blocked |-> {}]
    <3>1. s \in Submission /\ s.kind # "frame" /\ OneFrame
          BY DEF Submission, Resources, FrameInv
    <3>2. gpuQueue' = Append(gpuQueue, s) \/ UNCHANGED gpuQueue
          BY <1>14 DEF OneTimeSubmit
    <3>3. CASE UNCHANGED gpuQueue
          BY <3>3 DEF InQueue
    <3>4. QED
          BY <3>1, <3>2, <3>3, FrameAppended
  <2>2. QED
        BY <1>13, <1>14, <2>1
        DEF OneTimeSubmit, Abandon, Goto, surfaces, fences, Recording
<1>15. CASE ResizeStart \/ OneTimeWait \/ Commit
  <2>1. /\ UNCHANGED <<imageAvailable, gpuQueue, frameFence>>
        /\ InQueue("frame")' <=> InQueue("frame")
        BY <1>15 DEF ResizeStart, OneTimeWait, Commit, fences, surfaces,
        InQueue
  <2>2. CASE ResizeStart
        BY <1>13, <2>1, <2>2 DEF ResizeStart, Abandon, Goto, Recording
  <2>3. CASE OneTimeWait
    <3>1. cur \in Scenes => site = "drain"
          BY <2>3, FrameLoopAssumption DEF OneTimeWait, TypeInv, ControlInv
    <3>2. QED
          BY <1>13, <2>1, <2>3, <3>1 DEF OneTimeWait, Abandon, Goto, Recording
  <2>4. CASE Commit
        BY <1>13, <2>1, <2>4 DEF Commit, Abandon, Goto, Recording
  <2>5. QED
        BY <1>15, <2>2, <2>3, <2>4
<1>16. CASE GpuFinish
  <2>1. InQueue("frame")' => InQueue("frame")
        BY <1>16, FrameFinishes DEF FrameInv
  <2>2. frameFence' => frameFence \/ InQueue("frame")
    <3>1. gpuQueue # <<>> /\ Head(gpuQueue) = gpuQueue[1]
          BY <1>16 DEF GpuFinish
    <3>2. 1 \in 1..Len(gpuQueue)
          BY <3>1, EmptySeq, LenProperties
    <3>3. frameFence' => frameFence \/ gpuQueue[1].kind = "frame"
          BY <1>16, <3>1 DEF GpuFinish
    <3>4. QED
          BY <3>2, <3>3 DEF InQueue
  <2>3. UNCHANGED <<imageAvailable, pc, site, open, todo>>
        BY <1>16 DEF GpuFinish, control, surfaces
  <2>4. CASE pc \in {"resetFence", "resetPool"} \/ Drawing
        BY <2>3, <2>4 DEF SemaphoreInv, SignaledIn, Unsignaled, Recording
  <2>5. QED
        BY <1>13, <2>1, <2>2, <2>3, <2>4 DEF Recording
<1>17. CASE UNCHANGED <<imageAvailable, gpuQueue, frameFence, control, open>>
       BY <1>17 DEF control, SemaphoreInv, SignaledIn, Unsignaled, Recording,
                    InQueue
<1>18. QED
       BY <1>1, <1>2, <1>3, <1>5, <1>6, <1>7, <1>8, <1>9, <1>10, <1>11, <1>12,
          <1>14, <1>15, <1>16, <1>17, NextSteps
       DEF vars, surfaces, fences, FinishLoad

LEMMA PresentStep ==
  ASSUME PresentInv, [Next]_vars
  PROVE  PresentInv'
<1> SUFFICES ASSUME ~After({"present"})', presentReady' PROVE pc' = "present"
    BY DEF PresentInv
<1>1. ~After({"present"}) /\ ~Fail("present")
      BY NotAfter
<1>2. CASE Submit
      BY <1>2 DEF Submit, Goto
<1>3. CASE Present
      BY <1>1, <1>3 DEF Present
<1>4. CASE UNCHANGED presentReady /\ (pc # "present" \/ UNCHANGED pc)
      BY <1>1, <1>4 DEF PresentInv
<1>5. ASSUME NEW w \in Windows, PollWindow(w) \/ Acquire(w) \/ Pass(w)
      PROVE  pc' = "present"
      BY <1>4, <1>5 DEF PollWindow, Acquire, Pass, GoOnOrCrash
<1>6. QED
      BY <1>2, <1>3, <1>4, <1>5, NextSteps
      DEF vars, control, FinishLoad, GpuFinish, LoopTop, RunContinuation,
          DrainDone, NewFrame, WindowsDone, ResizeStart, OneTimeSubmit,
          OneTimeWait, Commit, WaitFrameFence, ResetFrameFence, ResetPool,
          Reacquire, Record, BeginPrimary, EndWindow, PassesDone,
          WaitQueueIdle, Shutdown
-----------------------------------------------------------------------------
\* The UI frames.
LEMMA UiStep ==
  ASSUME TypeInv, PlaceInv, UiInv, [Next]_vars
  PROVE  UiInv'
<1> SUFFICES ASSUME ~After(GivenUp)' PROVE UiInv'
    BY DEF UiInv
<1>0. /\ ~After(GivenUp)
      /\ ~Fail("resize") /\ ~Fail("waitFence") /\ ~Fail("resetFence")
      /\ ~Fail("resetPool") /\ ~Fail("oneTimeWait") /\ ~Fail("oneTimeReset")
  <2>1. ~After(GivenUp) /\ \A f \in GivenUp : ~Fail(f)
        BY NotAfter
  <2>2. QED
        BY <2>1 DEF GivenUp
<1>00. /\ site \in {"drain", "begin", "end"} /\ todo \subseteq open
       /\ open \subseteq Windows /\ uiFrame \in [Windows -> BOOLEAN]
       /\ running \in BOOLEAN
       BY DEF TypeInv, TypeOK, ControlTypes, WindowTypes
<1> USE <1>0, <1>00 DEF UiInv, UiIn, PlaceInv, Working, WorkingFor
<1>1. ASSUME NEW w \in Windows, PollWindow(w)
      PROVE  UiInv'
      BY <1>1 DEF PollWindow
<1>2. ASSUME NEW w \in Windows, Acquire(w)
      PROVE  UiInv'
      BY <1>2, AcquireCases DEF AcquireResizes, AcquireGoesOn
<1>3. ASSUME NEW w \in Windows, Pass(w)
      PROVE  UiInv'
      BY <1>3 DEF Pass, GoOnOrCrash
<1>4. CASE LoopTop \/ DrainDone \/ WindowsDone \/ WaitQueueIdle \/ Shutdown
    \/ RunContinuation
      BY <1>4 DEF LoopTop, AfterLoopTop, DrainDone, WindowsDone,
      WaitQueueIdle, Shutdown,
                  RunContinuation, Goto, control
<1>5. CASE NewFrame
      BY <1>5 DEF NewFrame
<1>6. CASE Reacquire
      BY <1>6 DEF Reacquire
<1>7. CASE ResizeStart
      BY <1>7 DEF ResizeStart, Abandon, Goto, SiteFault
<1>8. CASE OneTimeSubmit
      BY <1>8 DEF OneTimeSubmit, Abandon, Goto, SiteFault
<1>9. CASE OneTimeWait
      BY <1>9, FrameLoopAssumption DEF OneTimeWait, TypeInv, ControlInv
<1>10. CASE Commit
       BY <1>10 DEF Commit, Abandon, Goto, SiteFault
<1>11. CASE WaitFrameFence \/ ResetFrameFence \/ ResetPool
       BY <1>11 DEF WaitFrameFence, ResetFrameFence, ResetPool, Goto
<1>12. CASE Record \/ BeginPrimary \/ EndWindow \/ PassesDone \/ Submit
    \/ Present
       BY <1>12 DEF Record, BeginPrimary, EndWindow, UiFrameEnded, PassesDone,
                    Submit, Present, Goto, GoOnOrCrash
<1>13. CASE UNCHANGED <<control, open, uiFrame, running>>
       BY <1>13 DEF control
<1>14. QED
       BY <1>1, <1>2, <1>3, <1>4, <1>5, <1>6, <1>7, <1>8, <1>9, <1>10, <1>11,
          <1>12, <1>13, NextSteps
       DEF vars, FinishLoad, GpuFinish
-----------------------------------------------------------------------------
FaultsInv ==
  /\ TypeInv /\ FrameInv /\ PlaceInv /\ LiveInv /\ ImageInv /\ HangInv
  /\ SemaphoreInv /\ PresentInv /\ UiInv /\ SecondaryInv

LEMMA FaultsInit == Init => FaultsInv
<1> SUFFICES ASSUME Init PROVE FaultsInv
    OBVIOUS
<1>1. TypeInv /\ FrameInv
      BY TypeInit, FrameInit
<1>2. PlaceInv /\ LiveInv /\ ImageInv
      BY DEF Init, PlaceInv, LiveInv, ImageInv, Acquiring, WorkingFor, Working
<1>3. HangInv /\ PresentInv /\ SecondaryInv
  <2>1. Len(secondaries) = 0 /\ Cardinality(open) \in Nat
        BY FS_EmptySet DEF Init
  <2>2. QED
        BY <2>1 DEF Init, HangInv, PresentInv, SecondaryInv, Drawing
<1>4. SemaphoreInv
      BY DEF Init, SemaphoreInv, SignaledIn, Unsignaled, Acquiring, WorkingFor,
             Working
<1>5. UiInv
      BY DEF Init, UiInv, UiIn, WorkingFor, Working
<1>6. QED
      BY <1>1, <1>2, <1>3, <1>4, <1>5 DEF FaultsInv

LEMMA FaultsAlways == Spec => []FaultsInv
<1>1. FaultsInv /\ [Next]_vars => FaultsInv'
      BY TypeStep, FrameStep, PlaceStep, LiveStep, ImageStep, HangStep,
         SemaphoreStep, PresentStep, UiStep, SecondaryStep
      DEF FaultsInv
<1>2. QED
      BY <1>1, FaultsInit, PTL DEF Spec

\* Every secondary command buffer that a frame executes was recorded for it,
\* one for each window, however many windows continuations opened since the
\* buffers were allocated; null handles and buffers that are not recorded come
\* only of failed allocations and failed recordings.
THEOREM SecondariesRecordedCorrect == Spec => []SecondariesRecorded
<1>1. FaultsInv => SecondariesRecorded
      BY DEF FaultsInv, SecondaryInv, SecondariesRecorded, TypeInv, TypeOK,
             DeviceTypes, BufferStates
<1>2. QED
      BY <1>1, FaultsAlways, PTL

\* Whichever calls fail, EndFrame acquires from a retired swapchain only if a
\* Resize of its own failed or a one-time submission lost its fence: a Resize
\* that fails in BeginFrame is tried again before the next frame.
THEOREM AcquiresLiveSwapchainCorrect == Spec => []AcquiresLiveSwapchain
<1>1. FaultsInv => AcquiresLiveSwapchain
      BY DEF FaultsInv, LiveInv, LostInEnd, AcquiresLiveSwapchain, TypeInv,
      TypeOK,
             ControlTypes
<1>2. QED
      BY <1>1, FaultsAlways, PTL

\* Unless acquiring failed, each window is recorded and presented with an
\* image of its present swapchain, resized during EndFrame or not.
THEOREM RecordsAcquiredImagesCorrect == Spec => []RecordsAcquiredImages
<1>1. FaultsInv => RecordsAcquiredImages
      BY DEF FaultsInv, ImageInv, LostImage, LostInEnd, HasImage,
             RecordsAcquiredImages, After
<1>2. QED
      BY <1>1, FaultsAlways, PTL

\* No semaphore is signaled twice without a wait between, unless an acquire
\* was suboptimal or a present failed.
THEOREM SemaphoresBalancedCorrect == Spec => []SemaphoresBalanced
<1>1. FaultsInv => SemaphoresBalanced
  <2> SUFFICES ASSUME FaultsInv PROVE SemaphoresBalanced
      OBVIOUS
  <2>1. /\ todo \subseteq open /\ open \subseteq Windows
        /\ pc = "reacquire" => cur \in todo
        BY DEF FaultsInv, TypeInv, TypeOK, ControlTypes, PlaceInv
  <2>2. ~After({"suboptimal"}) =>
          /\ pc = "acquire" => \A w \in todo : imageAvailable[w] = 0
          /\ pc = "reacquire" => imageAvailable[cur] = 0
        BY <2>1 DEF FaultsInv, SemaphoreInv, Acquiring, SignaledIn, Unsignaled
  <2>3. pc = "submit" /\ ~After({"present"}) => ~presentReady
        BY DEF FaultsInv, PresentInv
  <2>4. QED
        BY <2>2, <2>3 DEF SemaphoresBalanced
<1>2. QED
      BY <1>1, FaultsAlways, PTL

\* The loop waits for what will not come only after a failure that EndFrame or
\* a one-time submission went on from: never after a failed continuation, a
\* failed Resize in BeginFrame, a failed wait or a failed present.
THEOREM HangsOnlyAfterUnrecoveredCorrect == Spec => []HangsOnlyAfterUnrecovered
<1>1. FaultsInv => HangsOnlyAfterUnrecovered
  <2> SUFFICES ASSUME FaultsInv,
                      ~After({"resetPool", "submit", "acquire", "reacquire",
                              "resizeInEnd", "oneTimeWait", "oneTimeReset"})
               PROVE  ~Stuck
      BY DEF HangsOnlyAfterUnrecovered
  <2>1. ~After({"resetPool", "submit"} \cup LostImage)
        BY DEF After, LostImage, LostInEnd
  <2>2. /\ \A i \in 1..Len(gpuQueue) : gpuQueue[i].blocked = {}
        /\ ~Recording /\ ~frameFence /\ ~InQueue("frame") =>
             ~running /\ pc \in {"loop", "shutdown", "waitDevice", "done"}
        BY <2>1 DEF FaultsInv, HangInv
  <2>3. pc = "waitFence" => ~Recording
        BY DEF Recording
  <2>4. QED
        BY <2>2, <2>3 DEF Stuck
<1>2. QED
      BY <1>1, FaultsAlways, PTL

\* ImGui::NewFrame is called again only after ImGui::EndFrame, unless
\* BeginFrame returned half-way, whichever windows were opened meanwhile.
THEOREM UiFramesPairedCorrect == Spec => []UiFramesPaired
<1>1. FaultsInv => UiFramesPaired
      BY DEF FaultsInv, UiInv, UiIn, GivenUp, PlaceInv, TypeInv, ControlInv,
      TypeOK,
             ControlTypes, WindowTypes, UiFramesPaired
<1>2. QED
      BY <1>1, FaultsAlways, PTL
=============================================================================
