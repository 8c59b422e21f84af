-------------------------- MODULE FrameLoopProofs --------------------------
(***************************************************************************)
(* Proofs about FrameLoop, for any number of windows, scenes, failures and *)
(* one-time submissions: type correctness, the truth of sFrameComplete,    *)
(* that nothing is clobbered, and that the loop implements FrameOwnership. *)
(***************************************************************************)
EXTENDS FrameLoop, FiniteSetTheorems, SequenceTheorems, TLAPS

\* What the main thread is working on while it uploads or resizes.
ControlInv ==
  /\ pc \in {"oneTime", "oneTimeWait"} =>
       /\ left > 0
       /\ cur \in Loads
       /\ site # "drain" => cur \in Windows
  /\ pc \in {"resize", "commit", "newFrame", "reacquire", "endWindow"} =>
       cur \in Windows

TypeInv == TypeOK /\ ControlInv

LEMMA TypeInit == Init => TypeInv
<1> SUFFICES ASSUME Init PROVE TypeInv
    OBVIOUS
<1>1. ControlTypes /\ ControlInv
      BY DEF Init, ControlTypes, PCs, ControlInv
<1>2. IOTypes
      BY DEF Init, IOTypes
<1>3. WindowTypes
      BY DEF Init, WindowTypes
<1>4. DeviceTypes
  <2>1. gpuQueue \in Seq(Submission) /\ secondaries \in Seq(BufferStates)
        BY DEF Init
  <2>2. QED
        BY <2>1 DEF Init, DeviceTypes
<1>5. HistoryTypes
      BY DEF Init, HistoryTypes
<1>6. QED
      BY <1>1, <1>2, <1>3, <1>4, <1>5 DEF TypeInv, TypeOK

\* The steps of Next, so that a proof can name the ones that matter to it.
LEMMA NextSteps ==
  ASSUME [Next]_vars
  PROVE  \/ \E l \in Loads : FinishLoad(l)
         \/ \E w \in Windows : PollWindow(w) \/ Acquire(w) \/ Pass(w)
         \/ GpuFinish \/ LoopTop \/ RunContinuation \/ DrainDone \/ NewFrame
         \/ WindowsDone \/ ResizeStart \/ OneTimeSubmit \/ OneTimeWait
         \/ Commit \/ WaitFrameFence \/ ResetFrameFence \/ ResetPool
         \/ Reacquire \/ Record \/ BeginPrimary \/ EndWindow \/ PassesDone
         \/ Submit \/ Present \/ WaitQueueIdle \/ Shutdown
         \/ UNCHANGED vars
BY DEF Next, MainThread, BeginFrame, ResizeSurface, EndFrame, Finished

LEMMA IOStep == IOTypes /\ [Next]_vars => IOTypes'
<1> SUFFICES ASSUME IOTypes, [Next]_vars
             PROVE  IOTypes'
    OBVIOUS
<1>1. ASSUME NEW l \in Loads, FinishLoad(l)
      PROVE  IOTypes'
  <2>1. Append(ioContinuations, l) \in Seq(Loads)
        BY AppendProperties DEF IOTypes
  <2>2. QED
        BY <1>1, <2>1 DEF FinishLoad, IOTypes
<1>2. CASE RunContinuation
      BY <1>2 DEF RunContinuation, IOTypes
<1>3. CASE UNCHANGED ioVars
      BY <1>3 DEF IOTypes, ioVars
<1>4. QED
      BY <1>1, <1>2, <1>3, NextSteps
      DEF vars, GpuFinish, LoopTop, DrainDone, PollWindow, NewFrame,
          WindowsDone, ResizeStart, OneTimeSubmit, OneTimeWait, Commit,
          WaitFrameFence, ResetFrameFence, ResetPool, Acquire, Reacquire,
          Record, BeginPrimary, EndWindow, Pass, PassesDone, Submit, Present,
          WaitQueueIdle, Shutdown

\* An acquire keeps the image index and the semaphore well-typed.
LEMMA AcquiredTypes ==
  ASSUME WindowTypes, NEW w \in Windows, Acquired(w)
  PROVE  /\ image' \in [Windows -> {"none", "current", "stale"}]
         /\ imageAvailable' \in [Windows -> 0..2]
<1>1. image' \in [Windows -> {"none", "current", "stale"}]
      BY DEF Acquired, WindowTypes
<1>2. (IF imageAvailable[w] < 2 THEN imageAvailable[w] + 1 ELSE 2) \in 0..2
      BY DEF WindowTypes
<1>3. imageAvailable' \in [Windows -> 0..2]
      BY <1>2 DEF Acquired, WindowTypes
<1>4. QED
      BY <1>1, <1>3

LEMMA WindowStep == TypeInv /\ [Next]_vars => WindowTypes'
<1> SUFFICES ASSUME TypeInv, [Next]_vars
             PROVE  WindowTypes'
    OBVIOUS
<1>0. WindowTypes
      BY DEF TypeInv, TypeOK
<1> USE <1>0 DEF WindowTypes, surfaces
<1>1. ASSUME NEW w \in Windows, PollWindow(w) \/ Pass(w)
      PROVE  WindowTypes'
      BY <1>1 DEF PollWindow, Pass
<1>10. ASSUME NEW w \in Windows, Acquire(w)
       PROVE  WindowTypes'
  <2>1. CASE Acquired(w)
        BY <1>10, <2>1, AcquiredTypes DEF Acquire
  <2>2. CASE UNCHANGED <<image, imageAvailable>>
        BY <1>10, <2>2 DEF Acquire
  <2>3. QED
        BY <1>10, <2>1, <2>2 DEF Acquire
<1>2. CASE NewFrame \/ EndWindow
      BY <1>2 DEF NewFrame, EndWindow, UiFrameEnded
<1>3. CASE ResizeStart
      BY <1>3 DEF ResizeStart, Abandon, ResizedAfterError
<1>4. CASE OneTimeSubmit \/ OneTimeWait
      BY <1>4 DEF OneTimeSubmit, OneTimeWait, Abandon, ResizedAfterError
<1>5. CASE Commit
      BY <1>5 DEF Commit, Abandon, ResizedAfterError, ResizedAfterCommit
<1>6. CASE Reacquire
  <2>1. CASE Acquired(cur)
    <3>1. cur \in Windows
          BY <1>6 DEF Reacquire, TypeInv, ControlInv
    <3>2. QED
          BY <1>6, <2>1, <3>1, AcquiredTypes DEF Reacquire
  <2>2. CASE UNCHANGED <<image, imageAvailable>>
        BY <1>6, <2>2 DEF Reacquire
  <2>3. QED
        BY <1>6, <2>1, <2>2 DEF Reacquire
<1>7. CASE Submit
      BY <1>7 DEF Submit, Consumed
<1>8. CASE UNCHANGED <<resized, surfaces, uiFrame>>
      BY <1>8
<1>9. QED
      BY <1>1, <1>2, <1>3, <1>4, <1>5, <1>6, <1>7, <1>8, <1>10,
         NextSteps
      DEF vars, FinishLoad, GpuFinish, LoopTop, RunContinuation, DrainDone,
          WindowsDone, WaitFrameFence, ResetFrameFence, ResetPool, Record,
          BeginPrimary, PassesDone, Present, WaitQueueIdle, Shutdown

\* A failing call and a release keep the history variables well-typed.
LEMMA FailTypes ==
  ASSUME HistoryTypes, NEW f, Fail(f)
  PROVE  faulted' \subseteq Mishaps /\ failures' \in Nat
<1>1. Faults \subseteq Mishaps
      BY FrameLoopAssumption DEF Mishaps
<1>2. QED
      BY <1>1 DEF Fail, HistoryTypes

LEMMA ReleaseTypes ==
  ASSUME HistoryTypes, NEW S, S \subseteq Resources, Release(S)
  PROVE  clobbered' \subseteq Resources
BY DEF HistoryTypes, Release

LEMMA HistoryStep == TypeInv /\ [Next]_vars => HistoryTypes'
<1> SUFFICES ASSUME TypeInv, [Next]_vars
             PROVE  HistoryTypes'
    OBVIOUS
<1>1. faulted' \subseteq Mishaps /\ failures' \in Nat
  <2>1. CASE \E f : Fail(f)
        BY <2>1, FailTypes DEF TypeInv, TypeOK
  <2>2. CASE faulted' = faulted \cup {"suboptimal"} /\ UNCHANGED failures
        BY <2>2 DEF TypeInv, TypeOK, HistoryTypes, Mishaps
  <2>3. CASE UNCHANGED faultVars
        BY <2>3 DEF TypeInv, TypeOK, HistoryTypes, faultVars
  <2>4. ASSUME NEW w \in Windows, Acquire(w)
        PROVE  \/ \E f : Fail(f)
               \/ faulted' = faulted \cup {"suboptimal"} /\ UNCHANGED failures
               \/ UNCHANGED faultVars
        BY <2>4 DEF Acquire
  <2>5. QED
        BY <2>1, <2>2, <2>3, <2>4, NextSteps
        DEF vars, FinishLoad, GpuFinish, LoopTop, RunContinuation, DrainDone,
            PollWindow, NewFrame, WindowsDone, ResizeStart, OneTimeSubmit,
            OneTimeWait, Commit, WaitFrameFence, ResetFrameFence, ResetPool,
            Reacquire, Record, BeginPrimary, EndWindow, Pass, PassesDone,
            Submit, Present, WaitQueueIdle, Shutdown
<1>2. clobbered' \subseteq Resources
  <2>1. CASE \E S \in SUBSET Resources : Release(S)
        BY <2>1, ReleaseTypes DEF TypeInv, TypeOK
  <2>2. CASE UNCHANGED clobbered
        BY <2>2 DEF TypeInv, TypeOK, HistoryTypes
  <2>3. CASE OneTimeWait
        BY <2>1, <2>3 DEF OneTimeWait, Resources
  <2>4. CASE Commit
    <3>1. cur \in Windows
          BY <2>4 DEF Commit, TypeInv, ControlInv
    <3>2. QED
          BY <2>1, <2>2, <2>4, <3>1 DEF Commit, Resources
  <2>5. CASE ResetPool
        BY <2>1, <2>2, <2>5 DEF ResetPool, Resources
  <2>6. CASE Record \/ BeginPrimary
        BY <2>1, <2>6 DEF Record, BeginPrimary, Resources
  <2>7. ASSUME NEW w \in Windows, Pass(w)
        PROVE  clobbered' \subseteq Resources
        BY <2>1, <2>7 DEF Pass, Resources
  <2>8. CASE Shutdown
        BY <2>1, <2>8 DEF Shutdown
  <2>9. CASE EndWindow
    <3>1. UIBuffers(cur) \in Resources
          BY <2>9 DEF EndWindow, TypeInv, ControlInv, Resources
    <3>2. QED
          BY <2>1, <2>9, <3>1 DEF EndWindow
  <2>10. QED
        BY <2>2, <2>3, <2>4, <2>5, <2>6, <2>7, <2>8, <2>9, NextSteps
        DEF vars, FinishLoad, GpuFinish, LoopTop, RunContinuation, DrainDone,
            PollWindow, NewFrame, WindowsDone, ResizeStart, OneTimeSubmit,
            WaitFrameFence, ResetFrameFence, Acquire, Reacquire, PassesDone,
            Submit, Present, WaitQueueIdle
<1>3. QED
      BY <1>1, <1>2 DEF HistoryTypes

\* The queue stays a sequence of submissions.
LEMMA QueueTypes ==
  ASSUME TypeInv, [Next]_vars
  PROVE  gpuQueue' \in Seq(Submission)
<1>0. gpuQueue \in Seq(Submission)
      BY DEF TypeInv, TypeOK, DeviceTypes
<1>1. CASE GpuFinish
      BY <1>0, <1>1 DEF GpuFinish
<1>2. CASE OneTimeSubmit
  <2>1. [kind |-> "oneTime", uses |-> {OneTimeBuffer, Pool}, blocked |-> {}]
          \in Submission
        BY DEF Submission, Resources
  <2>2. QED
        BY <1>0, <1>2, <2>1, AppendProperties DEF OneTimeSubmit
<1>3. CASE Submit
  <2>1. Frame \in Submission
        BY DEF TypeInv, TypeOK, ControlTypes, Frame, Submission, Resources
  <2>2. QED
        BY <1>0, <1>3, <2>1, AppendProperties DEF Submit
<1>4. CASE UNCHANGED gpuQueue
      BY <1>0, <1>4
<1>5. QED
      BY <1>1, <1>2, <1>3, <1>4, NextSteps
      DEF vars, FinishLoad, LoopTop, RunContinuation, DrainDone, PollWindow,
          NewFrame, WindowsDone, ResizeStart, OneTimeWait, Commit,
          WaitFrameFence, ResetFrameFence, ResetPool, Acquire, Reacquire,
          Record, BeginPrimary, EndWindow, Pass, PassesDone, Present,
          WaitQueueIdle, Shutdown

\* sSecondaryCommandBuffers, and what the frame makes of it.
LEMMA ReallocatedTypes ==
  ASSUME TypeInv, NEW h \in BufferStates
  PROVE  /\ Cardinality(open) \in Nat
         /\ Reallocated(h) \in Seq(BufferStates)
<1>1. Cardinality(open) \in Nat
      BY FrameLoopAssumption, FS_Subset, FS_CardinalityType
      DEF TypeInv, TypeOK, ControlTypes
<1>2. QED
      BY <1>1 DEF Reallocated, TypeInv, TypeOK, DeviceTypes

LEMMA RecordedTypes ==
  ASSUME NEW buffers \in Seq(BufferStates), NEW failed
  PROVE  /\ Recorded(buffers, failed) \in Seq(BufferStates)
         /\ Len(Recorded(buffers, failed)) = Len(buffers)
BY DEF Recorded, BufferStates

LEMMA SecondariesTypes ==
  ASSUME TypeInv, [Next]_vars
  PROVE  secondaries' \in Seq(BufferStates)
<1>0. secondaries \in Seq(BufferStates)
      BY DEF TypeInv, TypeOK, DeviceTypes
<1>1. CASE Record
  <2>1. "initial" \in BufferStates /\ "null" \in BufferStates
        BY DEF BufferStates
  <2>2. /\ Reallocated("initial") \in Seq(BufferStates)
        /\ Reallocated("null") \in Seq(BufferStates)
        BY <2>1, ReallocatedTypes
  <2>3. \/ \E failed : secondaries' = Recorded(Reallocated("initial"), failed)
        \/ secondaries' = Reallocated("null")
        BY <1>1 DEF Record
  <2>4. QED
        BY <2>2, <2>3, RecordedTypes
<1>2. CASE ResetPool
  <2>1. CASE UNCHANGED secondaries
        BY <1>0, <2>1
  <2>2. CASE secondaries' = [i \in 1..Len(secondaries) |->
               IF secondaries[i] = "null" THEN "null" ELSE "initial"]
        BY <1>0, <2>2 DEF BufferStates
  <2>3. QED
        BY <1>2, <2>1, <2>2 DEF ResetPool
<1>3. CASE UNCHANGED secondaries
      BY <1>0, <1>3
<1>4. QED
      BY <1>1, <1>2, <1>3, NextSteps
      DEF vars, FinishLoad, GpuFinish, LoopTop, RunContinuation, DrainDone,
          PollWindow, NewFrame, WindowsDone, ResizeStart, OneTimeSubmit,
          OneTimeWait, Commit, WaitFrameFence, ResetFrameFence, Acquire,
          Reacquire, BeginPrimary, Pass, EndWindow, PassesDone, Submit,
          Present,
          WaitQueueIdle, Shutdown

LEMMA DeviceStep == TypeInv /\ [Next]_vars => DeviceTypes'
<1> SUFFICES ASSUME TypeInv, [Next]_vars
             PROVE  DeviceTypes'
    OBVIOUS
<1>1. secondaries' \in Seq(BufferStates)
      BY SecondariesTypes
<1>2. frameFence' \in BOOLEAN /\ oneTimeFence' \in BOOLEAN
  <2> USE DEF TypeInv, TypeOK, DeviceTypes, fences
  <2>1. CASE GpuFinish
        BY <2>1 DEF GpuFinish
  <2>2. CASE OneTimeWait
        BY <2>2 DEF OneTimeWait
  <2>3. CASE ResetFrameFence
        BY <2>3 DEF ResetFrameFence
  <2>4. CASE UNCHANGED fences
        BY <2>4
  <2>5. QED
        BY <2>1, <2>2, <2>3, <2>4, NextSteps
        DEF vars, FinishLoad, LoopTop, RunContinuation, DrainDone, PollWindow,
            NewFrame, WindowsDone, ResizeStart, OneTimeSubmit, Commit,
            WaitFrameFence, ResetPool, Acquire, Reacquire, Record,
            BeginPrimary, EndWindow, Pass,
            PassesDone, Submit, Present, WaitQueueIdle, Shutdown
<1>3. presentReady' \in BOOLEAN
      BY NextSteps
      DEF TypeInv, TypeOK, DeviceTypes, vars, FinishLoad, GpuFinish, LoopTop,
          RunContinuation, DrainDone, PollWindow, NewFrame, WindowsDone,
          ResizeStart, OneTimeSubmit, OneTimeWait, Commit, WaitFrameFence,
          ResetFrameFence, ResetPool, Acquire, Reacquire, Record,
          BeginPrimary, EndWindow, Pass,
          PassesDone, Submit, Present, WaitQueueIdle, Shutdown
<1>4. QED
      BY <1>1, <1>2, <1>3, QueueTypes DEF DeviceTypes

LEMMA ControlStep == TypeInv /\ [Next]_vars => ControlTypes' /\ ControlInv'
<1> SUFFICES ASSUME TypeInv, [Next]_vars
             PROVE  ControlTypes' /\ ControlInv'
    OBVIOUS
<1>0. ControlTypes /\ ControlInv /\ ioContinuations \in Seq(Loads)
      BY DEF TypeInv, TypeOK, IOTypes
<1> USE <1>0, FrameLoopAssumption
    DEF ControlTypes, ControlInv, PCs, Loads, control, Goto
<1>1. ASSUME NEW w \in Windows, PollWindow(w) \/ Acquire(w) \/ Pass(w)
      PROVE  ControlTypes' /\ ControlInv'
      BY <1>1 DEF PollWindow, Acquire, NeedsResize, Pass, GoOnOrCrash
<1>2. CASE LoopTop \/ DrainDone \/ WindowsDone \/ WaitQueueIdle \/ Shutdown
      BY <1>2 DEF LoopTop, AfterLoopTop, DrainDone, WindowsDone,
      WaitQueueIdle, Shutdown
<1>3. CASE RunContinuation
      BY <1>3 DEF RunContinuation
<1>4. CASE NewFrame \/ Reacquire
      BY <1>4 DEF NewFrame, Reacquire
<1>5. CASE ResizeStart
      BY <1>5 DEF ResizeStart, Transitions, Abandon
<1>6. CASE OneTimeSubmit
      BY <1>6 DEF OneTimeSubmit, Abandon
<1>7. CASE OneTimeWait
      BY <1>7 DEF OneTimeWait, Abandon
<1>8. CASE Commit
      BY <1>8 DEF Commit, Abandon
<1>9. CASE WaitFrameFence \/ ResetFrameFence \/ ResetPool
      BY <1>9 DEF WaitFrameFence, ResetFrameFence, ResetPool
<1>10. CASE Record \/ BeginPrimary \/ EndWindow \/ PassesDone \/ Submit
    \/ Present
       BY <1>10 DEF Record, BeginPrimary, EndWindow, PassesDone, Submit,
       Present,
                    GoOnOrCrash
<1>11. CASE UNCHANGED <<running, control, open>>
       BY <1>11
<1>12. QED
       BY <1>1, <1>2, <1>3, <1>4, <1>5, <1>6, <1>7, <1>8, <1>9, <1>10, <1>11,
          NextSteps
       DEF vars, FinishLoad, GpuFinish

LEMMA TypeStep == TypeInv /\ [Next]_vars => TypeInv'
<1>1. TypeInv => IOTypes
      BY DEF TypeInv, TypeOK
<1>2. QED
      BY <1>1, IOStep, WindowStep, DeviceStep, HistoryStep, ControlStep
      DEF TypeInv, TypeOK

\* Type correctness of the frame loop.
THEOREM TypeCorrect == Spec => []TypeOK
<1>1. TypeInv => TypeOK
      BY DEF TypeInv
<1>2. QED
      BY <1>1, TypeInit, TypeStep, PTL DEF Spec
-----------------------------------------------------------------------------
(* sFrameComplete and the queue.  While a frame is queued its fence is     *)
(* unsignaled and nothing is being recorded, so no second one is submitted.*)
OneFrame ==
  \A i, j \in 1..Len(gpuQueue) :
    gpuQueue[i].kind = "frame" /\ gpuQueue[j].kind = "frame" => i = j

FrameInv ==
  /\ OneFrame
  /\ InQueue("frame") => ~frameFence /\ ~Recording
  /\ Recording /\ pc # "resetFence" => ~frameFence

LEMMA FrameInit == Init => FrameInv
BY DEF Init, FrameInv, OneFrame, InQueue, Recording

\* A submission that finishes leaves a frame only if there was another kind
\* at the head of the queue.
LEMMA FrameFinishes ==
  ASSUME gpuQueue \in Seq(Submission), OneFrame, GpuFinish
  PROVE  /\ OneFrame'
         /\ InQueue("frame")' => InQueue("frame") /\ Head(gpuQueue).kind # "frame"
<1>1. /\ Len(gpuQueue') = Len(gpuQueue) - 1
      /\ \A i \in 1..Len(gpuQueue') : i + 1 \in 1..Len(gpuQueue)
                                     /\ gpuQueue'[i] = gpuQueue[i + 1]
      BY DEF GpuFinish
<1>2. 1 \in 1..Len(gpuQueue) /\ Head(gpuQueue) = gpuQueue[1]
      BY DEF GpuFinish
<1>3. OneFrame'
  <2>1. SUFFICES ASSUME NEW i \in 1..Len(gpuQueue'), NEW j \in 1..Len(gpuQueue'),
                        gpuQueue'[i].kind = "frame", gpuQueue'[j].kind = "frame"
                 PROVE  i = j
        BY DEF OneFrame
  <2>2. i + 1 = j + 1
        BY <1>1, <2>1 DEF OneFrame
  <2>3. QED
        BY <2>2
<1>4. ASSUME InQueue("frame")'
      PROVE  InQueue("frame") /\ Head(gpuQueue).kind # "frame"
  <2>1. PICK i \in 1..Len(gpuQueue') : gpuQueue'[i].kind = "frame"
        BY <1>4 DEF InQueue
  <2>2. gpuQueue[i + 1].kind = "frame" /\ i + 1 \in 1..Len(gpuQueue) /\ i + 1 # 1
        BY <1>1, <2>1
  <2>3. QED
        BY <1>2, <2>2 DEF OneFrame, InQueue
<1>5. QED
      BY <1>3, <1>4

\* Appending a submission adds a frame only if it is one.
LEMMA FrameAppended ==
  ASSUME gpuQueue \in Seq(Submission), OneFrame, NEW s \in Submission,
         gpuQueue' = Append(gpuQueue, s),
         s.kind = "frame" => ~InQueue("frame")
  PROVE  /\ OneFrame'
         /\ InQueue("frame")' => InQueue("frame") \/ s.kind = "frame"
<1>1. /\ Len(gpuQueue') = Len(gpuQueue) + 1
      /\ \A i \in 1..Len(gpuQueue) : gpuQueue'[i] = gpuQueue[i]
      /\ gpuQueue'[Len(gpuQueue) + 1] = s
      OBVIOUS
<1>2. \A i \in 1..Len(gpuQueue') : i \in 1..Len(gpuQueue) \/ i = Len(gpuQueue) + 1
      BY <1>1
<1>3. QED
      BY <1>1, <1>2 DEF OneFrame, InQueue

LEMMA FrameStep == TypeInv /\ FrameInv /\ [Next]_vars => FrameInv'
<1> SUFFICES ASSUME TypeInv, FrameInv, [Next]_vars
             PROVE  FrameInv'
    OBVIOUS
<1>0. /\ gpuQueue \in Seq(Submission) /\ OneFrame
      /\ site \in {"drain", "begin", "end"}
      BY DEF TypeInv, TypeOK, ControlTypes, DeviceTypes, FrameInv
<1>1. CASE GpuFinish
  <2>1. Recording' = Recording /\ pc' = pc
        BY <1>1 DEF GpuFinish, Recording, control
  <2>2. OneFrame' /\ (InQueue("frame")' => InQueue("frame") /\ ~frameFence')
        BY <1>0, <1>1, FrameFinishes DEF GpuFinish, FrameInv
  <2>3. ASSUME Recording, pc # "resetFence"
        PROVE  ~frameFence'
    <3>1. Head(gpuQueue).kind # "frame"
          BY <1>0, <1>1, <2>3 DEF GpuFinish, FrameInv, InQueue
    <3>2. QED
          BY <1>1, <2>3, <3>1 DEF GpuFinish, FrameInv
  <2>4. QED
        BY <2>1, <2>2, <2>3 DEF FrameInv
<1>2. CASE OneTimeSubmit
  <2>1. Recording' => Recording /\ pc # "resetFence"
        BY <1>0, <1>2 DEF OneTimeSubmit, Recording, Goto, Abandon
  <2>2. CASE UNCHANGED gpuQueue
        BY <1>2, <2>1, <2>2 DEF OneTimeSubmit, FrameInv, OneFrame, InQueue,
        fences
  <2>3. CASE gpuQueue' = Append(gpuQueue, [kind |-> "oneTime",
                           uses |-> {OneTimeBuffer, Pool}, blocked |-> {}])
    <3>1. [kind |-> "oneTime", uses |-> {OneTimeBuffer, Pool}, blocked |-> {}]
            \in Submission
          BY DEF Submission, Resources
    <3>2. OneFrame' /\ (InQueue("frame")' => InQueue("frame"))
          BY <1>0, <2>3, <3>1, FrameAppended
    <3>3. QED
          BY <1>2, <2>1, <3>2 DEF OneTimeSubmit, FrameInv, fences
  <2>4. QED
        BY <1>2, <2>2, <2>3 DEF OneTimeSubmit
<1>3. CASE Submit
  <2>1. ~Recording' /\ ~InQueue("frame") /\ ~frameFence'
        BY <1>3 DEF Submit, Recording, Goto, FrameInv, fences
  <2>2. CASE UNCHANGED gpuQueue
        BY <2>1, <2>2 DEF FrameInv, OneFrame, InQueue
  <2>3. CASE gpuQueue' = Append(gpuQueue, Frame)
    <3>1. Frame \in Submission
          BY DEF TypeInv, TypeOK, ControlTypes, Frame, Submission, Resources
    <3>2. OneFrame'
          BY <1>0, <2>1, <2>3, <3>1, FrameAppended
    <3>3. QED
          BY <2>1, <3>2 DEF FrameInv
  <2>4. QED
        BY <1>3, <2>2, <2>3 DEF Submit
<1>4. CASE WaitFrameFence \/ ResetFrameFence
      BY <1>4 DEF WaitFrameFence, FrameDone, ResetFrameFence, Goto, Recording,
                  FrameInv, OneFrame, InQueue, fences
<1>5. CASE UNCHANGED <<frameFence, gpuQueue>> /\
           (Recording' => Recording /\ pc # "resetFence")
      BY <1>5 DEF FrameInv, OneFrame, InQueue
<1>6. ASSUME NEW w \in Windows, PollWindow(w) \/ Acquire(w) \/ Pass(w)
      PROVE  UNCHANGED <<frameFence, gpuQueue>> /\
             (Recording' => Recording /\ pc # "resetFence")
      BY <1>6 DEF PollWindow, Acquire, Pass, Recording, fences
<1>7. CASE UNCHANGED <<fences, gpuQueue, control>>
      BY <1>7 DEF fences, control, Recording, FrameInv, OneFrame, InQueue
<1>8. CASE LoopTop \/ DrainDone \/ WindowsDone \/ WaitQueueIdle \/ Shutdown
    \/ NewFrame
             \/ RunContinuation
      BY <1>5, <1>8 DEF LoopTop, AfterLoopTop, DrainDone, WindowsDone,
      WaitQueueIdle, Shutdown,
                        NewFrame, RunContinuation, Goto, Recording, fences,
                        control
<1>9. CASE ResizeStart \/ OneTimeWait \/ Commit
      BY <1>0, <1>5, <1>9 DEF ResizeStart, OneTimeWait, Commit, Abandon, Goto,
                        Recording, fences
<1>10. CASE ResetPool \/ Reacquire \/ Record \/ BeginPrimary \/ EndWindow
    \/ PassesDone \/ Present
      BY <1>5, <1>10 DEF ResetPool, Reacquire, Record, BeginPrimary,
      EndWindow, PassesDone, Present, Goto,
                         Recording, fences
<1>11. QED
      BY <1>1, <1>2, <1>3, <1>4, <1>5, <1>6, <1>7, <1>8, <1>9, <1>10, NextSteps
      DEF vars, FinishLoad

\* sFrameComplete is unsignaled while a frame is queued, and there is never a
\* second one: BeginFrame's wait is a wait for the frame submitted last.
THEOREM FrameFenceCorrect == Spec => []FrameFenceTruthful
<1>1. FrameInv => FrameFenceTruthful
      BY DEF FrameInv, OneFrame, FrameFenceTruthful
<1>2. QED
      BY <1>1, TypeInit, TypeStep, FrameInit, FrameStep, PTL DEF Spec
-----------------------------------------------------------------------------
(* Unless the fence of a one-time submission was lost, everything before   *)
(* Shutdown is released while the queue is empty: a one-time submission is the last in *)
(* the queue and its fence is awaited before anything else happens.        *)
LostOneTime == After({"oneTimeWait", "oneTimeReset"})

OneTimeLast ==
  /\ pc # "oneTimeWait" => ~InQueue("oneTime") /\ ~oneTimeFence
  /\ \A i \in 1..Len(gpuQueue) :
       gpuQueue[i].kind = "oneTime" => i = Len(gpuQueue)
  /\ oneTimeFence \/ pc = "commit" => gpuQueue = <<>>

\* The queue was waited for, unless a wait failed: what Shutdown destroys is
\* in use only when both did.
LostWaits == {"waitQueue", "waitDevice"} \subseteq faulted
WaitInv == pc = "waitDevice" => gpuQueue = <<>> \/ After({"waitQueue"})

ClobberInv ==
  \/ LostOneTime
  \/ OneTimeLast /\ WaitInv /\ (clobbered = {} \/ (LostWaits /\ pc = "done"))

LEMMA ClobberInit == Init => ClobberInv
BY DEF Init, ClobberInv, OneTimeLast, WaitInv, InQueue

\* The history of failures only grows.
LEMMA FaultedGrows ==
  ASSUME [Next]_vars
  PROVE  faulted \subseteq faulted'
<1>1. CASE UNCHANGED faultVars \/ \E f : Fail(f)
      BY <1>1 DEF faultVars, Fail
<1>2. ASSUME NEW w \in Windows, Acquire(w)
      PROVE  faulted \subseteq faulted'
      BY <1>2 DEF Acquire, Fail, faultVars
<1>3. QED
      BY <1>1, <1>2, NextSteps
      DEF vars, FinishLoad, GpuFinish, LoopTop, RunContinuation, DrainDone,
          PollWindow, NewFrame, WindowsDone, ResizeStart, OneTimeSubmit,
          OneTimeWait, Commit, WaitFrameFence, ResetFrameFence, ResetPool,
          Reacquire, Record, BeginPrimary, EndWindow, Pass, PassesDone,
          Submit, Present, WaitQueueIdle, Shutdown

\* Nothing is in use when the queue is empty, so nothing can be clobbered.
LEMMA EmptyQueueRelease ==
  ASSUME gpuQueue = <<>>, NEW S, Release(S)
  PROVE  clobbered' = clobbered
<1>1. GpuUses = {}
      BY DEF GpuUses
<1>2. QED
      BY <1>1 DEF Release

\* While a frame is being recorded, one-time submissions apart, the queue is
\* empty.
LEMMA RecordingQueueEmpty ==
  ASSUME TypeInv, FrameInv, OneTimeLast, Recording, pc # "oneTimeWait"
  PROVE  gpuQueue = <<>>
<1>1. gpuQueue \in Seq(Submission)
      BY DEF TypeInv, TypeOK, DeviceTypes
<1>2. \A i \in 1..Len(gpuQueue) : gpuQueue[i].kind \in {"frame", "oneTime"}
  <2>1. \A i \in 1..Len(gpuQueue) : gpuQueue[i] \in Submission
        BY <1>1
  <2>2. QED
        BY <2>1 DEF Submission
<1>3. 1..Len(gpuQueue) = {}
      BY <1>2 DEF FrameInv, OneTimeLast, InQueue
<1>4. Len(gpuQueue) = 0
  <2>1. Len(gpuQueue) \in Nat /\ 1 \notin 1..Len(gpuQueue)
        BY <1>1, <1>3, LenProperties
  <2>2. QED
        BY <2>1
<1>5. QED
      BY <1>1, <1>4, EmptySeq

\* Everything that is released is released while the queue is empty.
LEMMA ReleaseSafe ==
  ASSUME TypeInv, FrameInv, clobbered = {}, OneTimeLast, WaitInv, [Next]_vars,
         ~LostOneTime'
  PROVE  clobbered' = {} \/ (LostWaits' /\ pc' = "done")
<1>1. CASE gpuQueue = <<>> /\ \E S : Release(S)
      BY <1>1, EmptyQueueRelease
<1>2. CASE UNCHANGED clobbered
      BY <1>2
<1>3. CASE OneTimeWait
  <2>1. oneTimeFence
        BY <1>3 DEF OneTimeWait, OneTimeDone, Fail, LostOneTime, After
  <2>2. QED
        BY <1>1, <1>3, <2>1 DEF OneTimeWait, OneTimeLast
<1>4. CASE Commit
      BY <1>1, <1>2, <1>4 DEF Commit, OneTimeLast
<1>5. ASSUME NEW w \in Windows, Pass(w)
      PROVE  clobbered' = {}
  <2>1. pc = "passes" /\ Release({Uniforms})
        BY <1>5 DEF Pass
  <2>2. gpuQueue = <<>>
        BY <2>1, RecordingQueueEmpty DEF Recording
  <2>3. QED
        BY <2>1, <2>2, EmptyQueueRelease
<1>6. CASE ResetPool \/ Record \/ BeginPrimary \/ EndWindow
      BY <1>1, <1>2, <1>6, RecordingQueueEmpty
      DEF ResetPool, Record, BeginPrimary, EndWindow, Recording
<1>7. CASE Shutdown
  <2>1. CASE gpuQueue = <<>>
        BY <1>1, <1>7, <2>1 DEF Shutdown
  <2>2. CASE gpuQueue # <<>>
    <3>1. pc' = "done" /\ Fail("waitDevice") /\ "waitQueue" \in faulted
          BY <1>7, <2>2 DEF Shutdown, Idle, WaitInv, After
    <3>2. QED
          BY <3>1 DEF Fail, LostWaits
  <2>3. QED
        BY <2>1, <2>2
<1>8. QED
      BY <1>2, <1>3, <1>4, <1>5, <1>6, <1>7, NextSteps
      DEF vars, FinishLoad, GpuFinish, LoopTop, RunContinuation, DrainDone,
          PollWindow, NewFrame, WindowsDone, ResizeStart, OneTimeSubmit,
          WaitFrameFence, ResetFrameFence, Acquire, Reacquire, PassesDone,
          Submit, Present, WaitQueueIdle

\* Only the wait for the queue leads to the wait for the device, during which
\* nothing is submitted; after Shutdown nothing is released.
LEMMA WaitStep ==
  ASSUME TypeInv, WaitInv, [Next]_vars
  PROVE  WaitInv'
<1>1. CASE WaitQueueIdle
      BY <1>1 DEF WaitQueueIdle, Idle, Fail, WaitInv, After
<1>2. CASE GpuFinish /\ pc = "waitDevice"
  <2>1. gpuQueue # <<>> /\ UNCHANGED faulted
        BY <1>2 DEF GpuFinish, faultVars
  <2>2. QED
        BY <1>2, <2>1 DEF WaitInv, After
<1>3. CASE pc' # "waitDevice"
      BY <1>3 DEF WaitInv
<1>4. CASE UNCHANGED <<pc, gpuQueue, faulted>>
      BY <1>4 DEF WaitInv, After
<1>5. ASSUME NEW w \in Windows, PollWindow(w) \/ Acquire(w) \/ Pass(w)
      PROVE  pc' # "waitDevice"
      BY <1>5 DEF PollWindow, Acquire, Pass, GoOnOrCrash
<1>6. CASE ResizeStart \/ OneTimeSubmit \/ OneTimeWait \/ Commit
      BY <1>3, <1>6 DEF ResizeStart, OneTimeSubmit, OneTimeWait, Commit,
      Abandon,
                        Goto, TypeInv, TypeOK, ControlTypes
<1>7. QED
      BY <1>1, <1>2, <1>3, <1>4, <1>5, <1>6, NextSteps
      DEF vars, FinishLoad, GpuFinish, LoopTop, AfterLoopTop, RunContinuation,
          DrainDone, NewFrame, WindowsDone, WaitFrameFence, ResetFrameFence,
          ResetPool, Reacquire, Record, BeginPrimary, EndWindow, PassesDone,
          Submit, Present, Shutdown, Goto, GoOnOrCrash, control, faultVars

LEMMA DoneStep ==
  ASSUME TypeInv, pc = "done", [Next]_vars
  PROVE  pc' = "done" /\ UNCHANGED clobbered
<1>1. ASSUME NEW w \in Windows
      PROVE  ~(PollWindow(w) \/ Acquire(w) \/ Pass(w))
      BY DEF PollWindow, Acquire, Pass
<1>2. QED
      BY <1>1, NextSteps
      DEF vars, FinishLoad, GpuFinish, LoopTop, RunContinuation, DrainDone,
          NewFrame, WindowsDone, ResizeStart, OneTimeSubmit, OneTimeWait,
          Commit,
          WaitFrameFence, ResetFrameFence, ResetPool, Reacquire, Record,
          BeginPrimary, EndWindow, PassesDone, Submit, Present, WaitQueueIdle,
          Shutdown, control

LEMMA OneTimeLastStep ==
  ASSUME TypeInv, OneTimeLast, [Next]_vars, ~LostOneTime'
  PROVE  OneTimeLast'
<1>0. /\ gpuQueue \in Seq(Submission)
      /\ site \in {"drain", "begin", "end"}
      BY DEF TypeInv, TypeOK, ControlTypes, DeviceTypes
<1>1. CASE GpuFinish
  <2>1. /\ Len(gpuQueue') = Len(gpuQueue) - 1
        /\ \A i \in 1..Len(gpuQueue') : i + 1 \in 1..Len(gpuQueue)
                                       /\ gpuQueue'[i] = gpuQueue[i + 1]
        /\ 1 \in 1..Len(gpuQueue) /\ Head(gpuQueue) = gpuQueue[1]
        BY <1>0, <1>1 DEF GpuFinish
  <2>2. pc' = pc /\ pc # "commit" /\ ~oneTimeFence
        BY <1>1 DEF GpuFinish, control, OneTimeLast
  <2>3. \A i \in 1..Len(gpuQueue') :
          gpuQueue'[i].kind = "oneTime" => i = Len(gpuQueue')
        BY <2>1 DEF OneTimeLast
  <2>4. pc # "oneTimeWait" => ~InQueue("oneTime")' /\ ~oneTimeFence'
        BY <1>1, <2>1, <2>2 DEF GpuFinish, OneTimeLast, InQueue
  <2>5. oneTimeFence' => gpuQueue' = <<>>
    <3>1. SUFFICES ASSUME Head(gpuQueue).kind = "oneTime" PROVE gpuQueue' = <<>>
          BY <1>1, <2>2 DEF GpuFinish
    <3>2. Len(gpuQueue) = 1
          BY <2>1, <3>1 DEF OneTimeLast
    <3>3. QED
          BY <1>0, <1>1, <3>2 DEF GpuFinish
  <2>6. QED
        BY <2>2, <2>3, <2>4, <2>5 DEF OneTimeLast
<1>2. CASE OneTimeSubmit
  <2>1. ~InQueue("oneTime") /\ ~oneTimeFence'
        BY <1>2 DEF OneTimeSubmit, OneTimeLast, fences
  <2>2. CASE UNCHANGED gpuQueue /\ Abandon
        BY <1>0, <2>1, <2>2 DEF OneTimeLast, InQueue, Abandon, Goto
  <2>3. CASE pc' = "oneTimeWait" /\ gpuQueue' =
             Append(gpuQueue, [kind |-> "oneTime",
                               uses |-> {OneTimeBuffer, Pool}, blocked |-> {}])
    <3>1. /\ Len(gpuQueue') = Len(gpuQueue) + 1
          /\ \A i \in 1..Len(gpuQueue) : gpuQueue'[i] = gpuQueue[i]
          BY <1>0, <2>3
    <3>2. \A i \in 1..Len(gpuQueue') : i \in 1..Len(gpuQueue) \/ i = Len(gpuQueue')
          BY <1>0, <3>1
    <3>3. QED
          BY <2>1, <2>3, <3>1, <3>2 DEF OneTimeLast, InQueue
  <2>4. QED
        BY <1>2, <2>2, <2>3 DEF OneTimeSubmit, Goto
<1>3. CASE Submit
  <2>1. ~InQueue("oneTime") /\ ~oneTimeFence' /\ pc' = "present"
        BY <1>3 DEF Submit, OneTimeLast, fences, Goto
  <2>2. CASE UNCHANGED gpuQueue
        BY <2>1, <2>2 DEF OneTimeLast, InQueue
  <2>3. CASE gpuQueue' = Append(gpuQueue, Frame)
    <3>1. /\ Len(gpuQueue') = Len(gpuQueue) + 1
          /\ \A i \in 1..Len(gpuQueue) : gpuQueue'[i] = gpuQueue[i]
          /\ gpuQueue'[Len(gpuQueue) + 1].kind = "frame"
          BY <1>0, <2>3 DEF Frame
    <3>2. ~InQueue("oneTime")'
          BY <1>0, <2>1, <3>1 DEF InQueue
    <3>3. QED
          BY <2>1, <3>2 DEF OneTimeLast, InQueue
  <2>4. QED
        BY <1>3, <2>2, <2>3 DEF Submit
<1>4. CASE OneTimeWait
  <2>1. oneTimeFence /\ gpuQueue' = <<>> /\ ~oneTimeFence'
        BY <1>4 DEF OneTimeWait, OneTimeDone, Fail, LostOneTime, After,
        OneTimeLast
  <2>2. QED
        BY <2>1 DEF OneTimeLast, InQueue
<1>5. CASE UNCHANGED <<oneTimeFence, gpuQueue, pc>>
      BY <1>5 DEF OneTimeLast, InQueue
<1>6. CASE UNCHANGED <<oneTimeFence, gpuQueue>> /\ pc # "oneTimeWait"
           /\ pc' \notin {"oneTimeWait", "commit"}
      BY <1>6 DEF OneTimeLast, InQueue
<1>7. ASSUME NEW w \in Windows, PollWindow(w) \/ Acquire(w) \/ Pass(w)
      PROVE  OneTimeLast'
      BY <1>5, <1>6, <1>7 DEF PollWindow, Acquire, Pass, GoOnOrCrash, fences
<1>8. CASE ResizeStart \/ Commit
      BY <1>0, <1>6, <1>8 DEF ResizeStart, Commit, Abandon, Goto, fences
<1>9. CASE LoopTop \/ DrainDone \/ WindowsDone \/ WaitQueueIdle \/ Shutdown
    \/ NewFrame
             \/ RunContinuation
      BY <1>5, <1>6, <1>9
      DEF LoopTop, AfterLoopTop, DrainDone, WindowsDone, WaitQueueIdle,
      Shutdown, NewFrame,
          RunContinuation, Goto, fences, control
<1>10. CASE WaitFrameFence \/ ResetFrameFence \/ ResetPool \/ Reacquire
              \/ Record \/ BeginPrimary \/ EndWindow \/ PassesDone \/ Present
      BY <1>6, <1>10 DEF WaitFrameFence, ResetFrameFence, ResetPool, Reacquire,
                         Record, BeginPrimary, EndWindow, PassesDone, Present,
                         Goto, GoOnOrCrash, fences
<1>11. QED
      BY <1>1, <1>2, <1>3, <1>4, <1>5, <1>7, <1>8, <1>9, <1>10, NextSteps
      DEF vars, FinishLoad, fences, control

LEMMA ClobberStep == TypeInv /\ FrameInv /\ ClobberInv /\ [Next]_vars => ClobberInv'
<1> SUFFICES ASSUME TypeInv, FrameInv, ClobberInv, [Next]_vars, ~LostOneTime'
             PROVE  /\ OneTimeLast' /\ WaitInv'
                    /\ clobbered' = {} \/ (LostWaits' /\ pc' = "done")
    BY DEF ClobberInv
<1>1. ~LostOneTime
      BY FaultedGrows DEF LostOneTime, After
<1>2. OneTimeLast' /\ WaitInv'
      BY <1>1, OneTimeLastStep, WaitStep DEF ClobberInv
<1>3. CASE clobbered = {}
      BY <1>1, <1>2, <1>3, ReleaseSafe DEF ClobberInv
<1>4. CASE LostWaits /\ pc = "done"
  <2>1. LostWaits' /\ pc' = "done"
        BY <1>4, FaultedGrows, DoneStep DEF LostWaits
  <2>2. QED
        BY <1>2, <2>1
<1>5. QED
      BY <1>1, <1>3, <1>4 DEF ClobberInv

\* Nothing is destroyed, freed, reset or rewritten under a submission that
\* uses it, unless the fence of a one-time submission was lost or both waits
\* of Shutdown failed.
THEOREM NothingClobberedCorrect == Spec => []NothingClobbered
<1>1. ClobberInv => NothingClobbered
      BY DEF ClobberInv, NothingClobbered, LostOneTime, LostWaits
<1>2. QED
      BY <1>1, TypeInit, TypeStep, FrameInit, FrameStep, ClobberInit,
      ClobberStep,
         PTL DEF Spec
-----------------------------------------------------------------------------
(* Refinement: a frame is begun by the fence wait, cancelled by a failed   *)
(* reset, submission or Close, submitted, and finished by the GPU.         *)
LEMMA OwnershipInit == Init => Ownership!Init
BY DEF Init, Ownership!Init, InQueue, Recording

LEMMA OwnershipStep ==
  ASSUME TypeInv, FrameInv, [Next]_vars
  PROVE  [Ownership!Next]_Ownership!vars
<1> DEFINE Same == UNCHANGED <<InQueue("frame"), Recording>>
<1>0. /\ gpuQueue \in Seq(Submission) /\ OneFrame
      /\ site \in {"drain", "begin", "end"}
      BY DEF TypeInv, TypeOK, ControlTypes, DeviceTypes, FrameInv
<1>b. /\ Recording \in BOOLEAN /\ Recording' \in BOOLEAN
      /\ InQueue("frame") \in BOOLEAN /\ InQueue("frame")' \in BOOLEAN
      BY DEF Recording, InQueue
<1>1. CASE Same
      BY <1>1 DEF Ownership!vars
<1>2. CASE UNCHANGED InQueue("frame") /\ ~Recording'
  <2>1. CASE Recording
        BY <1>2, <2>1 DEF Ownership!Next, Ownership!Cancel
  <2>2. QED
        BY <1>b, <1>1, <1>2, <2>1
<1>3. CASE GpuFinish
  <2>1. Recording' = Recording
        BY <1>3 DEF GpuFinish, Recording, control
  <2>2. CASE InQueue("frame") /\ ~InQueue("frame")'
        BY <2>1, <2>2 DEF Ownership!Next, Ownership!Finish
  <2>3. QED
        BY <1>0, <1>1, <1>3, <2>1, <2>2, FrameFinishes DEF InQueue
<1>4. CASE WaitFrameFence
  <2>1. UNCHANGED InQueue("frame") /\ ~Recording
        BY <1>4 DEF WaitFrameFence, InQueue, Recording
  <2>2. CASE ~Recording'
        BY <1>2, <2>1, <2>2
  <2>3. CASE Recording'
    <3>1. ~InQueue("frame")
          BY <1>4, <2>3 DEF WaitFrameFence, FrameDone, FrameInv, Recording,
          Goto
    <3>2. QED
          BY <2>1, <2>3, <3>1 DEF Ownership!Next, Ownership!Begin
  <2>4. QED
        BY <2>2, <2>3
<1>5. CASE Submit
  <2>1. Recording /\ ~InQueue("frame") /\ ~Recording'
        BY <1>5 DEF Submit, Recording, Goto, FrameInv
  <2>2. CASE InQueue("frame")'
        BY <2>1, <2>2 DEF Ownership!Next, Ownership!Submit
  <2>3. QED
        BY <1>b, <1>2, <2>1, <2>2
<1>6. CASE OneTimeSubmit
  <2>1. UNCHANGED InQueue("frame")
    <3>1. CASE UNCHANGED gpuQueue
          BY <3>1 DEF InQueue
    <3>2. CASE gpuQueue' = Append(gpuQueue, [kind |-> "oneTime",
                             uses |-> {OneTimeBuffer, Pool}, blocked |-> {}])
      <4>1. /\ Len(gpuQueue') = Len(gpuQueue) + 1
            /\ \A i \in 1..Len(gpuQueue) : gpuQueue'[i] = gpuQueue[i]
            /\ gpuQueue'[Len(gpuQueue) + 1].kind # "frame"
            BY <1>0, <3>2
      <4>2. QED
            BY <1>0, <4>1 DEF InQueue
    <3>3. QED
          BY <1>6, <3>1, <3>2 DEF OneTimeSubmit
  <2>2. Recording' => Recording
        BY <1>0, <1>6 DEF OneTimeSubmit, Recording, Goto, Abandon
  <2>3. QED
        BY <1>b, <1>1, <1>2, <2>1, <2>2
<1>7. CASE UNCHANGED gpuQueue /\ (Recording' => Recording)
  <2>1. UNCHANGED InQueue("frame")
        BY <1>7 DEF InQueue
  <2>2. QED
        BY <1>b, <1>1, <1>2, <1>7, <2>1
<1>8. ASSUME NEW w \in Windows, PollWindow(w) \/ Acquire(w) \/ Pass(w)
      PROVE  UNCHANGED gpuQueue /\ (Recording' => Recording)
      BY <1>8 DEF PollWindow, Acquire, Pass, Recording
<1>9. CASE ResizeStart \/ OneTimeWait \/ Commit
      BY <1>0, <1>7, <1>9 DEF ResizeStart, OneTimeWait, Commit, Abandon, Goto,
                              Recording
<1>10. CASE LoopTop \/ DrainDone \/ WindowsDone \/ WaitQueueIdle
    \/ Shutdown \/ NewFrame
              \/ RunContinuation
      BY <1>7, <1>10
      DEF LoopTop, AfterLoopTop, DrainDone, WindowsDone, WaitQueueIdle,
      Shutdown, NewFrame,
          RunContinuation, Goto, Recording, control
<1>11. CASE ResetFrameFence \/ ResetPool \/ Reacquire \/ Record
              \/ BeginPrimary \/ EndWindow \/ PassesDone \/ Present
      BY <1>7, <1>11 DEF ResetFrameFence, ResetPool, Reacquire, Record,
      BeginPrimary, EndWindow, PassesDone,
                         Present, Goto, Recording
<1>12. CASE UNCHANGED <<gpuQueue, control>>
      BY <1>7, <1>12 DEF Recording, control
<1>13. QED
      BY <1>3, <1>4, <1>5, <1>6, <1>7, <1>8, <1>9, <1>10, <1>11, <1>12,
      NextSteps
      DEF vars, FinishLoad

\* The frame loop implements FrameOwnership: the per-frame resources pass to
\* the GPU only by submitting a frame that was begun while the CPU had them.
THEOREM OwnershipRefined == Spec => RefinesOwnership
<1>1. QED
      BY TypeInit, TypeStep, FrameInit, FrameStep, OwnershipInit,
      OwnershipStep,
         PTL DEF Spec, RefinesOwnership, Ownership!Spec
=============================================================================
