----------------------------- MODULE Lifecycle -----------------------------
(***************************************************************************)
(* The life of the renderer as iris-viewer leads it: Initialize, which     *)
(* runs twelve functions that each fill some of the renderer's global      *)
(* handles and may fail at any object; the frame loop, which adds windows  *)
(* and meshes; and Shutdown, which destroys everything in an order of its  *)
(* own.  What the GPU does meanwhile, and the two waits of Shutdown with   *)
(* their ignored results, are in FrameLoop.                                *)
(*                                                                         *)
(* Nothing else runs while Initialize or Shutdown does, so each of their   *)
(* functions is one step.                                                  *)
(***************************************************************************)
EXTENDS Integers, Sequences, SequencesExt

CONSTANTS
  Threads,      \* default_num_threads(): command and descriptor pools
  Windows,      \* windows the frame loop may open
  Meshes,       \* meshes it may load
  Retries,      \* the application calls Initialize again after an error
  MaxFailures   \* bound: functions of Initialize that fail

ASSUME LifecycleAssumption ==
  /\ Threads \in Nat \ {0}
  /\ Windows \cap Meshes = {}
  /\ Retries \in BOOLEAN
  /\ MaxFailures \in Nat

Global(name) == <<name, 0>>
CommandPool(i) == <<"commandPool", i>>
DescriptorPool(i) == <<"descriptorPool", i>>
Window(w) == <<"window", w>>
Mesh(m) == <<"mesh", m>>

CommandPools == {CommandPool(i) : i \in 1..Threads}
DescriptorPools == {DescriptorPool(i) : i \in 1..Threads}

\* The functions of Initialize, in order.
NextFunction ==
  [InitializeProcess |-> "InitInstance",
   InitInstance |-> "CreateDebugUtilsMessenger",
   CreateDebugUtilsMessenger |-> "ChoosePhysicalDevice",
   ChoosePhysicalDevice |-> "CreateDeviceAndQueues",
   CreateDeviceAndQueues |-> "CreateCommandPools",
   CreateCommandPools |-> "CreateDescriptorPools",
   CreateDescriptorPools |-> "CreateFencesAndSemaphores",
   CreateFencesAndSemaphores |-> "CreateAllocator",
   CreateAllocator |-> "CreateRenderPass",
   CreateRenderPass |-> "AllocateCommandBuffers",
   AllocateCommandBuffers |-> "CreateUniformBuffers",
   CreateUniformBuffers |-> "CreateDescriptorSets",
   CreateDescriptorSets |-> "running"]

\* The objects whose handles are global, but for the physical device, which
\* nobody creates or destroys.
Globals ==
  {Global(n) : n \in {"glslang", "instance", "messenger", "device",
     "oneTimeSubmitFence", "frameComplete", "imagesReadyForPresent",
     "allocator", "renderPass", "commandBuffers", "matrixBuffer",
     "lightBuffer", "descriptorSetLayout", "descriptorSets"}}
  \cup CommandPools \cup DescriptorPools

Objects == Globals \cup {Window(w) : w \in Windows} \cup {Mesh(m) : m \in Meshes}

\* What must exist for an object to be created and to be destroyed.
Parents(o) ==
  CASE o \in {Global("glslang"), Global("instance")} -> {}
    [] o \in {Global("messenger"), Global("device")} -> {Global("instance")}
    [] o = Global("commandBuffers") -> {CommandPool(1)}
    [] o = Global("descriptorSets") -> {DescriptorPool(1)}
    [] o \in {Global("matrixBuffer"), Global("lightBuffer")} -> {Global("allocator")}
    [] o[1] \in {"window", "mesh"} ->
         {Global("instance"), Global("device"), Global("allocator"),
          CommandPool(1), DescriptorPool(1)}
    [] OTHER -> {Global("device")}

VARIABLES
  pc,           \* the function of Initialize that is next, or a phase
  initialized,  \* sInitialized
  running,      \* sRunning
  handles,      \* globals that are not VK_NULL_HANDLE, or not empty
  exist,        \* objects that exist
  destroyed,    \* how far Shutdown is in DestroyOrder
  failures      \* how many functions of Initialize have failed

vars == <<pc, initialized, running, handles, exist, destroyed, failures>>
loopVars == <<initialized, running, destroyed>>

\* Shutdown's destructions.  Destroying a pool frees what was allocated from it.
DestroyOrderAllocatorFirst ==
  <<{Mesh(m) : m \in Meshes}, {Window(w) : w \in Windows},
    {Global("allocator")},
    {Global("matrixBuffer")}, {Global("lightBuffer")},
    {Global("descriptorSetLayout")}, {Global("commandBuffers")},
    {Global("renderPass")}, {Global("imagesReadyForPresent")},
    {Global("frameComplete")}, {Global("oneTimeSubmitFence")},
    DescriptorPools \cup {Global("descriptorSets")}, CommandPools,
    {Global("device")}, {Global("messenger")}, {Global("instance")},
    {Global("glslang")}>>

DestroyOrder ==
  <<{Mesh(m) : m \in Meshes}, {Window(w) : w \in Windows},
    {Global("matrixBuffer")}, {Global("lightBuffer")},
    {Global("descriptorSetLayout")}, {Global("commandBuffers")},
    {Global("renderPass")}, {Global("allocator")},
    {Global("imagesReadyForPresent")}, {Global("frameComplete")},
    {Global("oneTimeSubmitFence")},
    DescriptorPools \cup {Global("descriptorSets")}, CommandPools,
    {Global("device")}, {Global("messenger")}, {Global("instance")},
    {Global("glslang")}>>

Phases == {"running", "destroy", "failed", "terminated", "exited"}

TypeOK ==
  /\ pc \in DOMAIN NextFunction \cup Phases
  /\ initialized \in BOOLEAN /\ running \in BOOLEAN
  /\ handles \subseteq Globals \cup {Global("physicalDevice")}
  /\ exist \subseteq Objects
  /\ destroyed \in 0..Len(DestroyOrder)
  /\ failures \in 0..MaxFailures
  /\ initialized => exist \subseteq handles \cup (Objects \ Globals)

Init ==
  /\ pc = "InitializeProcess"
  /\ initialized = FALSE /\ running = FALSE
  /\ handles = {} /\ exist = {}
  /\ destroyed = 0
  /\ failures = 0
-----------------------------------------------------------------------------
(* Initialize.                                                             *)

\* Function f creates the objects in order and returns an error at the first
\* it cannot create; what it has created stays.  An Expects that does not hold
\* ends the process.
AfterErrorGoOn(f) == NextFunction[f]
AfterError(f) == "failed"

\* The handles filled when the objects of S have been created.
FilledOneBuffer(S) == S \ {Global("lightBuffer")}
Filled(S) == S

Function(f, expectsSet, expectsNull, creates) ==
  /\ pc = f
  /\ IF expectsSet \subseteq handles /\ expectsNull \cap handles = {}
     THEN \E n \in 0..Len(creates) :
            /\ handles' = handles \cup Filled(ToSet(SubSeq(creates, 1, n)))
            /\ exist' = exist \cup (ToSet(SubSeq(creates, 1, n)) \cap Objects)
            /\ \/ n = Len(creates) /\ pc' = NextFunction[f] /\ UNCHANGED failures
               \/ /\ n < Len(creates) /\ failures < MaxFailures
                  /\ failures' = failures + 1
                  /\ pc' = AfterError(f)
     ELSE pc' = "terminated" /\ UNCHANGED <<handles, exist, failures>>

\* The task scheduler and glslang are started; neither reports an error.
InitializeProcess ==
  /\ pc = "InitializeProcess"
  /\ pc' = NextFunction[pc]
  /\ handles' = handles \cup {Global("glslang")}
  /\ exist' = exist \cup {Global("glslang")}
  /\ UNCHANGED <<loopVars, failures>>

InitInstance ==
  /\ Function("InitInstance", {}, {Global("instance")}, <<Global("instance")>>)
  /\ UNCHANGED loopVars

\* Not called without kReportDebugMessages, and its error is only logged.
CreateDebugUtilsMessenger ==
  /\ \/ Function("CreateDebugUtilsMessenger", {Global("instance")},
                 {Global("messenger")}, <<Global("messenger")>>)
        /\ pc' # "failed"
     \/ /\ pc = "CreateDebugUtilsMessenger" /\ pc' = NextFunction[pc]
        /\ UNCHANGED <<handles, exist, failures>>
  /\ UNCHANGED loopVars

ChoosePhysicalDevice ==
  /\ Function("ChoosePhysicalDevice", {Global("instance")},
              {Global("physicalDevice")}, <<Global("physicalDevice")>>)
  /\ UNCHANGED loopVars

CreateDeviceAndQueues ==
  /\ Function("CreateDeviceAndQueues", {Global("physicalDevice")},
              {Global("device")}, <<Global("device")>>)
  /\ UNCHANGED loopVars

CreateCommandPools ==
  /\ Function("CreateCommandPools", {Global("device")}, CommandPools,
              [i \in 1..Threads |-> CommandPool(i)])
  /\ UNCHANGED loopVars

CreateDescriptorPools ==
  /\ Function("CreateDescriptorPools", {Global("device")}, DescriptorPools,
              [i \in 1..Threads |-> DescriptorPool(i)])
  /\ UNCHANGED loopVars

CreateFencesAndSemaphores ==
  LET creates == <<Global("oneTimeSubmitFence"), Global("frameComplete"),
                   Global("imagesReadyForPresent")>>
  IN /\ Function("CreateFencesAndSemaphores", {Global("device")}, ToSet(creates),
                 creates)
     /\ UNCHANGED loopVars

CreateAllocator ==
  /\ Function("CreateAllocator", {Global("physicalDevice"), Global("device")},
              {Global("allocator")}, <<Global("allocator")>>)
  /\ UNCHANGED loopVars

CreateRenderPass ==
  /\ Function("CreateRenderPass", {Global("device")}, {Global("renderPass")},
              <<Global("renderPass")>>)
  /\ UNCHANGED loopVars

AllocateCommandBuffers ==
  /\ Function("AllocateCommandBuffers", {Global("device")},
              {Global("commandBuffers")}, <<Global("commandBuffers")>>)
  /\ UNCHANGED loopVars

CreateUniformBuffers ==
  /\ Function("CreateUniformBuffers", {Global("device")}, {},
              <<Global("matrixBuffer"), Global("lightBuffer")>>)
  /\ UNCHANGED loopVars

\* The last function; Initialize has succeeded with it.
CreateDescriptorSets ==
  /\ Function("CreateDescriptorSets", {Global("device")}, {},
              <<Global("descriptorSetLayout"), Global("descriptorSets")>>)
  /\ initialized' = (pc' = "running")
  /\ running' = (pc' = "running")
  /\ UNCHANGED destroyed

\* iris-viewer exits without Shutdown when Initialize returns an error;
\* another application may call it again.
AfterFailure ==
  /\ pc = "failed"
  /\ pc' = IF Retries THEN "InitializeProcess" ELSE "exited"
  /\ UNCHANGED <<loopVars, handles, exist, failures>>
-----------------------------------------------------------------------------
(* The frame loop, as far as it creates objects.                           *)
Load ==
  /\ pc = "running" /\ running
  /\ \E o \in Objects \ (Globals \cup exist) : exist' = exist \cup {o}
  /\ UNCHANGED <<pc, loopVars, handles, failures>>

\* The close event of a window.
Terminate ==
  /\ pc = "running" /\ running
  /\ running' = FALSE
  /\ UNCHANGED <<pc, initialized, handles, exist, destroyed, failures>>

\* IsRunning() is false: the application calls Shutdown, which goes on to
\* destroy whatever its waits for the queue and the device return.
LeaveLoop ==
  /\ pc = "running" /\ ~running
  /\ pc' = "destroy"
  /\ UNCHANGED <<loopVars, handles, exist, failures>>
-----------------------------------------------------------------------------
(* Shutdown.                                                               *)
\* A global is destroyed if its handle is not null; the handle stays as it is.
DestroyedBy(S) == S \cap (handles \cup (Objects \ Globals))

Destroy ==
  /\ pc = "destroy"
  /\ destroyed < Len(DestroyOrder)
  /\ exist' = exist \ DestroyedBy(DestroyOrder[destroyed + 1])
  /\ destroyed' = destroyed + 1
  /\ UNCHANGED <<pc, initialized, running, handles, failures>>

Exit ==
  /\ pc = "destroy"
  /\ destroyed = Len(DestroyOrder)
  /\ pc' = "exited"
  /\ UNCHANGED <<loopVars, handles, exist, failures>>

Ended == pc \in {"exited", "terminated"} /\ UNCHANGED vars
-----------------------------------------------------------------------------
Initialize ==
  \/ InitializeProcess \/ InitInstance \/ CreateDebugUtilsMessenger
  \/ ChoosePhysicalDevice \/ CreateDeviceAndQueues \/ CreateCommandPools
  \/ CreateDescriptorPools \/ CreateFencesAndSemaphores \/ CreateAllocator
  \/ CreateRenderPass \/ AllocateCommandBuffers \/ CreateUniformBuffers
  \/ CreateDescriptorSets

FrameLoop == Load \/ Terminate \/ LeaveLoop

Shutdown == Destroy \/ Exit

Next == Initialize \/ AfterFailure \/ FrameLoop \/ Shutdown \/ Ended

Spec == Init /\ [][Next]_vars
-----------------------------------------------------------------------------
(***************************************************************************)
(* Properties                                                              *)
(***************************************************************************)

\* "Each function is called in-order and assumes the previous functions have
\* all be called" (Initialize), and Shutdown's order suits it: no object
\* exists without those it was made from.
ParentsExist == \A o \in exist : Parents(o) \subseteq exist

\* Once Initialize has succeeded every handle is filled that the frame loop
\* uses, the debug messenger being the only one that may be missing.
InitializedComplete ==
  initialized => Globals \ {Global("messenger")} \subseteq handles

\* After Shutdown nothing of the renderer is left, a window or mesh opened or
\* loaded in the last frame included.
ShutdownLeavesNothing == pc = "exited" /\ initialized => exist = {}

\* "Expects(sInstance == VK_NULL_HANDLE)" (InitInstance) and the other
\* contracts of Initialize's functions hold whenever it is called.
ExpectsHold == pc # "terminated"
=============================================================================
