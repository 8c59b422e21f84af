--------------------------- MODULE LifecycleProofs ---------------------------
(***************************************************************************)
(* Proofs about Lifecycle, for any number of threads, windows, meshes,     *)
(* failures and calls of Initialize.                                       *)
(***************************************************************************)
EXTENDS Lifecycle, SequenceTheorems, TLAPS

Functions == DOMAIN NextFunction
Others == Objects \ Globals
Required == Globals \ {Global("messenger")}
Root == {Global("instance"), Global("device"), Global("allocator"),
         CommandPool(1), DescriptorPool(1)}

\* What each function of Initialize finds when those before have succeeded.
MadeProcess == {Global("glslang")}
MadeInstance == MadeProcess \cup {Global("instance")}
MadeDevice == MadeInstance \cup {Global("device")}
MadeCommandPools == MadeDevice \cup CommandPools
MadeDescriptorPools == MadeCommandPools \cup DescriptorPools
MadeFences == MadeDescriptorPools \cup
  {Global("oneTimeSubmitFence"), Global("frameComplete"), Global("imagesReadyForPresent")}
MadeAllocator == MadeFences \cup {Global("allocator")}
MadeRenderPass == MadeAllocator \cup {Global("renderPass")}
MadeCommandBuffers == MadeRenderPass \cup {Global("commandBuffers")}
MadeBuffers == MadeCommandBuffers \cup {Global("matrixBuffer"), Global("lightBuffer")}

Made(f) ==
  CASE f = "InitializeProcess" -> {}
    [] f = "InitInstance" -> MadeProcess
    [] f \in {"CreateDebugUtilsMessenger", "ChoosePhysicalDevice",
              "CreateDeviceAndQueues"} -> MadeInstance
    [] f = "CreateCommandPools" -> MadeDevice
    [] f = "CreateDescriptorPools" -> MadeCommandPools
    [] f = "CreateFencesAndSemaphores" -> MadeDescriptorPools
    [] f = "CreateAllocator" -> MadeFences
    [] f = "CreateRenderPass" -> MadeAllocator
    [] f = "AllocateCommandBuffers" -> MadeRenderPass
    [] f = "CreateUniformBuffers" -> MadeCommandBuffers
    [] f = "CreateDescriptorSets" -> MadeBuffers
    [] OTHER -> Required

TypeInv == TypeOK /\ exist \subseteq handles \cup Others

\* Initialize has succeeded from the frame loop on, and before its end nothing is
\* destroyed.
PhaseInv ==
  /\ pc \in Functions \cup {"failed", "terminated"} => ~initialized
  /\ pc \in {"running", "destroy"} => initialized
  /\ pc \in Functions \cup {"failed", "running"} => destroyed = 0

\* What has been made is there, until Shutdown destroys it, and its handles
\* are filled even after that.
MadeInv ==
  /\ pc \in Functions => Made(pc) \subseteq exist \cap handles
  /\ pc = "running" => Required \subseteq exist

\* What Shutdown has destroyed does not exist.
GoneInv ==
  /\ pc = "destroy" => \A i \in 1..destroyed : exist \cap DestroyOrder[i] = {}
  /\ pc = "exited" /\ initialized => exist = {}

Inv == TypeInv /\ PhaseInv /\ MadeInv /\ InitializedComplete /\ GoneInv /\ ParentsExist
-----------------------------------------------------------------------------
\* The objects of the prefix of a function's objects that it has created.
LEMMA PrefixOfAll ==
  ASSUME NEW S, NEW c \in Seq(S), NEW n \in 0..Len(c)
  PROVE  /\ ToSet(SubSeq(c, 1, n)) \subseteq ToSet(c)
         /\ n = Len(c) => ToSet(SubSeq(c, 1, n)) = ToSet(c)
<1>1. Len(c) \in Nat /\ DOMAIN c = 1..Len(c) /\ \A i \in 1..n : c[i] \in S
      OBVIOUS
<1>2. /\ SubSeq(c, 1, n) \in Seq(S)
      /\ Len(SubSeq(c, 1, n)) = n
      /\ \A i \in 1..n : SubSeq(c, 1, n)[i] = c[i]
  <2>1. n \in Int /\ 1 \in Int /\ \A i \in 1..n : c[i] \in S
        BY <1>1
  <2>2. /\ SubSeq(c, 1, n) \in Seq(S)
        /\ Len(SubSeq(c, 1, n)) = IF 1 <= n THEN n - 1 + 1 ELSE 0
        /\ \A i \in 1..(n - 1 + 1) : SubSeq(c, 1, n)[i] = c[1 + i - 1]
        BY <2>1, SubSeqProperties
  <2>3. QED
        BY <2>1, <2>2
<1>3. DOMAIN SubSeq(c, 1, n) = 1..n
      BY <1>2
<1>4. ToSet(SubSeq(c, 1, n)) = {c[i] : i \in 1..n}
      BY <1>2, <1>3 DEF ToSet
<1>5. ToSet(c) = {c[i] : i \in 1..Len(c)}
      BY <1>1 DEF ToSet
<1>6. 1..n \subseteq 1..Len(c)
      BY <1>1
<1>7. QED
      BY <1>4, <1>5, <1>6

LEMMA GlobalsAreObjects ==
  /\ Globals \subseteq Objects
  /\ Root \subseteq Required
  /\ \A o \in Others : o \in {Window(w) : w \in Windows} \cup {Mesh(m) : m \in Meshes}
BY LifecycleAssumption DEF Others, Root, Required, Objects, Globals, CommandPools,
   DescriptorPools, Global, CommandPool, DescriptorPool

\* Windows and meshes are made from what Initialize has made, and no object
\* from anything else than these five.
LEMMA ParentsOf ==
  /\ \A o : Parents(o) \subseteq Root
  /\ Parents(Global("glslang")) = {} /\ Parents(Global("instance")) = {}
  /\ \A n \in {"messenger", "device"} : Parents(Global(n)) = {Global("instance")}
  /\ Parents(Global("commandBuffers")) = {CommandPool(1)}
  /\ Parents(Global("descriptorSets")) = {DescriptorPool(1)}
  /\ \A n \in {"matrixBuffer", "lightBuffer"} : Parents(Global(n)) = {Global("allocator")}
  /\ \A n \in {"oneTimeSubmitFence", "frameComplete", "imagesReadyForPresent",
               "allocator", "renderPass", "descriptorSetLayout"} :
       Parents(Global(n)) = {Global("device")}
  /\ \A i : Parents(CommandPool(i)) = {Global("device")}
  /\ \A i : Parents(DescriptorPool(i)) = {Global("device")}
BY DEF Parents, Root, Global, CommandPool, DescriptorPool

LEMMA FunctionsAre ==
  /\ Functions = {"InitializeProcess", "InitInstance", "CreateDebugUtilsMessenger",
       "ChoosePhysicalDevice", "CreateDeviceAndQueues", "CreateCommandPools",
       "CreateDescriptorPools", "CreateFencesAndSemaphores", "CreateAllocator",
       "CreateRenderPass", "AllocateCommandBuffers", "CreateUniformBuffers",
       "CreateDescriptorSets"}
  /\ Functions \cap Phases = {}
  /\ \A f \in Functions : NextFunction[f] \in Functions \cup {"running"}
BY DEF Functions, NextFunction, Phases

LEMMA MadeOf ==
  /\ Made("InitializeProcess") = {}
  /\ Made("InitInstance") = MadeProcess
  /\ Made("CreateDebugUtilsMessenger") = MadeInstance
  /\ Made("ChoosePhysicalDevice") = MadeInstance
  /\ Made("CreateDeviceAndQueues") = MadeInstance
  /\ Made("CreateCommandPools") = MadeDevice
  /\ Made("CreateDescriptorPools") = MadeCommandPools
  /\ Made("CreateFencesAndSemaphores") = MadeDescriptorPools
  /\ Made("CreateAllocator") = MadeFences
  /\ Made("CreateRenderPass") = MadeAllocator
  /\ Made("AllocateCommandBuffers") = MadeRenderPass
  /\ Made("CreateUniformBuffers") = MadeCommandBuffers
  /\ Made("CreateDescriptorSets") = MadeBuffers
  /\ Made("running") = Required
BY DEF Made

\* What a function of Initialize does, whichever objects it creates.
LEMMA FunctionDoes ==
  ASSUME NEW f, NEW E, NEW N, NEW S, NEW c \in Seq(S), Function(f, E, N, c)
  PROVE  /\ pc = f
         /\ handles \subseteq handles' /\ handles' \subseteq handles \cup ToSet(c)
         /\ exist \subseteq exist' /\ exist' \subseteq exist \cup (ToSet(c) \cap Objects)
         /\ exist' \ exist \subseteq handles'
         /\ \/ pc' \in {"failed", "terminated"}
            \/ pc' = NextFunction[f] /\ ToSet(c) \cap Objects \subseteq exist' \cap handles'
         /\ failures' = failures \/ (failures < MaxFailures /\ failures' = failures + 1)
<1>1. CASE pc' = "terminated" /\ UNCHANGED <<handles, exist, failures>> /\ pc = f
      BY <1>1
<1>2. ASSUME NEW n \in 0..Len(c), pc = f,
             handles' = handles \cup ToSet(SubSeq(c, 1, n)),
             exist' = exist \cup (ToSet(SubSeq(c, 1, n)) \cap Objects),
             \/ n = Len(c) /\ pc' = NextFunction[f] /\ UNCHANGED failures
             \/ /\ n < Len(c) /\ failures < MaxFailures
                /\ failures' = failures + 1
                /\ pc' = "failed"
      PROVE  /\ handles \subseteq handles' /\ handles' \subseteq handles \cup ToSet(c)
             /\ exist \subseteq exist' /\ exist' \subseteq exist \cup (ToSet(c) \cap Objects)
             /\ exist' \ exist \subseteq handles'
             /\ \/ pc' \in {"failed", "terminated"}
                \/ pc' = NextFunction[f] /\ ToSet(c) \cap Objects \subseteq exist' \cap handles'
             /\ failures' = failures \/ (failures < MaxFailures /\ failures' = failures + 1)
      BY <1>2, PrefixOfAll
<1>3. QED
      BY <1>1, <1>2 DEF Function, Filled, AfterError

\* Whatever it creates, a function that is given what it is made from keeps
\* the invariant, all of it or some of it created.
LEMMA FunctionStep ==
  ASSUME Inv, NEW f \in Functions, NEW E, NEW N,
         NEW c \in Seq(Globals \cup {Global("physicalDevice")}),
         Function(f, E, N, c),
         \A o \in ToSet(c) \cap Objects : Parents(o) \subseteq Made(f),
         Made(NextFunction[f]) \subseteq Made(f) \cup (ToSet(c) \cap Objects),
         initialized' = (pc' = "running"), running' \in BOOLEAN,
         UNCHANGED destroyed
  PROVE  Inv'
<1> DEFINE C == ToSet(c) \cap Objects
<1>1. /\ pc = f
      /\ handles \subseteq handles' /\ handles' \subseteq handles \cup ToSet(c)
      /\ exist \subseteq exist' /\ exist' \subseteq exist \cup C
      /\ exist' \ exist \subseteq handles'
      /\ \/ pc' \in {"failed", "terminated"}
         \/ pc' = NextFunction[f] /\ C \subseteq exist' \cap handles'
      /\ failures' = failures \/ (failures < MaxFailures /\ failures' = failures + 1)
      BY FunctionDoes
<1>2. pc' \in Functions \cup {"failed", "terminated", "running"} /\ pc' # "destroy"
      BY <1>1, FunctionsAre DEF Phases
<1>3. ToSet(c) \subseteq Globals \cup {Global("physicalDevice")}
      BY DEF ToSet
<1>4. TypeInv'
  <2>1. /\ handles' \subseteq Globals \cup {Global("physicalDevice")}
        /\ exist' \subseteq Objects
        BY <1>1, <1>3 DEF Inv, TypeInv, TypeOK
  <2>2. exist' \subseteq handles' \cup Others
        BY <1>1 DEF Inv, TypeInv
  <2>3. failures' \in 0..MaxFailures
        BY <1>1, LifecycleAssumption DEF Inv, TypeInv, TypeOK
  <2>4. pc' \in Functions \cup Phases
        BY <1>2 DEF Phases
  <2>5. initialized' \in BOOLEAN
        OBVIOUS
  <2>6. destroyed' \in 0..Len(DestroyOrder)
        BY DEF Inv, TypeInv, TypeOK
  <2>7. QED
        BY <2>1, <2>2, <2>3, <2>4, <2>5, <2>6 DEF TypeInv, TypeOK, Functions, Others
<1>5. PhaseInv'
      BY <1>1, <1>2, FunctionsAre DEF Inv, PhaseInv, Phases
<1>6. Made(f) \subseteq exist \cap handles
      BY <1>1 DEF Inv, MadeInv
<1>7. pc' \notin {"failed", "terminated"} => Made(pc') \subseteq exist' \cap handles'
      BY <1>1, <1>6
<1>8. MadeInv' /\ InitializedComplete'
      BY <1>2, <1>7, FunctionsAre, MadeOf DEF MadeInv, InitializedComplete, Phases, Required
<1>9. GoneInv'
      BY <1>2, FunctionsAre DEF GoneInv, Phases
<1>10. ParentsExist'
       BY <1>1, <1>6 DEF Inv, ParentsExist
<1>11. QED
       BY <1>4, <1>5, <1>8, <1>9, <1>10 DEF Inv
-----------------------------------------------------------------------------
Handles == Globals \cup {Global("physicalDevice")}

LEMMA TupleSequences ==
  /\ \A a \in Handles : <<a>> \in Seq(Handles) /\ ToSet(<<a>>) = {a}
  /\ \A a, b \in Handles : <<a, b>> \in Seq(Handles) /\ ToSet(<<a, b>>) = {a, b}
  /\ \A a, b, c \in Handles :
       <<a, b, c>> \in Seq(Handles) /\ ToSet(<<a, b, c>>) = {a, b, c}
<1>1. ASSUME NEW a \in Handles PROVE <<a>> \in Seq(Handles) /\ ToSet(<<a>>) = {a}
      BY <1>1 DEF ToSet
<1>2. ASSUME NEW a \in Handles, NEW b \in Handles
      PROVE  <<a, b>> \in Seq(Handles) /\ ToSet(<<a, b>>) = {a, b}
  <2>1. DOMAIN <<a, b>> = {1, 2}
        OBVIOUS
  <2>2. QED
        BY <2>1 DEF ToSet
<1>3. ASSUME NEW a \in Handles, NEW b \in Handles, NEW c \in Handles
      PROVE  <<a, b, c>> \in Seq(Handles) /\ ToSet(<<a, b, c>>) = {a, b, c}
  <2>1. DOMAIN <<a, b, c>> = {1, 2, 3}
        OBVIOUS
  <2>2. QED
        BY <2>1 DEF ToSet
<1>4. QED
      BY <1>1, <1>2, <1>3

LEMMA PoolSequences ==
  LET c == [i \in 1..Threads |-> CommandPool(i)]
      d == [i \in 1..Threads |-> DescriptorPool(i)]
  IN /\ c \in Seq(Handles) /\ ToSet(c) = CommandPools
     /\ d \in Seq(Handles) /\ ToSet(d) = DescriptorPools
<1>1. \A i \in 1..Threads : CommandPool(i) \in Handles /\ DescriptorPool(i) \in Handles
      BY DEF Handles, Globals, CommandPools, DescriptorPools
<1>2. Threads \in Nat
      BY LifecycleAssumption
<1> DEFINE c == [i \in 1..Threads |-> CommandPool(i)]
           d == [i \in 1..Threads |-> DescriptorPool(i)]
<1>3. c \in Seq(Handles) /\ d \in Seq(Handles)
      BY <1>1, <1>2
<1>4. ToSet(c) = CommandPools /\ ToSet(d) = DescriptorPools
      BY DEF ToSet, CommandPools, DescriptorPools
<1>5. QED
      BY <1>3, <1>4

\* The objects that have names, and the pools.
LEMMA HandlesAre ==
  /\ \A n \in {"glslang", "instance", "messenger", "device",
       "oneTimeSubmitFence", "frameComplete", "imagesReadyForPresent",
       "allocator", "renderPass", "commandBuffers", "matrixBuffer",
       "lightBuffer", "descriptorSetLayout", "descriptorSets"} :
       Global(n) \in Globals /\ Global(n) \in Handles /\ Global(n) \in Objects
  /\ Global("physicalDevice") \in Handles /\ Global("physicalDevice") \notin Objects
  /\ CommandPools \subseteq Objects /\ DescriptorPools \subseteq Objects
  /\ CommandPool(1) \in CommandPools /\ DescriptorPool(1) \in DescriptorPools
BY LifecycleAssumption DEF Handles, Globals, Objects, CommandPools, DescriptorPools,
   Global, CommandPool, DescriptorPool, Window, Mesh

LEMMA FirstStep == Inv /\ InitializeProcess => Inv'
<1> SUFFICES ASSUME Inv, InitializeProcess PROVE Inv'
    OBVIOUS
<1> USE DEF InitializeProcess, loopVars
<1>1. pc' = "InitInstance" /\ pc = "InitializeProcess"
      BY DEF NextFunction
<1>2. /\ exist \subseteq exist' /\ handles \subseteq handles'
      /\ Global("glslang") \in exist' \cap handles'
      OBVIOUS
<1>3. TypeInv'
  <2>1. pc' \in Functions
        BY <1>1, FunctionsAre
  <2>2. QED
        BY <2>1, HandlesAre DEF Inv, TypeInv, TypeOK, Functions
<1>4. PhaseInv'
      BY <1>1, FunctionsAre DEF Inv, PhaseInv, Phases
<1>5. MadeInv' /\ InitializedComplete'
      BY <1>1, <1>2, FunctionsAre, MadeOf
      DEF Inv, PhaseInv, MadeInv, MadeProcess, InitializedComplete
<1>6. GoneInv'
      BY <1>1 DEF GoneInv
<1>7. ParentsExist'
      BY ParentsOf DEF Inv, ParentsExist
<1>8. QED
      BY <1>3, <1>4, <1>5, <1>6, <1>7 DEF Inv

\* The functions before the last leave initialized alone.
LEMMA SingleStep ==
  ASSUME Inv, NEW f \in Functions \ {"CreateDescriptorSets"}, NEW E, NEW N,
         NEW c \in Seq(Handles),
         Function(f, E, N, c),
         \A o \in ToSet(c) \cap Objects : Parents(o) \subseteq Made(f),
         Made(NextFunction[f]) \subseteq Made(f) \cup (ToSet(c) \cap Objects),
         UNCHANGED loopVars
  PROVE  Inv'
<1>1. NextFunction[f] # "running" /\ pc = f
      BY FunctionDoes, FunctionsAre DEF Functions, NextFunction
<1>2. pc' # "running" /\ ~initialized
      BY <1>1, FunctionDoes DEF Inv, PhaseInv
<1>3. initialized' = (pc' = "running") /\ running' \in BOOLEAN
      BY <1>2 DEF loopVars, Inv, TypeInv, TypeOK
<1>4. QED
      BY <1>3, FunctionStep DEF Handles, loopVars

LEMMA SingleObjectStep ==
  ASSUME Inv, NEW f \in Functions \ {"CreateDescriptorSets"}, NEW E, NEW N,
         NEW g \in Handles,
         Function(f, E, N, <<g>>),
         g \in Objects => Parents(g) \subseteq Made(f),
         Made(NextFunction[f]) \subseteq Made(f) \cup ({g} \cap Objects),
         UNCHANGED loopVars
  PROVE  Inv'
<1>1. <<g>> \in Seq(Handles) /\ ToSet(<<g>>) = {g}
      BY TupleSequences
<1>2. QED
      BY <1>1, SingleStep

\* The functions that create one object each.
LEMMA SingleSteps ==
  ASSUME Inv
  PROVE  /\ InitInstance => Inv'
         /\ ChoosePhysicalDevice => Inv'
         /\ CreateDeviceAndQueues => Inv'
         /\ CreateAllocator => Inv'
         /\ CreateRenderPass => Inv'
         /\ AllocateCommandBuffers => Inv'
<1>1. ASSUME InitInstance PROVE Inv'
  <2>1. /\ NextFunction["InitInstance"] = "CreateDebugUtilsMessenger"
        /\ "InitInstance" \in Functions
        BY FunctionsAre DEF NextFunction
  <2>2. /\ Parents(Global("instance")) \subseteq MadeProcess
        /\ Global("instance") \in Handles \cap Objects
        BY ParentsOf, HandlesAre
        DEF MadeRenderPass, MadeAllocator, MadeFences, MadeDescriptorPools, MadeCommandPools,
            MadeDevice, MadeInstance, MadeProcess
  <2>3. MadeInstance \subseteq MadeProcess \cup {Global("instance")}
        BY DEF MadeInstance
  <2>4. /\ Made("InitInstance") = MadeProcess
        /\ Made("CreateDebugUtilsMessenger") = MadeInstance
        BY MadeOf
  <2>5. QED
        BY <1>1, <2>1, <2>2, <2>3, <2>4, SingleObjectStep DEF InitInstance
<1>2. ASSUME ChoosePhysicalDevice PROVE Inv'
  <2>1. /\ NextFunction["ChoosePhysicalDevice"] = "CreateDeviceAndQueues"
        /\ "ChoosePhysicalDevice" \in Functions
        BY FunctionsAre DEF NextFunction
  <2>2. Global("physicalDevice") \in Handles \ Objects
        BY HandlesAre
  <2>3. /\ Made("ChoosePhysicalDevice") = MadeInstance
        /\ Made("CreateDeviceAndQueues") = MadeInstance
        BY MadeOf
  <2>4. QED
        BY <1>2, <2>1, <2>2, <2>3, SingleObjectStep DEF ChoosePhysicalDevice
<1>3. ASSUME CreateDeviceAndQueues PROVE Inv'
  <2>1. /\ NextFunction["CreateDeviceAndQueues"] = "CreateCommandPools"
        /\ "CreateDeviceAndQueues" \in Functions
        BY FunctionsAre DEF NextFunction
  <2>2. /\ Parents(Global("device")) \subseteq MadeInstance
        /\ Global("device") \in Handles \cap Objects
        BY ParentsOf, HandlesAre
        DEF MadeRenderPass, MadeAllocator, MadeFences, MadeDescriptorPools, MadeCommandPools,
            MadeDevice, MadeInstance, MadeProcess
  <2>3. MadeDevice \subseteq MadeInstance \cup {Global("device")}
        BY DEF MadeDevice
  <2>4. /\ Made("CreateDeviceAndQueues") = MadeInstance
        /\ Made("CreateCommandPools") = MadeDevice
        BY MadeOf
  <2>5. QED
        BY <1>3, <2>1, <2>2, <2>3, <2>4, SingleObjectStep DEF CreateDeviceAndQueues
<1>4. ASSUME CreateAllocator PROVE Inv'
  <2>1. /\ NextFunction["CreateAllocator"] = "CreateRenderPass"
        /\ "CreateAllocator" \in Functions
        BY FunctionsAre DEF NextFunction
  <2>2. /\ Parents(Global("allocator")) \subseteq MadeFences
        /\ Global("allocator") \in Handles \cap Objects
        BY ParentsOf, HandlesAre
        DEF MadeRenderPass, MadeAllocator, MadeFences, MadeDescriptorPools, MadeCommandPools,
            MadeDevice, MadeInstance, MadeProcess
  <2>3. MadeAllocator \subseteq MadeFences \cup {Global("allocator")}
        BY DEF MadeAllocator
  <2>4. Made("CreateAllocator") = MadeFences /\ Made("CreateRenderPass") = MadeAllocator
        BY MadeOf
  <2>5. QED
        BY <1>4, <2>1, <2>2, <2>3, <2>4, SingleObjectStep DEF CreateAllocator
<1>5. ASSUME CreateRenderPass PROVE Inv'
  <2>1. /\ NextFunction["CreateRenderPass"] = "AllocateCommandBuffers"
        /\ "CreateRenderPass" \in Functions
        BY FunctionsAre DEF NextFunction
  <2>2. /\ Parents(Global("renderPass")) \subseteq MadeAllocator
        /\ Global("renderPass") \in Handles \cap Objects
        BY ParentsOf, HandlesAre
        DEF MadeRenderPass, MadeAllocator, MadeFences, MadeDescriptorPools, MadeCommandPools,
            MadeDevice, MadeInstance, MadeProcess
  <2>3. MadeRenderPass \subseteq MadeAllocator \cup {Global("renderPass")}
        BY DEF MadeRenderPass
  <2>4. /\ Made("CreateRenderPass") = MadeAllocator
        /\ Made("AllocateCommandBuffers") = MadeRenderPass
        BY MadeOf
  <2>5. QED
        BY <1>5, <2>1, <2>2, <2>3, <2>4, SingleObjectStep DEF CreateRenderPass
<1>6. ASSUME AllocateCommandBuffers PROVE Inv'
  <2>1. /\ NextFunction["AllocateCommandBuffers"] = "CreateUniformBuffers"
        /\ "AllocateCommandBuffers" \in Functions
        BY FunctionsAre DEF NextFunction
  <2>2. /\ Parents(Global("commandBuffers")) \subseteq MadeRenderPass
        /\ Global("commandBuffers") \in Handles \cap Objects
        BY ParentsOf, HandlesAre
        DEF MadeRenderPass, MadeAllocator, MadeFences, MadeDescriptorPools, MadeCommandPools,
            MadeDevice, MadeInstance, MadeProcess
  <2>3. MadeCommandBuffers \subseteq MadeRenderPass \cup {Global("commandBuffers")}
        BY DEF MadeCommandBuffers
  <2>4. /\ Made("AllocateCommandBuffers") = MadeRenderPass
        /\ Made("CreateUniformBuffers") = MadeCommandBuffers
        BY MadeOf
  <2>5. QED
        BY <1>6, <2>1, <2>2, <2>3, <2>4, SingleObjectStep DEF AllocateCommandBuffers
<1>7. QED
      BY <1>1, <1>2, <1>3, <1>4, <1>5, <1>6

\* The functions that create several, and may have created some of them.
LEMMA SeveralSteps ==
  ASSUME Inv
  PROVE  /\ CreateCommandPools => Inv'
         /\ CreateDescriptorPools => Inv'
         /\ CreateFencesAndSemaphores => Inv'
         /\ CreateUniformBuffers => Inv'
         /\ CreateDescriptorSets => Inv'
<1>1. ASSUME CreateCommandPools PROVE Inv'
  <2> DEFINE c == [i \in 1..Threads |-> CommandPool(i)]
  <2>1. /\ NextFunction["CreateCommandPools"] = "CreateDescriptorPools"
        /\ "CreateCommandPools" \in Functions
        BY FunctionsAre DEF NextFunction
  <2>2. c \in Seq(Handles) /\ ToSet(c) = CommandPools /\ CommandPools \subseteq Objects
        BY PoolSequences, HandlesAre
  <2>3. \A o \in CommandPools : Parents(o) \subseteq MadeDevice
        BY ParentsOf DEF CommandPools, MadeCommandPools, MadeDevice
  <2>4. /\ Made("CreateCommandPools") = MadeDevice
        /\ Made("CreateDescriptorPools") = MadeDevice \cup CommandPools
        BY MadeOf DEF MadeCommandPools
  <2>5. QED
        BY <1>1, <2>1, <2>2, <2>3, <2>4, SingleStep DEF CreateCommandPools
<1>2. ASSUME CreateDescriptorPools PROVE Inv'
  <2> DEFINE c == [i \in 1..Threads |-> DescriptorPool(i)]
  <2>1. /\ NextFunction["CreateDescriptorPools"] = "CreateFencesAndSemaphores"
        /\ "CreateDescriptorPools" \in Functions
        BY FunctionsAre DEF NextFunction
  <2>2. c \in Seq(Handles) /\ ToSet(c) = DescriptorPools /\ DescriptorPools \subseteq Objects
        BY PoolSequences, HandlesAre
  <2>3. \A o \in DescriptorPools : Parents(o) \subseteq MadeCommandPools
        BY ParentsOf DEF DescriptorPools, MadeCommandPools, MadeDevice
  <2>4. /\ Made("CreateDescriptorPools") = MadeCommandPools
        /\ Made("CreateFencesAndSemaphores") = MadeCommandPools \cup DescriptorPools
        BY MadeOf DEF MadeDescriptorPools
  <2>5. QED
        BY <1>2, <2>1, <2>2, <2>3, <2>4, SingleStep DEF CreateDescriptorPools
<1>3. ASSUME CreateFencesAndSemaphores PROVE Inv'
  <2> DEFINE c == <<Global("oneTimeSubmitFence"),
                Global("frameComplete"),
                Global("imagesReadyForPresent")>>
             C == {Global("oneTimeSubmitFence"),
                Global("frameComplete"),
                Global("imagesReadyForPresent")}
  <2>1. /\ NextFunction["CreateFencesAndSemaphores"] = "CreateAllocator"
        /\ "CreateFencesAndSemaphores" \in Functions
        BY FunctionsAre DEF NextFunction
  <2>2. C \subseteq Handles /\ C \subseteq Objects
        BY HandlesAre
  <2>3. c \in Seq(Handles) /\ ToSet(c) = C
        BY <2>2, TupleSequences
  <2>4. \A o \in C : Parents(o) \subseteq MadeDescriptorPools
        BY ParentsOf, HandlesAre
        DEF MadeBuffers, MadeCommandBuffers, MadeRenderPass, MadeAllocator, MadeFences,
            MadeDescriptorPools, MadeCommandPools, MadeDevice
  <2>5. /\ Made("CreateFencesAndSemaphores") = MadeDescriptorPools
        /\ Made("CreateAllocator") = MadeFences
        BY MadeOf
  <2>6. MadeFences \subseteq MadeDescriptorPools \cup C
        BY DEF MadeFences
  <2> HIDE DEF C
  <2>7. QED
        BY <1>3, <2>1, <2>2, <2>3, <2>4, <2>5, <2>6, SingleStep DEF CreateFencesAndSemaphores
<1>4. ASSUME CreateUniformBuffers PROVE Inv'
  <2> DEFINE c == <<Global("matrixBuffer"),
                Global("lightBuffer")>>
             C == {Global("matrixBuffer"),
                Global("lightBuffer")}
  <2>1. /\ NextFunction["CreateUniformBuffers"] = "CreateDescriptorSets"
        /\ "CreateUniformBuffers" \in Functions
        BY FunctionsAre DEF NextFunction
  <2>2. C \subseteq Handles /\ C \subseteq Objects
        BY HandlesAre
  <2>3. c \in Seq(Handles) /\ ToSet(c) = C
        BY <2>2, TupleSequences
  <2>4. \A o \in C : Parents(o) \subseteq MadeCommandBuffers
        BY ParentsOf, HandlesAre
        DEF MadeBuffers, MadeCommandBuffers, MadeRenderPass, MadeAllocator, MadeFences,
            MadeDescriptorPools, MadeCommandPools, MadeDevice
  <2>5. /\ Made("CreateUniformBuffers") = MadeCommandBuffers
        /\ Made("CreateDescriptorSets") = MadeBuffers
        BY MadeOf
  <2>6. MadeBuffers \subseteq MadeCommandBuffers \cup C
        BY DEF MadeBuffers
  <2> HIDE DEF C
  <2>7. QED
        BY <1>4, <2>1, <2>2, <2>3, <2>4, <2>5, <2>6, SingleStep DEF CreateUniformBuffers
<1>5. ASSUME CreateDescriptorSets PROVE Inv'
  <2> DEFINE c == <<Global("descriptorSetLayout"),
                Global("descriptorSets")>>
             C == {Global("descriptorSetLayout"),
                Global("descriptorSets")}
  <2>1. /\ NextFunction["CreateDescriptorSets"] = "running"
        /\ "CreateDescriptorSets" \in Functions
        BY FunctionsAre DEF NextFunction
  <2>2. C \subseteq Handles /\ C \subseteq Objects
        BY HandlesAre
  <2>3. c \in Seq(Handles) /\ ToSet(c) = C
        BY <2>2, TupleSequences
  <2>4. \A o \in C : Parents(o) \subseteq MadeBuffers
        BY ParentsOf, HandlesAre
        DEF MadeBuffers, MadeCommandBuffers, MadeRenderPass, MadeAllocator, MadeFences,
            MadeDescriptorPools, MadeCommandPools, MadeDevice
  <2>5. Made("CreateDescriptorSets") = MadeBuffers /\ Made("running") = Required
        BY MadeOf
  <2>6. Required \subseteq MadeBuffers \cup C
        BY DEF Required, Globals, MadeBuffers, MadeCommandBuffers, MadeRenderPass,
               MadeAllocator, MadeFences, MadeDescriptorPools, MadeCommandPools,
               MadeDevice, MadeInstance, MadeProcess
  <2> HIDE DEF C
  <2>7. /\ Function("CreateDescriptorSets", {Global("device")}, {}, c)
        /\ initialized' = (pc' = "running") /\ running' \in BOOLEAN
        /\ UNCHANGED destroyed
        BY <1>5 DEF CreateDescriptorSets
  <2>8. QED
        BY <2>1, <2>2, <2>3, <2>4, <2>5, <2>6, <2>7, FunctionStep DEF Handles
<1>6. QED
      BY <1>1, <1>2, <1>3, <1>4, <1>5

\* The debug messenger may be left out.
LEMMA MessengerStep == Inv /\ CreateDebugUtilsMessenger => Inv'
<1> SUFFICES ASSUME Inv, CreateDebugUtilsMessenger PROVE Inv'
    OBVIOUS
<1>1. NextFunction["CreateDebugUtilsMessenger"] = "ChoosePhysicalDevice"
      BY DEF NextFunction
<1>2. ASSUME Function("CreateDebugUtilsMessenger", {Global("instance")},
                      {Global("messenger")}, <<Global("messenger")>>)
      PROVE  Inv'
      BY <1>1, <1>2, FunctionsAre, TupleSequences, HandlesAre, ParentsOf, MadeOf, SingleStep
      DEF CreateDebugUtilsMessenger, MadeInstance
<1>3. ASSUME pc = "CreateDebugUtilsMessenger", pc' = "ChoosePhysicalDevice",
             UNCHANGED <<handles, exist, failures>>
      PROVE  Inv'
      BY <1>3, FunctionsAre, MadeOf
      DEF CreateDebugUtilsMessenger, loopVars, Inv, TypeInv, TypeOK, PhaseInv, MadeInv,
          InitializedComplete, GoneInv, ParentsExist, Phases, Functions
<1>4. QED
      BY <1>1, <1>2, <1>3 DEF CreateDebugUtilsMessenger
-----------------------------------------------------------------------------
LEMMA LoopStep ==
  Inv /\ (AfterFailure \/ FrameLoop) => Inv'
<1> SUFFICES ASSUME Inv, AfterFailure \/ FrameLoop PROVE Inv'
    OBVIOUS
<1> USE FunctionsAre
<1>1. ASSUME AfterFailure PROVE Inv'
  <2>1. /\ pc = "failed" /\ pc' \in {"InitializeProcess", "exited"}
        /\ UNCHANGED <<loopVars, handles, exist, failures>>
        BY <1>1 DEF AfterFailure
  <2>2. TypeInv'
        BY <2>1 DEF Inv, TypeInv, TypeOK, Functions, Phases, loopVars
  <2>3. PhaseInv' /\ InitializedComplete' /\ GoneInv' /\ ParentsExist'
        BY <2>1 DEF Inv, PhaseInv, InitializedComplete, GoneInv, ParentsExist, Phases, loopVars
  <2>4. MadeInv'
        BY <2>1, MadeOf DEF MadeInv, Phases
  <2>5. QED
        BY <2>2, <2>3, <2>4 DEF Inv
<1>2. ASSUME Load PROVE Inv'
  <2>1. PICK o \in Objects \ (Globals \cup exist) : exist' = exist \cup {o}
        BY <1>2 DEF Load
  <2>2. /\ pc = "running" /\ UNCHANGED <<pc, initialized, running, destroyed, handles,
                                        failures>>
        BY <1>2 DEF Load, loopVars
  <2>3. TypeInv'
        BY <2>1, <2>2 DEF Inv, TypeInv, TypeOK, Others
  <2>4. PhaseInv' /\ MadeInv' /\ InitializedComplete' /\ GoneInv'
        BY <2>1, <2>2 DEF Inv, PhaseInv, MadeInv, InitializedComplete, GoneInv, Phases
  <2>5. Parents(o) \subseteq exist
        BY <2>2, ParentsOf, GlobalsAreObjects DEF Inv, MadeInv
  <2>6. ParentsExist'
        BY <2>1, <2>5 DEF Inv, ParentsExist
  <2>7. QED
        BY <2>3, <2>4, <2>6 DEF Inv
<1>3. ASSUME Terminate \/ LeaveLoop PROVE Inv'
  <2>1. /\ UNCHANGED <<initialized, handles, exist, destroyed, failures>>
        /\ running' \in BOOLEAN
        /\ \/ pc' = pc
           \/ pc = "running" /\ pc' = "destroy"
    <3>1. initialized \in BOOLEAN /\ running \in BOOLEAN
          BY DEF Inv, TypeInv, TypeOK
    <3>4. CASE Terminate
          BY <3>1, <3>4 DEF Terminate
    <3>5. CASE LeaveLoop
          BY <3>1, <3>5 DEF LeaveLoop, loopVars
    <3>7. QED
          BY <1>3, <3>4, <3>5
  <2>2. TypeInv'
        BY <2>1 DEF Inv, TypeInv, TypeOK, Phases
  <2>3. PhaseInv' /\ InitializedComplete' /\ ParentsExist'
        BY <2>1 DEF Inv, PhaseInv, InitializedComplete, ParentsExist, Phases
  <2>4. MadeInv'
        BY <2>1 DEF Inv, MadeInv, Phases
  <2>5. GoneInv'
        BY <2>1 DEF Inv, PhaseInv, GoneInv, Phases
  <2>6. QED
        BY <2>2, <2>3, <2>4, <2>5 DEF Inv
<1>4. QED
      BY <1>1, <1>2, <1>3 DEF FrameLoop
-----------------------------------------------------------------------------
(* Shutdown.                                                               *)

LEMMA OrderAre ==
  /\ Len(DestroyOrder) = 17
  /\ DestroyOrder[1] = {Mesh(m) : m \in Meshes}
  /\ DestroyOrder[2] = {Window(w) : w \in Windows}
  /\ DestroyOrder[3] = {Global("matrixBuffer")}
  /\ DestroyOrder[4] = {Global("lightBuffer")}
  /\ DestroyOrder[5] = {Global("descriptorSetLayout")}
  /\ DestroyOrder[6] = {Global("commandBuffers")}
  /\ DestroyOrder[7] = {Global("renderPass")}
  /\ DestroyOrder[8] = {Global("allocator")}
  /\ DestroyOrder[9] = {Global("imagesReadyForPresent")}
  /\ DestroyOrder[10] = {Global("frameComplete")}
  /\ DestroyOrder[11] = {Global("oneTimeSubmitFence")}
  /\ DestroyOrder[12] = DescriptorPools \cup {Global("descriptorSets")}
  /\ DestroyOrder[13] = CommandPools
  /\ DestroyOrder[14] = {Global("device")}
  /\ DestroyOrder[15] = {Global("messenger")}
  /\ DestroyOrder[16] = {Global("instance")}
  /\ DestroyOrder[17] = {Global("glslang")}
BY DEF DestroyOrder

\* Every object is destroyed somewhere in the order.
LEMMA AllDestroyed == \A o \in Objects : \E i \in 1..17 : o \in DestroyOrder[i]
<1> SUFFICES ASSUME NEW o \in Objects PROVE \E i \in 1..17 : o \in DestroyOrder[i]
    OBVIOUS
<1>1. CASE o \in {Mesh(m) : m \in Meshes} \cup {Window(w) : w \in Windows}
      BY <1>1, OrderAre
<1>2. CASE o \in CommandPools \cup DescriptorPools
      BY <1>2, OrderAre
<1>3. CASE o \in Globals \ (CommandPools \cup DescriptorPools)
  <2>1. o \in {Global(n) : n \in {"glslang", "instance", "messenger", "device",
          "oneTimeSubmitFence", "frameComplete", "imagesReadyForPresent",
          "allocator", "renderPass", "commandBuffers", "matrixBuffer",
          "lightBuffer", "descriptorSetLayout", "descriptorSets"}}
        BY <1>3 DEF Globals
  <2>2. QED
        BY <2>1, OrderAre
<1>4. QED
      BY <1>1, <1>2, <1>3 DEF Objects

\* Where Shutdown destroys what others are made from.
LEMMA RootOrder ==
  \A i \in 1..17 :
    /\ Global("allocator") \in DestroyOrder[i] => i = 8
    /\ DescriptorPool(1) \in DestroyOrder[i] => i = 12
    /\ CommandPool(1) \in DestroyOrder[i] => i = 13
    /\ Global("device") \in DestroyOrder[i] => i = 14
    /\ Global("instance") \in DestroyOrder[i] => i = 16
BY OrderAre DEF Global, CommandPool, DescriptorPool, CommandPools, DescriptorPools,
   Window, Mesh

\* An object is destroyed no later than what it was made from.
LEMMA ChildrenFirst ==
  ASSUME NEW i \in 1..17, NEW j \in 1..17, NEW o \in DestroyOrder[j],
         Parents(o) \cap DestroyOrder[i] # {}
  PROVE  j <= i
<1>1. \A p \in Parents(o) : p \in Root
      BY ParentsOf
<1>2. PICK p \in Parents(o) : p \in DestroyOrder[i]
      OBVIOUS
<1>3. i \in {8, 12, 13, 14, 16} /\ (p = Global("allocator") => i = 8)
        /\ (p = DescriptorPool(1) => i = 12) /\ (p = CommandPool(1) => i = 13)
        /\ (p = Global("device") => i = 14) /\ (p = Global("instance") => i = 16)
      BY <1>1, <1>2, RootOrder DEF Root
<1>4. CASE j \in {1, 2}
      BY <1>3, <1>4
<1>5. CASE j \in {3, 4}
  <2>1. Parents(o) = {Global("allocator")}
        BY <1>5, OrderAre, ParentsOf
  <2>2. QED
        BY <1>2, <1>3, <1>5, <2>1
<1>6. CASE j \in {5, 7, 8, 9, 10, 11}
  <2>1. Parents(o) = {Global("device")}
        BY <1>6, OrderAre, ParentsOf
  <2>2. QED
        BY <1>2, <1>3, <1>6, <2>1
<1>7. CASE j = 6
  <2>1. Parents(o) = {CommandPool(1)}
        BY <1>7, OrderAre, ParentsOf
  <2>2. QED
        BY <1>2, <1>3, <1>7, <2>1
<1>8. CASE j = 12
  <2>1. Parents(o) \in {{Global("device")}, {DescriptorPool(1)}}
        BY <1>8, OrderAre, ParentsOf DEF DescriptorPools
  <2>2. QED
        BY <1>2, <1>3, <1>8, <2>1
<1>9. CASE j = 13
  <2>1. Parents(o) = {Global("device")}
        BY <1>9, OrderAre, ParentsOf DEF CommandPools
  <2>2. QED
        BY <1>2, <1>3, <1>9, <2>1
<1>10. CASE j \in {14, 15}
  <2>1. Parents(o) = {Global("instance")}
        BY <1>10, OrderAre, ParentsOf
  <2>2. QED
        BY <1>2, <1>3, <1>10, <2>1
<1>11. CASE j \in {16, 17}
  <2>1. Parents(o) = {}
        BY <1>11, OrderAre, ParentsOf
  <2>2. QED
        BY <1>2, <2>1
<1>12. QED
       BY <1>4, <1>5, <1>6, <1>7, <1>8, <1>9, <1>10, <1>11

\* What the step destroys, nothing else was made from: that is destroyed before.
LEMMA DestroyStep == Inv /\ Destroy => Inv'
<1> SUFFICES ASSUME Inv, Destroy PROVE Inv'
    OBVIOUS
<1> DEFINE d == destroyed + 1
           D == DestroyOrder[d]
<1>1. /\ pc = "destroy" /\ pc' = "destroy"
      /\ exist' = exist \ D /\ exist' \subseteq exist
      /\ destroyed' = d /\ destroyed \in Nat /\ d \in 1..17
      /\ UNCHANGED <<pc, initialized, running, handles, failures>>
  <2>1. exist \subseteq handles \cup (Objects \ Globals) /\ destroyed \in 0..17
        BY OrderAre DEF Inv, TypeInv, TypeOK, Others
  <2>2. exist' = exist \ DestroyedBy(D) /\ destroyed < 17 /\ destroyed' = d
        BY OrderAre DEF Destroy
  <2>3. exist' = exist \ D
        BY <2>1, <2>2 DEF DestroyedBy, Inv, TypeInv, TypeOK
  <2>4. QED
        BY <2>1, <2>2, <2>3 DEF Destroy
<1> HIDE DEF D
<1>2. TypeInv'
      BY <1>1, OrderAre DEF Inv, TypeInv, TypeOK
<1>3. PhaseInv' /\ InitializedComplete' /\ MadeInv'
      BY <1>1, FunctionsAre DEF Inv, PhaseInv, InitializedComplete, MadeInv, Phases
<1>4. \A i \in 1..d : exist' \cap DestroyOrder[i] = {}
  <2>1. \A i \in 1..destroyed : exist \cap DestroyOrder[i] = {}
        BY <1>1 DEF Inv, GoneInv
  <2>2. \A i \in 1..d : i \in 1..destroyed \/ i = d
        BY <1>1
  <2>3. QED
        BY <1>1, <2>1, <2>2 DEF D
<1>5. GoneInv'
      BY <1>1, <1>4 DEF GoneInv
<1>6. ParentsExist'
  <2>1. SUFFICES ASSUME NEW o \in exist' PROVE Parents(o) \subseteq exist'
        BY DEF ParentsExist
  <2>2. Parents(o) \subseteq exist /\ o \in Objects
        BY <1>1, <2>1 DEF Inv, ParentsExist, TypeInv, TypeOK
  <2>3. PICK j \in 1..17 : o \in DestroyOrder[j]
        BY <2>2, AllDestroyed
  <2>4. ~(j <= d)
        BY <1>1, <1>4, <2>1, <2>3
  <2>5. Parents(o) \cap D = {}
        BY <1>1, <2>3, <2>4, ChildrenFirst DEF D
  <2>6. QED
        BY <1>1, <2>2, <2>5
<1>7. QED
      BY <1>2, <1>3, <1>5, <1>6 DEF Inv

LEMMA ExitStep == Inv /\ Exit => Inv'
<1> SUFFICES ASSUME Inv, Exit PROVE Inv'
    OBVIOUS
<1>1. /\ pc = "destroy" /\ pc' = "exited" /\ destroyed = 17
      /\ UNCHANGED <<initialized, running, destroyed, handles, exist, failures>>
      BY OrderAre DEF Exit, loopVars
<1>2. exist = {}
  <2>1. \A i \in 1..17 : exist \cap DestroyOrder[i] = {}
        BY <1>1 DEF Inv, GoneInv
  <2>2. exist \subseteq Objects
        BY DEF Inv, TypeInv, TypeOK
  <2>3. QED
        BY <2>1, <2>2, AllDestroyed
<1>3. TypeInv' /\ InitializedComplete' /\ ParentsExist' /\ GoneInv'
      BY <1>1, <1>2
      DEF Inv, TypeInv, TypeOK, InitializedComplete, ParentsExist, GoneInv, Phases
<1>4. PhaseInv' /\ MadeInv'
      BY <1>1, FunctionsAre DEF PhaseInv, MadeInv, Phases
<1>5. QED
      BY <1>3, <1>4 DEF Inv
-----------------------------------------------------------------------------
LEMMA InvInit == Init => Inv
<1> SUFFICES ASSUME Init PROVE Inv
    OBVIOUS
<1>1. TypeInv
  <2>1. pc \in Functions
        BY FunctionsAre DEF Init
  <2>2. destroyed \in 0..Len(DestroyOrder) /\ failures \in 0..MaxFailures
        BY OrderAre, LifecycleAssumption DEF Init
  <2>3. QED
        BY <2>1, <2>2 DEF Init, TypeInv, TypeOK, Functions
<1>2. PhaseInv /\ InitializedComplete /\ GoneInv /\ ParentsExist
      BY DEF Init, PhaseInv, InitializedComplete, GoneInv, ParentsExist
<1>3. MadeInv
      BY MadeOf DEF Init, MadeInv
<1>4. QED
      BY <1>1, <1>2, <1>3 DEF Inv

LEMMA InvStep == Inv /\ [Next]_vars => Inv'
<1>1. ASSUME Inv, UNCHANGED vars PROVE Inv'
      BY <1>1 DEF vars, Inv, TypeInv, TypeOK, PhaseInv, MadeInv, InitializedComplete,
                  GoneInv, ParentsExist
<1>2. Inv /\ Initialize => Inv'
      BY FirstStep, SingleSteps, SeveralSteps, MessengerStep DEF Initialize
<1>3. QED
      BY <1>1, <1>2, LoopStep, DestroyStep, ExitStep DEF Next, Shutdown, Ended

LEMMA InvAlways == Spec => []Inv
<1>1. QED
      BY InvInit, InvStep, PTL DEF Spec

\* However often Initialize is called and wherever it fails, handles and objects
\* are those of the renderer; once it has succeeded Shutdown has a handle to each.
THEOREM TypeCorrect == Spec => []TypeOK
<1>1. Inv => TypeOK
      BY DEF Inv, TypeInv
<1>2. QED
      BY <1>1, InvAlways, PTL

\* Each function of Initialize is given what it makes its objects from, for any
\* number of pools, and Shutdown destroys nothing that something else needs.
THEOREM ParentsExistCorrect == Spec => []ParentsExist
<1>1. Inv => ParentsExist
      BY DEF Inv
<1>2. QED
      BY <1>1, InvAlways, PTL

\* If Initialize succeeds, at first or after errors, every handle is filled
\* that the frame loop uses.
THEOREM InitializedCompleteCorrect == Spec => []InitializedComplete
<1>1. Inv => InitializedComplete
      BY DEF Inv
<1>2. QED
      BY <1>1, InvAlways, PTL

\* After Shutdown nothing is left, however many windows and meshes there were.
THEOREM ShutdownLeavesNothingCorrect == Spec => []ShutdownLeavesNothing
<1>1. Inv => ShutdownLeavesNothing
      BY DEF Inv, GoneInv, ShutdownLeavesNothing
<1>2. QED
      BY <1>1, InvAlways, PTL
=============================================================================
