------------------------------- MODULE Upload -------------------------------
(***************************************************************************)
(* What the main thread does to make a mesh of a glTF file or the UI of a  *)
(* window: CreateMeshes with Mesh::Create, and UI::Create, call by call,   *)
(* with the buffers and the font image they upload through a staging       *)
(* buffer and one-time submissions, while the GPU works through its queue. *)
(*                                                                         *)
(* Both functions are a list of steps, each of which makes one member of   *)
(* the value under construction.  Objects made by a step belong to it      *)
(* until it has succeeded, then to the value; the destructors (RAII) run   *)
(* when a step, or the function, returns an error.                         *)
(*                                                                         *)
(* The command buffers of the one-time submissions are in FrameLoop.       *)
(***************************************************************************)
EXTENDS Naturals, Sequences, FiniteSets

CONSTANTS
  Batches,      \* what one call makes: <<"ui">>, or the meshes of a file
  PoolSets,     \* descriptor sets the pool holds
  MaxItems,     \* bound: meshes and UIs begun
  MaxFailures   \* bound: failing calls

MeshKinds == {"indexed", "plain"}    \* data.indices is not, or is, empty
Kinds == MeshKinds \cup {"ui"}

ASSUME UploadAssumption ==
  /\ Batches \subseteq Seq(Kinds) \ {<<>>}
  /\ PoolSets \in Nat /\ MaxItems \in Nat /\ MaxFailures \in Nat
-----------------------------------------------------------------------------
(* The calls of the two functions.  op is "new" for what cannot fail,      *)
(* "make" for creating the object name, "check" for a call that may fail   *)
(* and makes nothing (mapping memory, compiling a shader, beginning a      *)
(* command buffer), "allocate" for the descriptor set; "submit" and "wait" *)
(* are the two halves of EndOneTimeSubmit.                                 *)
Layouts == {"undefined", "transferDst", "shaderReadOnly"}
Call(op, name, reads, old, new) ==
  [op |-> op, name |-> name, reads |-> reads, old |-> old, new |-> new]
Plain(op, name) == Call(op, name, {}, "undefined", "undefined")
New(name)  == Plain("new", name)
Make(name) == Plain("make", name)
Check      == Plain("check", "none")
Allocate   == Plain("allocate", "none")

\* BeginOneTimeSubmit, one recorded command that reads the objects reads and
\* takes name from one layout to another (a copy keeps it), EndOneTimeSubmit.
OneTime(name, reads, old, new) ==
  <<Check, Call("submit", name, reads, old, new), Plain("wait", "none")>>

Staging(name) == <<Make("staging"), Check, Make(name)>>

\* Buffer::CreateFromMemory
BufferUpload(name) ==
  Staging(name) \o OneTime(name, {"staging"}, "undefined", "undefined")

\* Image::Transition
Transition(name, old, new) == OneTime(name, {}, old, new)

\* Image::CreateFromMemory, for memory that is VMA_MEMORY_USAGE_GPU_ONLY as its
\* only caller asks for.
ImageUploadUntransitioned(name) ==
  Staging(name)
    \o OneTime(name, {"staging"}, "transferDst", "transferDst")
    \o Transition(name, "transferDst", "shaderReadOnly")
ImageUpload(name) ==
  Staging(name)
    \o Transition(name, "undefined", "transferDst")
    \o OneTime(name, {"staging"}, "transferDst", "transferDst")
    \o Transition(name, "transferDst", "shaderReadOnly")

\* A step keeps some of the objects it makes; its error is returned, or ignored.
Step(keeps, calls)  == [keeps |-> keeps, calls |-> calls, ignored |-> FALSE]
Ignored(calls)      == [keeps |-> {}, calls |-> calls, ignored |-> TRUE]
BufferStep(name)    == Step({name}, <<Make(name)>>)
UniformStep(name)   == Step({name}, <<Make(name), Check>>)
ShaderStep(name)    == Step({name}, <<Check, Make(name)>>)
SetsStep            == Step({"setLayout"}, <<Make("setLayout"), Allocate>>)
PipelineStep ==
  Step({"pipelineLayout", "pipeline"}, <<Make("pipelineLayout"), Make("pipeline")>>)

\* Mesh::Create.  The first vertex upload goes to a buffer nobody keeps.
VertexStepUnchecked ==
  [keeps |-> {"vertexBuffer"}, calls |-> BufferUpload("vertexBuffer"),
   ignored |-> TRUE]
VertexStep == Step({"vertexBuffer"}, BufferUpload("vertexBuffer"))
MeshCreate(meshKind) ==
  <<UniformStep("modelBuffer"), UniformStep("materialBuffer"),
    ShaderStep("vertexShader"), ShaderStep("fragmentShader"),
    SetsStep, PipelineStep>>
  \o (IF meshKind = "indexed"
      THEN <<Step({"indexBuffer"}, BufferUpload("indexBuffer"))>> ELSE <<>>)
  \o <<Ignored(BufferUpload("packedVertices")), VertexStep>>

\* UI::Create: the ImGui context with its font, whose file is checked for,
\* the image of the font, and what draws it.
ContextStep == Step({"context"}, <<New("context"), Check>>)
FontSteps ==
  <<Step({"fontImage"}, ImageUpload("fontImage")),
    Step({"fontImageView"}, <<Make("fontImageView")>>),
    Step({"fontImageSampler"}, <<Make("fontImageSampler")>>)>>
CommandBuffersStep == Step({"commandBuffers"}, <<Make("commandBuffers")>>)
UICreate ==
  <<CommandBuffersStep, ContextStep>> \o FontSteps \o
  <<BufferStep("vertexBuffer"), BufferStep("indexBuffer"),
    ShaderStep("vertexShader"), ShaderStep("fragmentShader"),
    SetsStep, PipelineStep>>

Program == [k \in Kinds |-> IF k = "ui" THEN UICreate ELSE MeshCreate(k)]

Shaders == {"vertexShader", "fragmentShader"}   \* locals of both functions
Uploads == {"vertexBuffer", "indexBuffer", "packedVertices", "fontImage"}
Names == Shaders \cup Uploads \cup
  {"staging", "modelBuffer", "materialBuffer", "setLayout", "pipelineLayout",
   "pipeline", "commandBuffers", "context", "fontImageView", "fontImageSampler"}
Items == 1..MaxItems
Objects == Items \X Names

VARIABLES
  busy,     \* a call is running
  batch,    \* its argument
  next,     \* which element of batch is being made
  start,    \* how many items existed when it was called
  result,   \* what it has returned, "none" if it has not
  item,     \* number of items begun
  kind,     \* what each is
  step,     \* where the function is: step, and
  call,     \* call of that step
  locals,   \* objects of the step
  own,      \* objects of the value under construction
  held,     \* Meshes() and the UIs of windows, in the order they were made
  device,   \* objects that exist
  sets,     \* descriptor sets allocated from the pool
  gpuQueue, \* one-time submissions not finished
  fence,    \* sOneTimeSubmitFence is signaled
  layout,   \* layout of the font image of each item
  written,  \* objects the GPU has copied data to
  misused,  \* history: objects destroyed while in the queue
  faulted   \* history: failed calls

callVars  == <<busy, batch, next, start, result>>
itemVars  == <<item, kind, held>>
placeVars == <<step, call, locals, own>>
gpuVars   == <<gpuQueue, fence, layout, written>>
vars == <<callVars, itemVars, placeVars, device, sets, gpuVars, misused, faulted>>

Submissions == [target : Objects, reads : SUBSET Objects, old : Layouts,
                new : Layouts, fenced : BOOLEAN]

TypeOK ==
  /\ busy \in BOOLEAN
  /\ batch \in Seq(Kinds) /\ next \in Nat /\ start \in Nat
  /\ result \in {"none", "ok", "error"}
  /\ result = "none" <=> (busy \/ item = 0)
  /\ item \in 0..MaxItems
  /\ kind \in [Items -> Kinds \cup {"none"}]
  /\ busy => item \in Items /\ kind[item] \in Kinds
  /\ step \in Nat /\ call \in Nat \ {0}
  /\ locals \subseteq Objects /\ own \subseteq Objects
  /\ held \in Seq(Items)
  /\ device \subseteq Objects
  /\ sets \in 0..PoolSets
  /\ gpuQueue \in Seq(Submissions)
  /\ fence \in BOOLEAN
  /\ layout \in [Items -> Layouts]
  /\ written \subseteq Objects /\ misused \subseteq Objects
  /\ faulted \in Seq({"call", "wait", "reset"}) /\ Len(faulted) <= MaxFailures

Init ==
  /\ busy = FALSE /\ batch = <<>> /\ next = 0 /\ start = 0 /\ result = "none"
  /\ item = 0 /\ kind = [i \in Items |-> "none"] /\ held = <<>>
  /\ step = 1 /\ call = 1 /\ locals = {} /\ own = {}
  /\ device = {} /\ sets = 0
  /\ gpuQueue = <<>> /\ fence = FALSE
  /\ layout = [i \in Items |-> "undefined"] /\ written = {}
  /\ misused = {} /\ faulted = <<>>
-----------------------------------------------------------------------------
(* The graphics queue (external): it executes in order.  A transition from *)
(* UNDEFINED may discard what the image holds.                             *)
GpuFinish ==
  /\ gpuQueue # <<>>
  /\ LET s == Head(gpuQueue) IN
       /\ layout' = [layout EXCEPT ![s.target[1]] = s.new]
       /\ written' = IF s.reads # {} THEN written \cup {s.target}
                     ELSE IF s.old = "undefined" THEN written \ {s.target}
                     ELSE written
       /\ fence' = (fence \/ s.fenced)
  /\ gpuQueue' = Tail(gpuQueue)
  /\ UNCHANGED <<callVars, itemVars, placeVars, device, sets, misused, faulted>>

InUse == UNION {gpuQueue[i].reads \cup {gpuQueue[i].target} :
                  i \in DOMAIN gpuQueue}
-----------------------------------------------------------------------------
(* Making one item                                                         *)
Object(name) == <<item, name>>
Steps   == Program[kind[item]]
Current == Steps[step]
This    == Current.calls[call]
At(op)  == busy /\ step <= Len(Steps) /\ This.op = op

\* Objects come into being and destructors run.
Change(made, destroyed) ==
  /\ device' = (device \cup made) \ destroyed
  /\ misused' = misused \cup (destroyed \cap InUse)

\* CreateMeshes or UI::Create begins with an element of batch.
BeginItem(k) ==
  /\ item' = item + 1
  /\ kind' = [kind EXCEPT ![item + 1] = k]
  /\ step' = 1 /\ call' = 1

\* CreateMeshes, or UI::Create, is called.
Start(b) ==
  /\ ~busy
  /\ item + Len(b) <= MaxItems
  /\ busy' = TRUE /\ result' = "none"
  /\ batch' = b /\ next' = 1 /\ start' = Len(held)
  /\ BeginItem(b[1])
  /\ UNCHANGED <<held, locals, own, device, sets, gpuVars, misused, faulted>>

\* The call succeeded and made some objects.  After the last call of a step
\* the objects it keeps are moved to the value, the others destroyed.
Advance(made) ==
  LET all  == locals \cup made
      kept == {Object(n) : n \in Current.keeps}
  IN
  \/ /\ call < Len(Current.calls)
     /\ call' = call + 1
     /\ locals' = all
     /\ Change(made, {})
     /\ UNCHANGED <<step, own>>
  \/ /\ call = Len(Current.calls)
     /\ step' = step + 1 /\ call' = 1
     /\ locals' = {}
     /\ own' = own \cup (all \cap kept)
     /\ Change(made, all \ kept)

\* What the destructors destroy when an error is returned.
LostLocals == locals
Lost == locals \cup own

\* "return m.error()" in CreateMeshes: the meshes made before stay.
ReturnErrorGoOn ==
  /\ IF next < Len(batch)
     THEN next' = next + 1 /\ BeginItem(batch[next + 1]) /\ UNCHANGED <<busy, result>>
     ELSE busy' = FALSE /\ result' = "ok" /\ UNCHANGED <<next, item, kind, step, call>>
  /\ UNCHANGED <<batch, start, held>>
ReturnErrorUnreturned ==
  /\ busy' = FALSE
  /\ UNCHANGED <<batch, next, start, result, itemVars, step, call>>
ReturnError ==
  /\ busy' = FALSE /\ result' = "error"
  /\ UNCHANGED <<batch, next, start, itemVars, step, call>>

GiveUp ==
  /\ locals' = {}
  /\ \/ /\ Current.ignored
        /\ step' = step + 1 /\ call' = 1
        /\ Change({}, locals)
        /\ UNCHANGED <<own, callVars, itemVars>>
     \/ /\ ~Current.ignored
        /\ own' = {}
        /\ Change({}, Lost)
        /\ ReturnError

Fault(name) ==
  /\ Len(faulted) < MaxFailures
  /\ faulted' = Append(faulted, name)

Fail(name) == Fault(name) /\ GiveUp

MakeObject ==
  /\ At("make") \/ At("new")
  /\ \/ /\ Advance({Object(This.name)})
        /\ UNCHANGED <<callVars, itemVars, faulted>>
     \/ At("make") /\ Fail("call")
  /\ UNCHANGED <<sets, gpuVars>>

CheckCall ==
  /\ At("check")
  /\ \/ Advance({}) /\ UNCHANGED <<callVars, itemVars, faulted>>
     \/ Fail("call")
  /\ UNCHANGED <<sets, gpuVars>>

\* DescriptorSets::Allocate.  No destructor returns sets to the pool.
SetsTakenTwice == 2
SetsTaken == 1

AllocateSets ==
  /\ At("allocate")
  /\ \/ /\ sets + SetsTaken <= PoolSets
        /\ sets' = sets + SetsTaken
        /\ Advance({})
        /\ UNCHANGED <<callVars, itemVars, faulted>>
     \/ /\ sets + SetsTaken > PoolSets
        /\ GiveUp
        /\ UNCHANGED <<sets, faulted>>
     \/ Fail("call") /\ UNCHANGED sets
  /\ UNCHANGED gpuVars

\* EndOneTimeSubmit until vkQueueSubmit.
SubmissionUnfenced ==
  [target |-> Object(This.name), reads |-> {Object(n) : n \in This.reads},
   old |-> This.old, new |-> This.new, fenced |-> FALSE]
Submission ==
  [target |-> Object(This.name), reads |-> {Object(n) : n \in This.reads},
   old |-> This.old, new |-> This.new, fenced |-> TRUE]

Submit ==
  /\ At("submit")
  /\ \/ /\ gpuQueue' = Append(gpuQueue, Submission)
        /\ Advance({})
        /\ UNCHANGED <<callVars, itemVars, faulted>>
     \/ Fail("call") /\ UNCHANGED gpuQueue
  /\ UNCHANGED <<sets, fence, layout, written>>

\* EndOneTimeSubmit from vkWaitForFences on: the fence is signaled, and reset.
WaitedNot == TRUE
Waited == fence

Wait ==
  /\ At("wait")
  /\ \/ /\ Waited
        /\ fence' = FALSE
        /\ Advance({})
        /\ UNCHANGED <<callVars, itemVars, faulted>>
     \/ /\ Fail("wait") \/ (Waited /\ Fail("reset"))
        /\ UNCHANGED fence
  /\ UNCHANGED <<sets, gpuQueue, layout, written>>

\* The function returns the value, its shaders are destroyed, and the mesh is
\* pushed to Meshes(), or the UI moved to its window; on to the next mesh.
Finish ==
  /\ busy /\ step > Len(Steps)
  /\ held' = Append(held, item)
  /\ own' = {}
  /\ Change({}, own \cap {Object(n) : n \in Shaders})
  /\ \/ /\ next < Len(batch)
        /\ next' = next + 1
        /\ BeginItem(batch[next + 1])
        /\ UNCHANGED <<busy, result>>
     \/ /\ next = Len(batch)
        /\ busy' = FALSE /\ result' = "ok"
        /\ UNCHANGED <<next, item, kind, step, call>>
  /\ UNCHANGED <<batch, start, locals, sets, gpuVars, faulted>>

\* The bound is reached.
Stopped == ~busy /\ item = MaxItems /\ gpuQueue = <<>> /\ UNCHANGED vars
-----------------------------------------------------------------------------
Create == MakeObject \/ CheckCall \/ AllocateSets \/ Submit \/ Wait \/ Finish

Next == (\E b \in Batches : Start(b)) \/ Create \/ GpuFinish \/ Stopped

Spec == Init /\ [][Next]_vars

\* The operating system schedules the thread, the GPU finishes what it started.
FairSpec == Spec /\ WF_vars(Create) /\ WF_vars(GpuFinish)
-----------------------------------------------------------------------------
(***************************************************************************)
(* Properties                                                              *)
(***************************************************************************)
Held == {held[n] : n \in DOMAIN held}

\* The members of a mesh and of a UI (mesh.h, ui.h) that are objects.
Members(k) ==
  {"vertexBuffer", "setLayout", "pipelineLayout", "pipeline"} \cup
  CASE k = "ui" -> {"indexBuffer", "commandBuffers", "context", "fontImage",
                    "fontImageView", "fontImageSampler"}
    [] k = "indexed" -> {"indexBuffer", "modelBuffer", "materialBuffer"}
    [] k = "plain"   -> {"modelBuffer", "materialBuffer"}

HeldObjects == UNION {{i} \X Members(kind[i]) : i \in Held}

\* Meshes and UIs are made completely or not at all: whichever calls fail, all
\* members of those that were returned exist, and nothing else does but what the
\* running function will keep or destroy.
NothingLeaked ==
  /\ device = HeldObjects \cup own \cup locals
  /\ ~busy => own = {} /\ locals = {}

\* The fence has been left signaled, or with a submission that will signal it.
FenceLost == \E n \in DOMAIN faulted : faulted[n] \in {"wait", "reset"}

\* No staging buffer, and nothing copied to, is destroyed before the GPU is done
\* with it, whichever calls fail but those on the fence itself.
CopiesSafe == misused = {} \/ FenceLost

\* What needs its data before it is drawn.
Filled(k) == IF k = "ui" THEN {"fontImage"}
             ELSE {"vertexBuffer"} \cup (Members(k) \cap {"indexBuffer"})

\* When a mesh or UI is returned its data has arrived and its image has the
\* layout its descriptor promises, even if the upload whose error Mesh::Create
\* ignores has failed, unless the fence was lost.
FilledWhenReturned ==
  \A i \in Held :
    \/ FenceLost
    \/ /\ {i} \X Filled(kind[i]) \subseteq written
       /\ kind[i] = "ui" => layout[i] = "shaderReadOnly"

\* Every copy and transition finds its image in the layout it was recorded for,
\* also when the fence was lost: the queue is in order, and a function that
\* could not wait submits nothing more for that image.
LayoutsFollow ==
  gpuQueue # <<>> =>
    layout[Head(gpuQueue).target[1]] = Head(gpuQueue).old

\* CreateMeshes returns no error just if it made all meshes of the file;
\* otherwise Meshes() has those before the one that failed, in their order.
AllOrReported ==
  ~busy =>
    LET made == [n \in 1..(Len(held) - start) |-> kind[held[start + n]]] IN
      /\ made = SubSeq(batch, 1, Len(made))
      /\ result = "ok" => Len(made) = Len(batch)
      /\ result = "error" => Len(made) < Len(batch)

\* The pool loses sets, for no destructor frees them, but only to calls that
\* failed, at most one each: without failures it is used by what exists.
SetsLostToFailures ==
  /\ Len(held) <= sets
  /\ sets <= Len(held) + Len(faulted) + (IF busy THEN 1 ELSE 0)

\* No upload hangs the main thread, not even after the fence was lost.
CallsReturn == busy ~> ~busy
=============================================================================
