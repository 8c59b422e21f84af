# Verification of iris

TLA+ models of *iris*, the Vulkan renderer of this repository
(`src/iris`), with TLC configurations that check small instances and TLAPS
proofs for every value of the constants. All paths are relative to the
repository; `renderer.cc`, `window.cc`, `surface.cc` and so on are the files of
`src/iris/renderer`, `window_x11.cc` is in `src/iris/wsi`.

- [The system](#the-system): components, state, interactions, hazards
- [The modules](#the-modules): what each models and how it maps to the code
- [The runs](#the-runs): questions, bounds, fairness, results
- [The proofs](#the-proofs): theorems, inductive invariants, assumptions
- [Where code and documentation disagree](#where-code-and-documentation-disagree)
- [Not modelled](#not-modelled) and [Plan](#plan)

`PROJECT.json` lists the runs, the mutants (a plausible bug for each property
that TLC must find), the source lines of every definition, and the hazards.

## The system

One main thread runs

    Initialize(); LoadFile(...)*; while (IsRunning()) { if (!BeginFrame()) continue; EndFrame(); } Shutdown();

(`iris-viewer.cc:67-87`). TBB workers parse files and post continuations to it;
the GPU executes what it submits to one graphics queue; the X server sends it
events. All state is in the globals of `renderer.cc:121-212`, the windows of
`Windows()` and the meshes of `Meshes()`.

| Component | State | Operations | Correct when |
|---|---|---|---|
| Frame loop (`renderer.cc` BeginFrame, EndFrame) | `sFrameComplete`, `sImagesReadyForPresent`, `sSecondaryCommandBuffers`, command pools, `sMatrixBuffer`, frame number | drain continuations, let windows begin, wait, reset, acquire, record, submit, present | nothing is reused while the GPU uses it; fences and semaphores pair up; the loop survives the failures it handles and never waits for what cannot come |
| One-time submission (`renderer.cc:2251-2343`) | `sOneTimeSubmitFence` | Begin, End | finished before its buffer is freed; fence back to unsignaled |
| Renderer::Window (`window.cc`), UI (`ui.cc`) | `resized`, projection, surface, ImGui context, UI buffers | Create, Resize, Close, BeginFrame, EndFrame, move | a resize is neither lost nor half done; UI frames are paired; the projection is the window's wherever the window is moved |
| Surface (`surface.cc`) | swapchain, extent, views, targets, framebuffers, `imageAvailable`, `currentImageIndex` | Create, Resize, move, destructor | intact whatever fails; extent is the window's; nothing leaks |
| WSI window (`window_x11.cc`) | `rect_`, `keyLUT_`, buttons, scroll, delegates | Create, PollEvents, Dispatch, Close, KeyboardState | state and delegates follow the server's events; ImGui is told of the keys and buttons that are down |
| Lifecycle (`renderer.cc:291-1776`) | all handles, `sInitialized`, `sRunning` | Initialize (twelve functions), Terminate, Shutdown | everything needed exists; destruction in an order that suits |
| IO tasks, control (`renderer.cc:2129-2250`, `io/json.cc`) | `sIOContinuations`, `Windows()`, `Meshes()` | LoadFile, IOTask::execute, Control | every file is dealt with once, in any order; opening a window leaves the others as they are |
| glTF import (`io/gltf.cc`), Mesh (`mesh.cc`) | parsed document, mesh data | ReadGLTF, accessors, node walk, Mesh::Create | indices and ranges are inside what they index; the meshes are what the document means |
| Buffer and image upload (`buffer.cc`, `image.cc`) | buffers, staging buffers, layouts | Create, Update, Transition | staging outlives the copy; layouts are those the use expects |
| RAII wrappers (`descriptor_sets.cc`, `command_buffers.cc`, `pipeline.cc`, `shader.cc`) | one handle each | create, destroy, move | owned once |

Interactions. A worker communicates with the main thread through the
concurrent queue `sIOContinuations` alone. The main thread communicates with
the GPU through the queue, two fences and, per window, the semaphore
`imageAvailable`. `wsi::Window` calls `Renderer::Window` back through delegates
*during* `BeginFrame`: a resize sets a flag, a close clears `sRunning` between
the running check of `BeginFrame` and that of `EndFrame`. `Surface::Resize` has
three callers (`Surface::Create`, `Window::BeginFrame`, `EndFrame`) that react
differently to its errors, and submits one-time work through the command pool
of the frames.

What is hard here, with the lines, is the list `hazards` of `PROJECT.json`. In
short: windows are resized (old surfaces destroyed) *before* the previous frame
is waited for; every Vulkan call may fail and the code answers by returning,
logging, or ignoring, at points where fences are reset and semaphores already
signaled; a resize event can arrive during a resize, and a resize can fail at
nine places; initialization stops half-way; shutdown starts with work in flight;
windows move in memory while their delegates and matrices name them; the state of
the X server changes while the windows are polled; documents are checked with
arithmetic that is slightly off, and read from files that may be missing or cut off.

## The modules

| Module | Contents |
|---|---|
| `FrameOwnership` | abstract: per-frame resources belong to the CPU or the GPU and change hands only by submitting a recorded frame and by finishing it |
| `FrameLoop` | the loop, the windows' part in it, one-time submissions, IO workers, the GPU queue; implements `FrameOwnership` |
| `FrameLoopProofs` | its theorems: the fence, the images and semaphores in use, the refinement |
| `FrameLoopFaultsProofs` | and those of what each failure may cost the windows of a frame |
| `WindowSurface` | one window from creation to shutdown: X events, `resized`, `Surface::Resize` call by call with every error path |
| `WindowSurfaceProofs` | its theorems |
| `Lifecycle` | Initialize with a failure at any object, the loop as far as it creates objects, Shutdown |
| `LifecycleProofs` | its theorems |
| `Upload` | `CreateMeshes` with `Mesh::Create`, and `UI::Create`, call by call, with their staging buffers and one-time submissions |
| `UploadProofs` | its theorems |
| `Gltf` | what the importer makes of a document: `io/gltf.cc` and the loops of `mesh.cc` as operators |
| `GltfScene` | abstract: what a well-formed document means, independent of the order of the importer, and why it may be refused |
| `GltfProofs` | the importer compared with it, for every document and disk |
| `Loading` | the files on the command line: LoadFile, the workers, the continuations, Control and CreateMeshes, and what the frame draws |
| `LoadingProofs` | its theorems |
| `WindowEvents` | all windows together: opened under names, moved by their table, sent events, polled, recorded into one frame |
| `WindowEventsProofs` | its theorems |
| `MC...` | symmetry sets, fault sets, documents and keyboard mappings for TLC |

### FrameLoop

`pc` is the main thread's position; every Vulkan call that may fail and every
point where another process matters is a step.

| Steps | Code |
|---|---|
| `LoopTop`, `RunContinuation`, `DrainDone`, `PollWindow`, `NewFrame`, `WindowsDone`, `WaitFrameFence`, `ResetFrameFence`, `ResetPool` | `BeginFrame` 1782-1830 with `Window::BeginFrame` |
| `ResizeStart`, `OneTimeSubmit`, `OneTimeWait`, `Commit`, `Abandon` | `Surface::Resize`, Begin/EndOneTimeSubmit, and the caller's answer to an error (`site` is the caller) |
| `Acquire`, `Reacquire`, `Record`, `BeginPrimary`, `Pass`, `EndWindow`, `PassesDone`, `Submit`, `Present` | `EndFrame` 1832-2127; `EndWindow` is `Window::EndFrame` |
| `WaitQueueIdle`, `Shutdown` | `Shutdown`: its two waits, then all it destroys |
| `FinishLoad` | `IOTask::execute`, a worker |
| `GpuFinish` | external: the queue executes in order and signals the fence |

Data abstracted: a submission is the set of resources it uses; an image index
is "none", "current" or "stale"; a semaphore is its number of unconsumed
signals; a continuation is the file it came from. `clobbered` and `faulted` are
history variables: resources destroyed or rewritten while a submission in the
queue used them, and the calls that have failed. The properties say *after
which failures* something may go wrong, so each also states which failures are
harmless. A one-time submission is taken to use the pool and its command buffer
only: the images it transitions or fills are new.

Every error that `EndFrame` only logs is a fault of its own: `allocate`
(`vkAllocateCommandBuffers`, 1884: the vector has its new size and keeps null handles),
`record` (a command buffer that cannot be begun or ended), `mapUniforms`
(`vmaMapMemory`, 1981 and 2026), `endWindow` (`Window::EndFrame`). What a call does with
a null handle, a command buffer in the wrong state or the pointer of a failed mapping is
undefined: the process goes on or is `crashed` (`GoOnOrCrash`). The results of the two
waits of `Shutdown`, which are not looked at, are `waitQueue` and `waitDevice`.
`secondaries` is what each handle of `sSecondaryCommandBuffers` stands for: null,
or a command buffer not recorded since the pool was reset, recorded, or invalid.

A failing `Resize` is one fault with a coarse outcome here ("old swapchain
retired or not"); `WindowSurface` has all of its steps. Here a resize may
succeed with a retired `oldSwapchain`, as on drivers that do not insist on the
Vulkan rule; `WindowSurface` has both kinds of driver (`driver.lenient`).

### WindowSurface

`Configure` and `AskClose` are the X server, which acts at any time, also during
`Resize`. `DispatchConfigure` and `DispatchClose` are
`wsi::Window::Impl::Dispatch`. `Caps`, `CreateSwapchain`, `Build` (one step for
each of seven calls, named by `NextStep`) and `Commit` are `Surface::Resize`;
`ResizeFails` is its error path with what each of its three callers does next.
`swapchains` and `objects` are what exists on the device, `swapchain` and
`extent` what the `Surface` says. A retired swapchain always answers "out of
date" to an acquire. "hung" is the state in which `EndFrame` has submitted a
frame that waits on a semaphore no acquire will signal; `FrameLoop` shows how
the loop gets there.

### Lifecycle

`Function(f, expectsSet, expectsNull, creates)` is the shape of every function
of `Initialize`: its `Expects`, then the objects it creates in order, and an
error return at the first that cannot be created. `handles` are the globals that
are set, `exist` the objects that exist; they differ because Shutdown destroys
objects without resetting handles. Nothing else runs during Initialize and
Shutdown, so each function, and each destruction, is one step. `Parents`
(external) is which object Vulkan and the memory allocator need for another. Whether
the GPU is still working when Shutdown destroys things is a question to `FrameLoop`, and
the swapchain that a failed resize leaks (`surface.cc:378`) one to `WindowSurface`.

### Upload

The two functions are data: `Program[kind]` is a list of steps, each a list of
calls, and the actions are those of one call (`MakeObject`, `CheckCall`,
`AllocateSets`, `Submit`, `Wait`), each with its failure. A step is one statement
of the function: the objects it makes are locals of the called function until it
returns, then members of the value (`Advance`). `GiveUp` is an error return:
the destructors run for the locals and for the value under construction, except
where `Mesh::Create` ignores the error (`mesh.cc:356`). `BufferUpload`,
`Transition` and `ImageUpload` are `Buffer::CreateFromMemory`,
`Image::Transition` and `Image::CreateFromMemory`. Abstracted: what is written to
the buffers, the settings of pipelines and samplers, a buffer with its memory as
one object. `misused` and `faulted` are history variables. Submitting with a
fence that an earlier failed wait left signaled, which Vulkan forbids, is taken
to be accepted by the driver. A UI that was made and is then destroyed because a
later part of `Window::Create` fails, or because `emplace` finds its window's name used
(`renderer.cc:2211`), is not in the module: it loses its descriptor set, too.

### Gltf and GltfScene

`Gltf` has an operator for each function of the importer (`AccessorData` is
`GetAccessorData`, `ParseNode` the walk of the nodes, `ReadGLTF` the whole). A result is
data, an error, or *undefined* where the code would read outside a vector; every check
is there with the comparison the code has. The content of a file is abstracted to where
it is read from: an element of an accessor is the file and the byte it starts at, a
matrix is the sequence of its factors. `GltfScene` says what the data should be as a
relation: the paths from the root to the nodes with meshes (no walk), their transforms,
and the places of the elements with offsets and strides. Documents are taken to be
well-formed (`WellFormed`), which asks little: offsets and lengths are natural numbers,
an accessor has at least one element, and no node is below two nodes or below itself.
The numbers by which the parts of a document refer to each other may be any integers,
accessors of any type may be used for anything, and the values of indices are those of
the file: the constant `IndexAt` is what a place of a file holds. The files on the disk
may be missing or shorter. `Corners`, `NormalsInside` and `TangentsInside` are the
accesses to vertices that `mesh.cc` makes with those values. `MayBeUndefined` and
`MayFail` are the reasons for which an import may be undefined or refused. `ParseNode`
is a call for each depth: one nested deeper than there are nodes would never return, and
is undefined.

### Loading

`LoadFile`, `TaskPushes`/`TaskIgnores`/`TaskCrashes` (`IOTask::execute` on a worker, one
step: it shares nothing but the queue), `RunContinuation` with `CreateMeshes` and
`Control` (which refuses a message of another type), `BeginWindows` and `EndFrame`.
`content` and `disk` are chosen in `Init`. A read outside a vector ends in
`TaskCrashes`, or in garbage that is pushed. What `CreateMeshes` does with the GPU is in
`Upload`, what `Control` does with windows in `WindowEvents`.

### WindowEvents

| Steps | Code |
|---|---|
| `Configure`, `Press`, `Release`, `KeyDown`, `KeyUp`, `Remap`, `AskClose` | external: the X server, one queue of events for each window's connection |
| `OpenWindow`, `OpenFails` | a window of a control message: `Window::Create`, moves, `Windows().emplace` |
| `PollEvents`, `BeginWindow`, `BeginWindowFails`, `EndPolling` | `Window::BeginFrame`, one event dispatched in a step, so that others arrive in between |
| `RecordPass`, `EndFrame` | the loop over `Windows()` in `EndFrame`, which writes `sMatrixBuffer` |

`Emplace` has the three things `absl::flat_hash_map` may do: keep the window of that
name, add one, or add one and move all. A `Window` record has what the move
operations do and do not carry over; `serial`, `mapping` and `resizedWhen` are
history. Widths stand for sizes, a projection for the size it was computed for and
whether y is turned over. Key codes are counted as the code does (`KeysToKeyCode`
from 8, `KeyboardState` in bytes from 1). The wheel is left out: nothing reads it.

## The runs

| Run | Question | Bounds | States | Result |
|---|---|---|---|---|
| `frame_loop_faults` | what holds with two windows and any two failing calls at any of eighteen sites | 2 windows, `MaxFailures` 2, one upload per continuation; windows symmetric | 3.1 million | holds |
| `frame_loop_live` | refinement of `FrameOwnership` and liveness when the failures the loop survives occur | 2 windows, 1 scene, `MaxFailures` 1 | 62 thousand | holds |
| `frame_loop_acquire` | does the submission wait only on acquired semaphores? | 1 window, 1 failing acquire | | violated |
| `window_surface_faults` | is the surface intact, not leaking and of the right extent, whatever fails | sizes {1, 4} with clamp [2, 3], `MaxFailures` 2, `MaxConfigures` 2, 4 swapchain names | 407 thousand | holds |
| `window_surface_live` | does the extent recover | `MaxFailures` 1, `MaxConfigures` 1, two offsets | 748 thousand | holds |
| `window_surface_moved` | does `rect_` follow the position | as above, no failure | | violated |
| `lifecycle_viewer` | do creation and destruction orders agree | 2 threads, 2 windows, 2 meshes, `MaxFailures` 2 | 227 | holds |
| `upload_faults` | are meshes and UIs made completely or not at all, with their data, whatever fails | batches of a UI, one mesh, two meshes; `MaxItems` 3, `PoolSets` 2, `MaxFailures` 2 | 319 thousand | holds |
| `lifecycle_retry` | may Initialize be called again after an error | as above | | violated |
| `loading` | is every file settled once, is an import what the document means, and if it is refused or undefined, why | 2 files: one of 60 documents or broken text, and a second glTF, control or unknown file; 8 disks (all whole, one file missing, a buffer cut off) | 156 thousand | holds |
| `loading_draws` | does every mesh draw something? | as above | | violated |
| `windows` | do windows keep to the server's state, under one name or two, moved or not; whose matrices does a frame use | 2 names, widths {1, 65536, 65538}, sizes {1, 2}, 2 keys with codes {8, 17, 62, 255} in 2 mappings, 2 buttons, 2 windows opened, 2 events; names symmetric | 1.2 million | holds |

Why the bounds are enough. Two windows are the fewest with which one fails while the
other has begun its frame or has acquired its image, and with which
`sSecondaryCommandBuffers` can be too small. Two failures allow a failure in the
recovery from another. Sizes 1 and 4 lie on either side of the clamp, so that clamping
both matters and merges. Swapchain names must be two more than the failures (the
surface's, the new one, one leaked per failed image view). Three items and a pool of two
sets let a call fail half-way through a file, the next one succeed, and the pool run
out. `MaxUploads` is one because a second upload repeats the same steps; the proofs do
not depend on it. The documents of `loading` have one each of what the importer treats
differently: indices or none, normals and tangents given or not, nodes above and below
their parents in the array, two primitives in a mesh, a mesh in two nodes, each kind of
transform, interleaved views, images of either kind, default scenes. Three sets of
documents are malformed, each in one place: `Dangling` has references to the number
after an array's last, to one further away and to -1, and empty arrays; `Misused` has
accessors of the wrong type or length; `Beyond` has index values beyond the positions
where normals, tangents, both or none are generated, and in a corner that belongs to no
whole face. Without any one of the reasons of `MayFail` and `MayBeUndefined` some
document violates `OutcomesExplained`, except the two reasons that follow from others (a
buffer without a file, no array of nodes). Two windows and two events let a window be
opened under a used name, move another one that has events waiting, and be resized and
pressed in either order; width 65538 is 2 in 16 bits and 65536 is 0. Code 8 is the
first, 17 and 62 are in other bytes, 255 is beyond what is looked at. The counters that
are bounded are named in the guards (`MaxFailures`, `MaxConfigures`, `MaxUploads`,
`MaxItems`, `MaxOpened`, `MaxEvents`); two unconsumed signals of a semaphore stand for
two or more.

Deadlock is checked but in three places. In `frame_loop_faults` the main thread may
really wait for ever, which `HangsOnlyAfterUnrecovered` describes; `loading` and
`windows` end when the loop is left or, without a window, spins with nothing to do. A
thread waiting in
`window_surface_*` for a frame that never starts, and an ended process in
`lifecycle_*` and the reached bound in `upload_faults`, stutter explicitly.

Fairness. `FrameLoop!FairSpec` has weak fairness of the main thread as a whole
and of every IO task (the operating system schedules them; neither waits for
anything except the fences the steps name) and of the GPU (it finishes what it
can start). No fairness is assumed of failures, events, window closing, or of
any single step of the main thread, and the choice between success and failure
is free. `WindowSurface!FairSpec` has weak fairness of the main thread, `Upload!FairSpec` of
the main thread inside a call and of the GPU; nobody has to start a call.

What the runs show of the failure handling, besides the properties that hold
outright:

- Nothing is destroyed or rewritten under the GPU, because any Resize contains
  two one-time submissions whose fence, on a queue that executes in order, also
  covers the previous frame (`NothingClobbered`). The wait in `BeginFrame` comes
  too late for this, and if the one-time wait itself fails the protection is gone.
  Nor does Shutdown destroy what is in use, unless both its waits fail.
- The loop survives a failed continuation, a resize failing in `BeginFrame`, a
  failed wait or reset of the frame fence and a failed present, and, as far as the fence
  goes, everything that fails while a frame is recorded, if the process survives it. After a failed
  pool reset, acquire, submit or a resize failing in `EndFrame` it may hang
  (`HangsOnlyAfterUnrecovered`).
- A frame executes one secondary command buffer per window, recorded since the pool
  was reset (`SecondariesRecorded`), but after a failed allocation the null handles stay
  in the vector, for all later frames, until a window is added.
- A suboptimal acquire signals `imageAvailable` twice; a failed present leaves
  `sImagesReadyForPresent` signaled (`SemaphoresBalanced` states both exceptions).
- A failed image view leaks the new swapchain; every other failure of Resize
  leaves exactly the surface's own objects (`NothingLeaked`).
- A mesh or UI is complete, with its data on the device and its font image in the
  layout its descriptor names, or it leaves no object behind, except a descriptor
  set, which no destructor frees (`SetsLostToFailures`). The upload whose error is
  ignored does no harm. Only a failed wait or reset of the one-time fence can take
  a staging buffer from under its copy (`CopiesSafe`); even then layouts follow and
  the calls return.
- What is imported is what the document means (`ImportFaithful`) but for three things
  the property names: a node that is translated or scaled collapses
  (`glm::translate({}, ...)` starts from zeros), `byteStride` is not looked at, and
  after a buffer that cannot be read the later ones are taken for each other. The
  scene imported is the first node's, by the number of the default scene.
- The importer reads or writes outside a vector only for one of seven reasons
  (`MayBeUndefined`): a buffer's file is missing or shorter
  than the document says; an accessor goes on after the end of its buffer (the check
  counts one component per element) or its stride is less than its elements; an image is in
  a bufferView; a reference is exactly the size of its array (the checks are `size() < index`),
  which for an empty array of nodes is 0; an attribute is shorter than the positions;
  normals are generated for corners that are not whole triangles; or an index value is beyond
  the positions (or read from between interleaved ones) where normals or tangents are
  generated. `OutcomesExplained` says this, and lists every reason for a refusal.
- A window's projection is that of the size it knows of (`ProjectionFollows`), but only
  until the first resize turned over as Vulkan wants it, and its inverse is
  indeterminate from the move into `Windows()` to the next resize.
- The passes of a frame share one `sMatrixBuffer`, written while recording and read
  when drawn: every window is drawn with the matrices of the one recorded last
  (`FrameReadsOneWindow`).
- A name that is used again keeps the first window (`FirstComeStays`). ImGui's input is
  the server's (`InputTrue`), except that keys follow the mapping of when the window
  was created and a key without a code follows code 8.

## The proofs

| Theorem | For every | Says |
|---|---|---|
| `FrameLoopProofs!TypeCorrect` | windows, scenes, faults, bounds | `[]TypeOK` |
| `FrameLoopProofs!FrameFenceCorrect` | | `[]FrameFenceTruthful`: at most one frame queued, and the fence unsignaled meanwhile |
| `FrameLoopProofs!NothingClobberedCorrect` | | `[]NothingClobbered` |
| `FrameLoopProofs!OwnershipRefined` | | `Spec => Ownership!Spec`, the safety part of the refinement |
| `FrameLoopFaultsProofs!SecondariesRecordedCorrect` | | `[]SecondariesRecorded` |
| `FrameLoopFaultsProofs!AcquiresLiveSwapchainCorrect` | | `[]AcquiresLiveSwapchain` |
| `FrameLoopFaultsProofs!RecordsAcquiredImagesCorrect` | | `[]RecordsAcquiredImages` |
| `FrameLoopFaultsProofs!SemaphoresBalancedCorrect` | | `[]SemaphoresBalanced` |
| `FrameLoopFaultsProofs!HangsOnlyAfterUnrecoveredCorrect` | | `[]HangsOnlyAfterUnrecovered` |
| `FrameLoopFaultsProofs!UiFramesPairedCorrect` | | `[]UiFramesPaired` |
| `WindowSurfaceProofs!TypeCorrect` | sizes, offsets, extents, faults, bounds | `[]TypeOK` |
| `WindowSurfaceProofs!SurfaceIntactCorrect` | | `[]SurfaceIntact` |
| `WindowSurfaceProofs!NothingLeakedCorrect` | | `[]NothingLeaked` |
| `WindowSurfaceProofs!ExtentFollowsCorrect` | | `[]ExtentFollows` |
| `LifecycleProofs!TypeCorrect` | pools, windows, meshes, failures, retries | `[]TypeOK` |
| `LifecycleProofs!ParentsExistCorrect` | | `[]ParentsExist` |
| `LifecycleProofs!InitializedCompleteCorrect` | | `[]InitializedComplete` |
| `LifecycleProofs!ShutdownLeavesNothingCorrect` | | `[]ShutdownLeavesNothing` |
| `WindowEventsProofs!TypeCorrect` | names, widths, keys, codes, mappings, bounds | `[]TypeOK` |
| `WindowEventsProofs!ProjectionFollowsCorrect` | | `[]ProjectionFollows` |
| `WindowEventsProofs!FirstComeStaysCorrect` | | `FirstComeStays`, of every step |
| `WindowEventsProofs!FrameReadsOneWindowCorrect` | | `[]FrameReadsOneWindow` |
| `WindowEventsProofs!InputTrueCorrect` | | `InputTrue`, of every step |
| `UploadProofs!TypeCorrect` | batches, pool sizes, failures, bounds | `[]TypeOK` |
| `UploadProofs!NothingLeakedCorrect` | | `[]NothingLeaked` |
| `UploadProofs!CopiesSafeCorrect` | | `[]CopiesSafe` |
| `UploadProofs!FilledWhenReturnedCorrect` | | `[]FilledWhenReturned` |
| `UploadProofs!LayoutsFollowCorrect` | | `[]LayoutsFollow` |
| `UploadProofs!AllOrReportedCorrect` | | `[]AllOrReported` |
| `UploadProofs!SetsLostToFailuresCorrect` | | `[]SetsLostToFailures` |
| `LoadingProofs!TypeCorrect` | files, contents, disks | `[]TypeOK` |
| `LoadingProofs!LoadsAccountedCorrect` | | `[]LoadsAccounted` |
| `LoadingProofs!ImportFaithfulCorrect` | | `[]ImportFaithful` |
| `LoadingProofs!OutcomesExplainedCorrect` | | `[]OutcomesExplained` |
| `GltfProofs!ImporterCorrect` | well-formed documents, disks | what `ReadGLTF` returns is the document's meaning (`Imports`), or a failure with a reason (`MayFail`, `MayBeUndefined`) |

They rest on the assumptions named in the modules (`FrameLoopAssumption`,
`WindowSurfaceAssumption`, `LifecycleAssumption`, `WindowEventsAssumption`, `UploadAssumption`,
`LoadingAssumption`: the constants are sets and numbers of the right kind, and documents
are well-formed; `NoneAssumption`: an absent optional is not a number) and on nothing else.
The documents of the run `loading`, the malformed ones included, satisfy `WellFormed`, as TLC
evaluates these assumptions.

`FrameLoop`. `TypeInv` adds `ControlInv` to the types: which window or scene is
being worked on at which `pc`, without which `resized[cur]` has no type.
`FrameInv` adds to `FrameFenceTruthful` that no frame is queued while one is being
recorded and that the fence is unsignaled from its reset to the submission; this is
what makes the submitted frame the only one. `ClobberInv` says that, unless a
one-time submission's fence was lost, nothing is clobbered (after both waits of Shutdown
have failed, before it is done) and `OneTimeLast`: a
one-time submission is in the queue only while the main thread waits for it, as
the last entry, and when its fence is signaled, and until the old surface is
destroyed in `commit`, the queue is empty. That is the argument for Resize running
before the frame fence is waited for. The refinement follows from `TypeInv` and
`FrameInv`.

`FrameLoopFaultsProofs` adds what holds of the windows of a frame, each part unless one
of the failures it names has happened. `PlaceInv`: only a window that the loop over
`Windows()` has not finished is worked on, so that the loops can be reasoned about by
the windows done with, `open \ todo`. `LiveInv`: a retired swapchain is that of a
window that is resized again. A Resize that fails in BeginFrame leaves `resized` set,
the frame is given up, and the window is resized before a frame acquires anything; one
that fails in EndFrame is not, and is among the exceptions. `ImageInv` and
`SemaphoreInv`: while images are acquired, the windows done with have an image of the
present swapchain and one signal on its way, the others none. `HangInv`: the fence is
signaled, or a frame will signal it, or the loop has ended; with `FrameInv`, which
allows one frame in the queue, no wait can be in vain. `UiInv` follows the ImGui
frame of each window from BeginFrame's loop to that of EndFrame. `SecondaryInv`: there are
never more secondaries than windows, so that a frame which has recorded one per window
has recorded them all.

`WindowSurface`. `Inv` says for every step of Resize what exists: the surface's
own swapchain (`OldOne`), the new one (`NewOne`), the objects of the old one and those
built so far of the new one (`ObjectsInv`), and no other swapchain unless an image
view has failed (`SwapchainsInv`). `ExtentFollows` needs `FollowInv`: the last size
queued, or else the one in `rect`, is the server's (`ServerSize`); whenever no queued
event will change the size (`Settled`), the surface's extent, or that of the Resize
in progress, is the one wanted unless `resized` is set (`ExtentInv`); and `resized` is
set during a Resize just when BeginFrame called it (`ResizedInv`), so that EndFrame
clearing it after an error forgets nothing.

`Lifecycle`. `MadeInv` says what each function of Initialize finds when those before it
have succeeded (`Made`), with handle and object; `FunctionStep` is the one argument for
all of them: a function whose objects have their parents in `Made` keeps the invariant
even if it fails half-way, and its successor finds what `Made` says. A second Initialize
needs nothing of its own, as `Made` is a lower bound. `GoneInv` says what Shutdown has
destroyed. `ParentsExist` then rests on the position of the five objects that others are
made from in `DestroyOrder` (`RootOrder`), which makes every object go no later than
what it was made from (`ChildrenFirst`), and `ShutdownLeavesNothing` on every object
having a position (`AllDestroyed`).

`WindowEvents`. `Inv` adds to the types which variables are in use at which `pc`, and
that a button is held only in a window of `Windows()` (`ControlInv`), without which a
release could go to a window that is not there. The other invariants are about one
window at a time, so there is one lemma of what a step does to each (`EachSteps`):
leave it, move it, send it an event, dispatch its first event, or begin its frame.
`Follows` says of each what `ProjectionFollows` does and that its delegates are bound
to it, which is why a resize reaches it after it was moved. The pending events
tell the server's size, and the buttons that it holds, before and after an event is
appended or dispatched (`SentFollows`, `DispatchedFollows`, `SentButtons`,
`DispatchedButtons`), whatever their number. `CodesTrue` relates `keyLUT` to the mapping
of when the window was created: the smallest code from 8 that has the key, less 8
(`KeyCodeRead`), is found again at byte `x / 8 + 1` and bit `x % 8` of the answer
(`BitOfCode`). `MatrixInv` says that the buffer has the matrices of the window
recorded last, which the server cannot change.

`Upload`. The two functions are data, so the argument has two halves. One is about the lists
of calls: `Facts` says of each step of each kind, from its calls alone, what it makes, copies
and keeps, that each submission is followed by its wait and finds its staging buffer made,
where the descriptor sets are allocated, and that the layouts continue each other from call
to call and from step to step (`StepFacts`, `Position`, `LayoutAt`). The other is about the
actions, whatever the list: `PlaceInv` says where in the lists the function is, `ObjectInv`
that what exists is what the finished steps keep and the calls of this step have made,
`QueueInv` that a submission is in the queue only while the function waits for it, which is
what makes it safe to destroy the staging buffer. `FilledInv` follows what was copied from
the submission to the buffer; it and `QueueInv` hold unless the fence was lost. `LayoutInv`
holds even then: the queue takes each image from the layout it has through those of the
submissions still queued to the one the function is at, and items come one after the other.
`BatchInv` counts the items made, `SetsInv` the descriptor sets allocated before and after
the step that allocates.

`Loading`. `QueueInv` says that a file is queued once (`QueuedOnce`), so that its
continuation is the only one that makes meshes for it, and that what is queued is what the
importer returned for that file (`Carries`), or garbage if it read outside a vector. What a
step does to the queue is in `PushedQueue` and `PoppedQueue`, what it does to the meshes in
`MadeBlock` (those of the file it is for) and `SameMeshes` (all others). `Carries` also
has that a glTF file with an error is one that may be refused (`Refusable`), and `CrashInv`
that the task that crashed is there with an undefined import; what an import may be
is `ImporterCorrect`.

`GltfProofs` follows the importer from the inside out. `Explained(g, disk, result, X)`
is what is shown of every result: it is Ok with one mesh for each of the drawables X,
which means it (`Depicts`), or it is an error or undefined for a listed reason. Results
of disjoint X add up (`CollectExplained`), as the concatenation of the meshes does
(`DepictsAll`). A reference that is refused, or read one behind the end, is one of
`References` (`ReferencesAre`, `ReferenceRefused`). From the accessor (`ViewDataIs`: the
check that `GetAccessorData` makes fails only if the file is shorter than the document
says, or the accessor longer than its buffer) come the attributes and the primitive
(`PrimitiveExplained`: the corners of its faces are the values of its indices,
`CornersAre`, and one that is outside is a reason, `CornerOutside`), and the node's mesh
(`NodeMeshExplained`). For the walk, `Below(g, root, p)` are the drawables on paths that
begin with p: those of its last node and, apart from these and from each other, those
below its children (`BelowSplits`), which a document that lists a child twice would not
have. The matrix that is handed down agrees with the path walked so far, unless a node
on it collapses (`MatrixStep`). Paths meet no node twice, so they are no longer than
there are nodes (`PathShort`, by the pigeonhole principle), and the calls come back
(`TreeExplained`). All this is induction over lengths and depths. The library's
induction theorems take an operator, which the provers cannot instantiate;
`InductionInSet` is the same for a set of numbers, from the existence of a least
element, and shows that the recursive functions `FlattenSeq`, `Paths` and `ParseNode`
are defined.

Only model-checked: the liveness properties and the fairness part of the
refinement, as temporal proofs under fairness need ENABLED, which the prover does not
handle. Every invariant and every action property that a passing run checks is proved.

## Where code and documentation disagree

- `EndFrame` comments that it waits "on all acquired image semaphores"
  (`renderer.cc:2081`) but waits on every window's, acquired or not
  (`frame_loop_acquire`).
- `wsi/window.h:143`: "Delegate function called when the window is moved." A
  `ConfigureNotify` that changes size and position at once does not call it and
  loses the position (`window_surface_moved`).
- `InitInstance` asserts that there is no instance yet (`renderer.cc:296`), which a
  second `Initialize` after one that returned an error breaks (`lifecycle_retry`).

- The importer quotes the format: "When the indices property is not defined, GL's
  drawArrays function should be used with a count equal to the count property of any
  of the accessors" (`io/gltf.cc:898`). `Mesh::numVertices` is never set, so such a
  mesh is drawn with no vertices (`loading_draws`).

## Not modelled

- What command buffers draw but for the counts and the projection, lights, the view
  matrix and the trackball, frame times, ImGui's contents, logging.
- The text of JSON documents: a document is what `from_json` makes of it. Materials,
  textures, skins and animations, which the importer parses and does not use.
- X atoms, titles, decorations, the cursor and the wheel (which nothing reads).
- The settings of pipelines, shaders (and the files they include), samplers and
  render passes; the objects themselves are in `Upload` and `Lifecycle`.
- `Image::CreateFromMemory` for memory the host can see, which has no caller.
- `mikktspace.c` (third-party), and the vectors `mesh.cc` computes with it
  (numerical); which corners they are computed for is in `Gltf`.
- Integer overflow in the importer: offsets, lengths and counts are natural numbers.
- `window_win32.cc`: the same interface as the X11 window over another system.
- Vulkan, the X server, TBB and the memory allocator are external and modelled by
  what the code relies on: in-order queue, fences, semaphores, retired
  swapchains, capabilities that are those of the moment they are asked for.

## Plan

Done, in this order: `FrameOwnership`, `FrameLoop` and its two modules of proofs, `WindowSurface`
and its proofs, `Lifecycle` and its proofs, `Upload` and its proofs, `Gltf` and `GltfScene` and their
proofs, `Loading` and its proofs, `WindowEvents` and its proofs.

Next:

1. `DeviceChoice`: `IsPhysicalDeviceGood` (`renderer.cc:766-897`) as a predicate against
   the requirements stated in `Initialize`.
