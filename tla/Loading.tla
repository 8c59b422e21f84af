------------------------------ MODULE Loading ------------------------------
(***************************************************************************)
(* Loading the files named on the command line: LoadFile enqueues an IO     *)
(* task for each, TBB workers read and parse them and push a continuation   *)
(* for the main thread, which runs the continuations in BeginFrame: the     *)
(* meshes of a glTF file join Meshes(), a control file opens windows, and   *)
(* EndFrame draws every mesh.                                               *)
(*                                                                          *)
(* A task shares nothing with the other threads but the queue it pushes to, *)
(* so it is one step, as is the continuation.  What the files hold and      *)
(* which of them can be read does not change.                               *)
(***************************************************************************)
EXTENDS GltfScene

CONSTANTS
  Files,     \* the arguments of iris-viewer
  Contents,  \* what each of them may hold
  Disks,     \* the sizes of the files that can be read
  Broken     \* text that does not parse

ASSUME LoadingAssumption ==
  /\ IsFiniteSet(Files)
  /\ \A f \in Files : \A c \in Contents[f] :
       /\ c.extension \in {".gltf", ".json", "other"}
       /\ c.extension = ".gltf" /\ c.value # Broken => WellFormed(c.value)
  /\ \A d \in Disks : \A path \in DOMAIN d : d[path] \in Nat

Holdings == {c \in [Files -> UNION {Contents[f] : f \in Files}] :
               \A f \in Files : c[f] \in Contents[f]}

VARIABLES
  content,           \* what each file holds
  disk,              \* the files that can be read, with their sizes
  pc,                \* where the main thread is
  arguments,         \* files LoadFile has not been called for
  tasks,             \* files whose IO task has not finished
  ioContinuations,   \* sIOContinuations
  outcome,           \* what has become of each file
  windows,           \* keys of Windows()
  meshes,            \* Meshes()
  drawn,             \* vertices of each draw call of the last frame
  running            \* sRunning

environment == <<content, disk>>
scene       == <<windows, meshes>>
vars == <<environment, pc, arguments, tasks, ioContinuations, outcome, scene,
          drawn, running>>

Continuation(f, kind, data) == [file |-> f, kind |-> kind, data |-> data]
Queued == {ioContinuations[i].file : i \in DOMAIN ioContinuations}

TypeOK ==
  /\ content \in Holdings
  /\ disk \in Disks
  /\ pc \in {"arguments", "begin", "frame", "done", "crashed"}
  /\ arguments \subseteq Files
  /\ tasks \subseteq Files
  /\ IsVector(ioContinuations)
  /\ \A i \in DOMAIN ioContinuations :
       LET c == ioContinuations[i]
       IN /\ c.file \in Files
          /\ c.kind \in {"error", "meshes", "control"}
          /\ c.kind = "meshes" => AreMeshData(c.data)
  /\ outcome \in [Files -> {"waiting", "refused", "ignored", "failed", "loaded"}]
  /\ IsVector(meshes)
  /\ \A i \in DOMAIN meshes :
       /\ meshes[i].file \in Files
       /\ {meshes[i].numIndices, meshes[i].numVertices} \subseteq Nat
  /\ drawn \in Seq(Nat)
  /\ running \in BOOLEAN

Init ==
  /\ content \in Holdings
  /\ disk \in Disks
  /\ pc = "arguments"
  /\ arguments = Files
  /\ tasks = {}
  /\ ioContinuations = <<>>
  /\ outcome = [f \in Files |-> "waiting"]
  /\ windows = {}
  /\ meshes = <<>>
  /\ drawn = <<>>
  /\ running = TRUE
-----------------------------------------------------------------------------
(* The main thread before its loop.                                         *)

\* LoadFile: enqueuing the task may throw.
LoadFile(f) ==
  /\ pc = "arguments"
  /\ f \in arguments
  /\ arguments' = arguments \ {f}
  /\ \/ tasks' = tasks \cup {f} /\ UNCHANGED outcome
     \/ outcome' = [outcome EXCEPT ![f] = "refused"] /\ UNCHANGED tasks
  /\ UNCHANGED <<environment, pc, ioContinuations, scene, drawn, running>>

EnterLoop ==
  /\ pc = "arguments"
  /\ arguments = {}
  /\ pc' = "begin"
  /\ UNCHANGED <<environment, arguments, tasks, ioContinuations, outcome,
                 scene, drawn, running>>
-----------------------------------------------------------------------------
(* The workers.                                                             *)

\* LoadJSON and LoadGLTF: the continuations they may return.
LoadJSON(f) ==
  IF Readable(disk, f) /\ content[f].value # Broken
  THEN {Continuation(f, "control", content[f].value)}
  ELSE {Continuation(f, "error", <<>>)}

\* Reading outside a vector may yield anything.
Garbage == [name |-> <<None, 0>>, indices |-> <<Zero>>]

Imported(f) ==
  IF Readable(disk, f) /\ content[f].value # Broken
  THEN ReadGLTF(content[f].value, disk) ELSE Error

LoadGLTF(f) ==
  LET result == Imported(f)
  IN CASE result.status = "ok" -> {Continuation(f, "meshes", result.data)}
       [] result.status = "error" -> {Continuation(f, "error", <<>>)}
       [] result.status = "undefined" ->
            {Continuation(f, "error", <<>>),
             Continuation(f, "meshes", <<Garbage>>)}

\* IOTask::execute
TaskDone(f) ==
  /\ pc # "crashed"
  /\ f \in tasks
  /\ tasks' = tasks \ {f}
  /\ UNCHANGED <<environment, pc, arguments, scene, drawn, running>>

TaskPushes(f) ==
  /\ TaskDone(f)
  /\ content[f].extension # "other"
  /\ \E c \in IF content[f].extension = ".json" THEN LoadJSON(f) ELSE LoadGLTF(f) :
       ioContinuations' = Append(ioContinuations, c)
  /\ UNCHANGED outcome

TaskIgnores(f) ==
  /\ TaskDone(f)
  /\ content[f].extension = "other"
  /\ outcome' = [outcome EXCEPT ![f] = "ignored"]
  /\ UNCHANGED ioContinuations

TaskCrashes(f) ==
  /\ pc # "crashed"
  /\ f \in tasks
  /\ content[f].extension = ".gltf"
  /\ Imported(f).status = "undefined"
  /\ pc' = "crashed"
  /\ UNCHANGED <<environment, arguments, tasks, ioContinuations, outcome,
                 scene, drawn, running>>
-----------------------------------------------------------------------------
(* The loop.                                                                *)

\* Mesh::Create, of which this is what EndFrame reads.
Mesh(f, data) ==
  [file |-> f, name |-> data.name, numIndices |-> Len(data.indices),
   numVertices |-> 0]

\* CreateMeshes stops at the first mesh that cannot be created.
CreateMeshesUnreported(f, data) ==
  \E created \in 0..Len(data) :
    /\ meshes' = meshes \o [i \in 1..created |-> Mesh(f, data[i])]
    /\ outcome' = [outcome EXCEPT ![f] = "loaded"]
    /\ UNCHANGED windows
CreateMeshes(f, data) ==
  \E created \in 0..Len(data) :
    /\ meshes' = meshes \o [i \in 1..created |-> Mesh(f, data[i])]
    /\ outcome' = [outcome EXCEPT ![f] =
                     IF created = Len(data) THEN "loaded" ELSE "failed"]
    /\ UNCHANGED windows

\* Control: a message of another type is refused; a window that cannot be
\* created is only logged.
Control(f, message) ==
  /\ \/ /\ message.type \in {"DISPLAYS", "WINDOW"}
        /\ \E created \in SUBSET ToSet(message.windows) : windows' = windows \cup created
        /\ outcome' = [outcome EXCEPT ![f] = "loaded"]
     \/ /\ message.type \notin {"DISPLAYS", "WINDOW"}
        /\ outcome' = [outcome EXCEPT ![f] = "failed"]
        /\ UNCHANGED windows
  /\ UNCHANGED meshes

RunContinuation ==
  /\ pc = "begin"
  /\ running
  /\ ioContinuations # <<>>
  /\ ioContinuations' = Tail(ioContinuations)
  /\ LET c == Head(ioContinuations)
     IN \/ c.kind = "meshes" /\ CreateMeshes(c.file, c.data)
        \/ c.kind = "control" /\ Control(c.file, c.data)
        \/ /\ c.kind = "error"
           /\ outcome' = [outcome EXCEPT ![c.file] = "failed"]
           /\ UNCHANGED scene
  /\ UNCHANGED <<environment, pc, arguments, tasks, drawn, running>>

\* BeginFrame polls the windows, the user may close one, and the loop is left.
\* Without a window BeginFrame returns and is called again.
BeginWindows ==
  /\ pc = "begin"
  /\ running
  /\ ioContinuations = <<>>
  /\ windows # {}
  /\ pc' = "frame"
  /\ running' \in BOOLEAN
  /\ UNCHANGED <<environment, arguments, tasks, ioContinuations, outcome,
                 scene, drawn>>

\* vkCmdDrawIndexed or vkCmdDraw
CountLessOne(mesh) ==
  IF mesh.numIndices > 0 THEN mesh.numIndices ELSE mesh.numVertices - 1
Count(mesh) == IF mesh.numIndices > 0 THEN mesh.numIndices ELSE mesh.numVertices

EndFrame ==
  /\ pc = "frame"
  /\ pc' = IF running THEN "begin" ELSE "done"
  /\ drawn' = IF running THEN [i \in DOMAIN meshes |-> Count(meshes[i])] ELSE drawn
  /\ UNCHANGED <<environment, arguments, tasks, ioContinuations, outcome,
                 scene, running>>

Next ==
  \/ \E f \in Files : LoadFile(f)
  \/ EnterLoop
  \/ \E f \in Files : TaskPushes(f) \/ TaskIgnores(f) \/ TaskCrashes(f)
  \/ RunContinuation
  \/ BeginWindows \/ EndFrame

Spec == Init /\ [][Next]_vars
-----------------------------------------------------------------------------
IsImport(f) == content[f].extension = ".gltf"
MadeFrom(f) == {i \in DOMAIN meshes : meshes[i].file = f}

\* The meshes of f are the first n of data, one after the other.
FirstMade(f, data, n) ==
  \E before \in 0..Len(meshes) :
    /\ MadeFrom(f) = (before + 1)..(before + n)
    /\ \A i \in 1..n : meshes[before + i].name = data[i].name

\* The meshes that were created from f: those of an import come from its data,
\* garbage only from an import that read outside a vector.
MeshesAccounted(f) ==
  LET result == Imported(f)
  IN IF IsImport(f) /\ result.status = "ok"
     THEN \E n \in 0..Len(result.data) :
            /\ FirstMade(f, result.data, n)
            /\ outcome[f] = "loaded" => n = Len(result.data)
            /\ outcome[f] = "failed" => n < Len(result.data)
            /\ outcome[f] \notin {"loaded", "failed"} => n = 0
     ELSE \A i \in MadeFrom(f) :
            /\ IsImport(f) /\ result.status = "undefined"
            /\ meshes[i].name = Garbage.name

\* A file is waiting for LoadFile, for a worker or in the queue, in one of them
\* only and in the queue once, or it is settled; and a document's meshes are
\* created once, in order and with no other's between them: all when it is
\* loaded, some when it failed and none before its continuation runs (LoadFile,
\* IOTask, BeginFrame, CreateMeshes, on two threads).
LoadsAccounted ==
  /\ Len(ioContinuations) = Cardinality(Queued)
  /\ arguments \cap tasks = {}
  /\ (arguments \cup tasks) \cap Queued = {}
  /\ {f \in Files : outcome[f] = "waiting"} = arguments \cup tasks \cup Queued
  /\ \A f \in Files : MeshesAccounted(f)

\* What a continuation will create is the drawables below the first node, each
\* once, with the primitives of its mode, the product of the transforms on the
\* way to it and the elements of the accessors and buffers the document names
\* (ParseNode and GetAccessorData); except that a translated or scaled node
\* collapses, that bytes between elements are not skipped, and that a missing
\* buffer shifts those after it.  The first node is all of the default scene
\* only if that scene lists it alone.
ImportFaithful ==
  \A i \in DOMAIN ioContinuations :
    LET c == ioContinuations[i]
    IN c.kind = "meshes" /\ Imported(c.file).status = "ok" =>
         Imports(content[c.file].value, disk,
                 FirstNode(content[c.file].value), c.data)

\* The importer reads outside a vector only if a buffer file is missing or cut
\* off or an accessor goes on after its end, an image is in a bufferView, an
\* index of the document is the one after the last, an attribute is shorter than
\* the positions, or normals or tangents are to be generated for corners that
\* are not whole triangles or that an index beyond the positions names; and it
\* refuses a document only for one of these, for an index further away, an
\* accessor of a wrong type, a feature it does not have or a file that is not
\* there (every check of ReadGLTF, and those it lacks).
OutcomesExplained ==
  /\ pc = "crashed" =>
       \E f \in tasks : /\ IsImport(f) /\ content[f].value # Broken
                        /\ MayBeUndefined(content[f].value, disk)
  /\ \A i \in DOMAIN ioContinuations :
       LET c == ioContinuations[i]
           g == content[c.file].value
       IN IsImport(c.file) /\ c.kind = "error" =>
            \/ ~Readable(disk, c.file) \/ g = Broken
            \/ MayFail(g, disk)

\* "When the indices property is not defined, GL's drawArrays function should
\* be used with a count equal to the count property of any of the accessors"
\* (io/gltf.cc:898-900): every draw call has vertices.
DrawsEveryPrimitive == \A i \in DOMAIN drawn : drawn[i] > 0
=============================================================================
