-------------------------------- MODULE Gltf --------------------------------
(***************************************************************************)
(* What ReadGLTF makes of a parsed glTF document (io/gltf.cc): the sequence *)
(* of MeshData, or an error, or undefined behaviour where the code reads    *)
(* outside a vector.                                                        *)
(*                                                                          *)
(* A document g is a record of sequences whose indices start at 0, as those *)
(* of JSON; an absent array is empty and an absent optional is None.  The   *)
(* content of a file is abstracted to the place it is read from: an element *)
(* of an accessor is the file and the byte it starts at.  A matrix is the   *)
(* sequence of its factors.  Every index is an integer of the file, which   *)
(* need not be one of the array it refers to.                               *)
(***************************************************************************)
EXTENDS Integers, Sequences, SequencesExt

CONSTANTS
  None,           \* an absent optional
  IndexAt(_, _)   \* the number of a component type that is read at a place

ASSUME NoneAssumption == None \notin Int

Ok(data)  == [status |-> "ok", data |-> data]
Error     == [status |-> "error", data |-> <<>>]
Undefined == [status |-> "undefined", data |-> <<>>]

\* The first result that is not Ok, or the concatenation of all.
Collect(results) ==
  LET bad == {i \in DOMAIN results : results[i].status # "ok"}
  IN IF bad # {} THEN results[Min(bad)]
     ELSE Ok(FlattenSeq([i \in DOMAIN results |-> results[i].data]))

\* vector[index] behind the check "size() < index", which an index that is
\* equal to the size passes; a negative one is a large size_t.
Unchecked(vector, index) ==
  IF index \in 0..(Len(vector) - 1) THEN Ok(vector[index + 1]) ELSE Undefined
Lookup(vector, index) ==
  IF index < 0 \/ Len(vector) < index THEN Error ELSE Unchecked(vector, index)
LookupPresentLess(vector, index) ==
  IF Len(vector) <= index + 1 THEN Error ELSE Lookup(vector, index)
LookupPresent(vector, index) ==
  IF vector = <<>> THEN Error ELSE Lookup(vector, index)
-----------------------------------------------------------------------------
ComponentCount(type) ==
  [SCALAR |-> 1, VEC2 |-> 2, VEC3 |-> 3, VEC4 |-> 4,
   MAT2 |-> 4, MAT3 |-> 9, MAT4 |-> 16][type]

UnsignedShort == 5123
UnsignedInt   == 5125
Float         == 5126
ComponentSize(componentType) ==
  CASE componentType \in {5120, 5121} -> 1
    [] componentType \in {5122, UnsignedShort} -> 2
    [] componentType \in {UnsignedInt, Float} -> 4
    [] OTHER -> 0

Zero == <<None, 0>>  \* an element that no file provides

ByteOffsetOfView(view, accessor) == view.byteOffset
ByteOffset(view, accessor) == view.byteOffset + accessor.byteOffset

\* Elements are taken to be packed: byteStride is not looked at.
Step(accessor) ==
  ComponentCount(accessor.type) * ComponentSize(accessor.componentType)

\* The elements of an accessor that has a bufferView.  The size that is checked
\* counts one component of each element.
ViewData(bytes, view, accessor) ==
  LET buffer == Lookup(bytes, view.buffer)
      start  == ByteOffset(view, accessor)
      step   == Step(accessor)
  IN IF buffer.status # "ok" THEN buffer
     ELSE IF \/ buffer.data.size < start + ComponentSize(accessor.componentType)
                                            * accessor.count
             \/ ComponentSize(accessor.componentType) = 0
          THEN Error
     ELSE IF buffer.data.size < start + step * accessor.count THEN Undefined
     ELSE Ok([i \in 1..accessor.count |->
                <<buffer.data.file, start + (i - 1) * step>>])

AccessorData(g, bytes, index, type, componentTypes, canBeZero) ==
  LET found    == LookupPresent(g.accessors, index)
      accessor == found.data
      view     == LookupPresent(g.bufferViews, accessor.bufferView)
  IN IF found.status # "ok" THEN found
     ELSE IF \/ accessor.type # type
             \/ accessor.componentType \notin componentTypes
             \/ accessor.bufferView = None /\ ~canBeZero
          THEN Error
     ELSE IF accessor.bufferView = None
          THEN Ok([i \in 1..accessor.count |-> Zero])
     ELSE IF view.status # "ok" THEN view
     ELSE ViewData(bytes, view.data, accessor)
-----------------------------------------------------------------------------
Topologies == <<"points", "lines", "unknown", "lineStrip", "triangles",
                "triangleStrip", "triangleFan">>  \* mode 2, the line loop, is not

Topology(mode) ==
  IF mode = None THEN Ok("triangles")
  ELSE IF mode + 1 \in DOMAIN Topologies /\ Topologies[mode + 1] # "unknown"
       THEN Ok(Topologies[mode + 1])
  ELSE Error

\* componentTypes is an array of three of which two are given; the third is 0.
Indices(g, bytes, primitive) ==
  IF primitive.indices = None THEN Ok(<<>>)
  ELSE AccessorData(g, bytes, primitive.indices, "SCALAR",
                    {UnsignedShort, UnsignedInt, 0}, FALSE)

Types == [POSITION |-> "VEC3", NORMAL |-> "VEC3",
          TANGENT |-> "VEC4", TEXCOORD_0 |-> "VEC2"]

Attribute(g, bytes, primitive, semantic) ==
  IF primitive.attributes[semantic] = None THEN Ok(<<>>)
  ELSE AccessorData(g, bytes, primitive.attributes[semantic], Types[semantic],
                    {Float}, TRUE)

\* The numbers of the vertices that make the faces: the values of indices,
\* which nothing compares with the number of positions.
Corners(componentType, indices, positions) ==
  IF indices = <<>> THEN [i \in DOMAIN positions |-> i - 1]
  ELSE [i \in DOMAIN indices |-> IndexAt(componentType, indices[i])]

\* MeshData::GenerateNormals goes through the corners three at a time.
NormalsInside(corners, positions) ==
  /\ Len(corners) % 3 = 0
  /\ \A i \in DOMAIN corners : corners[i] < Len(positions)

\* MeshData::GenerateTangents goes through the whole faces, and fails without
\* one (or without memory, which is left out).
HasFaces(corners) == Len(corners) >= 3
TangentsInside(corners, positions) ==
  \A i \in 1..(3 * (Len(corners) \div 3)) : corners[i] < Len(positions)

\* The element of an attribute, if it is present, for every vertex.
PerVertex(data, positions) ==
  IF data = <<>> THEN <<>> ELSE [i \in DOMAIN positions |-> data[i]]

\* The data of the vertices, from attributes that are present or generated.
\* A present attribute is copied for every position, however short it is.
Vertices(name, matrix, topology, componentType, indices, positions, attribute) ==
  LET normals   == attribute["NORMAL"].data
      tangents  == attribute["TANGENT"].data
      texcoords == attribute["TEXCOORD_0"].data
      corners   == Corners(componentType, indices, positions)
      short(a)  == a # <<>> /\ Len(a) < Len(positions)
  IN IF \/ short(normals) \/ short(texcoords)
        \/ normals = <<>> /\ ~NormalsInside(corners, positions)
        \/ short(tangents)
        \/ tangents = <<>> /\ ~TangentsInside(corners, positions)
     THEN Undefined
     ELSE IF tangents = <<>> /\ ~HasFaces(corners) THEN Error
     ELSE Ok(<<[name |-> name, matrix |-> matrix, topology |-> topology,
                indices |-> indices, POSITION |-> positions,
                NORMAL |-> PerVertex(normals, positions),
                TANGENT |-> PerVertex(tangents, positions),
                TEXCOORD_0 |-> PerVertex(texcoords, positions)]>>)

\* One primitive: no MeshData if it has no positions.
Primitive(g, bytes, name, matrix, primitive) ==
  LET topology  == Topology(primitive.mode)
      indices   == Indices(g, bytes, primitive)
      attribute == [s \in DOMAIN Types |-> Attribute(g, bytes, primitive, s)]
      positions == attribute["POSITION"]
      others    == Collect(<<attribute["NORMAL"], attribute["TANGENT"],
                             attribute["TEXCOORD_0"]>>)
  IN IF topology.status # "ok" THEN topology
     ELSE IF indices.status # "ok" THEN indices
     ELSE IF positions.status # "ok" \/ positions.data = <<>> THEN positions
     ELSE IF others.status # "ok" THEN others
     ELSE Vertices(name, matrix, topology.data,
                   g.accessors[primitive.indices + 1].componentType,
                   indices.data, positions.data, attribute)
-----------------------------------------------------------------------------
\* The factors a node multiplies its parent's matrix with.  translate and scale
\* are given {} to start from, which (external, glm from 0.9.9 on) is the matrix
\* of zeros.
LocalMatrix(nodeIdx, node) ==
  IF "matrix" \in node.local THEN <<<<nodeIdx, "matrix">>>>
  ELSE (IF "translation" \in node.local THEN <<<<nodeIdx, "zero">>>> ELSE <<>>)
       \o (IF "rotation" \in node.local THEN <<<<nodeIdx, "rotation">>>> ELSE <<>>)
       \o (IF "scale" \in node.local THEN <<<<nodeIdx, "zero">>>> ELSE <<>>)

\* The primitives of the mesh of a node.
NodeMesh(g, bytes, nodeIdx, mesh, matrix) ==
  LET found      == LookupPresent(g.meshes, mesh)
      primitives == found.data
  IN IF found.status # "ok" THEN found
     ELSE Collect([i \in DOMAIN primitives |->
            Primitive(g, bytes, <<nodeIdx, i - 1>>, matrix, primitives[i])])

\* GLTF::ParseNode, given what its calls for the children return: what is below
\* the node, then the node's own mesh.  An array of nodes may be empty.
Factors == Nat \X {"matrix", "rotation", "zero"}
ParseWith(parse, g, bytes, nodeIdx, parentMat) ==
  LET found   == IF ~g.hasNodes THEN Error ELSE Lookup(g.nodes, nodeIdx)
      node    == found.data
      nodeMat == parentMat \o LocalMatrix(nodeIdx, node)
      below   == Collect([i \in DOMAIN node.children |->
                            parse[<<node.children[i], nodeMat>>]])
      own     == NodeMesh(g, bytes, nodeIdx, node.mesh, nodeMat)
  IN IF found.status # "ok" THEN found
     ELSE IF below.status # "ok" \/ node.mesh = None THEN below
     ELSE IF own.status # "ok" THEN own
     ELSE Ok(below.data \o own.data)

\* Calls nested deeper than there are nodes never end.
ParseNode(g, bytes, root) ==
  LET parse[depth \in 0..(Len(g.nodes) + 1)] ==
        [call \in Int \X Seq(Factors) |->
           IF depth = 0 THEN Undefined
           ELSE ParseWith(parse[depth - 1], g, bytes, call[1], call[2])]
  IN parse[Len(g.nodes) + 1][<<root, <<>>>>]
-----------------------------------------------------------------------------
\* disk gives the size of every file that can be read.
Readable(disk, path) == path \in DOMAIN disk

SupportedVersion(g) == g.version = "2.0" \/ g.minVersion = "2.0"

\* A buffer whose file cannot be read is left out of buffersBytes.
BuffersBytes(g, disk) ==
  LET read(uri) == IF Readable(disk, uri) THEN <<[file |-> uri, size |-> disk[uri]]>>
                   ELSE <<>>
  IN FlattenSeq([i \in DOMAIN g.buffers |-> read(g.buffers[i].uri)])

Buffers(g, disk) ==
  IF \E i \in DOMAIN g.buffers : g.buffers[i].uri = None THEN Error
  ELSE Ok(BuffersBytes(g, disk))

\* An image in a bufferView is taken from the buffer with the view's index.
ImageData(image, bytes, disk) ==
  IF image.uri # None
  THEN IF Readable(disk, image.uri) THEN Ok(<<image.uri>>) ELSE Error
  ELSE IF image.bufferView = None THEN Error
  ELSE LET buffer == Unchecked(bytes, image.bufferView)
       IN IF buffer.status = "ok" THEN Ok(<<buffer.data.file>>) ELSE buffer

Images(g, bytes, disk) ==
  Collect([i \in DOMAIN g.images |-> ImageData(g.images[i], bytes, disk)])

\* The default scene is an index into scenes, and is used as one into nodes.
FirstNode(g) == IF g.scene = None THEN 0 ELSE g.scene

ReadGLTF(g, disk) ==
  LET bytes  == Buffers(g, disk)
      images == Images(g, bytes.data, disk)
  IN IF ~SupportedVersion(g) THEN Error
     ELSE IF bytes.status # "ok" THEN bytes
     ELSE IF images.status # "ok" THEN images
     ELSE ParseNode(g, bytes.data, FirstNode(g))
=============================================================================
