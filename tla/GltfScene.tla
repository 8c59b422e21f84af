----------------------------- MODULE GltfScene -----------------------------
(***************************************************************************)
(* What a glTF document means, as a relation between the document and the   *)
(* meshes imported from it, independent of the order the importer works in. *)
(* Gltf is compared with it.                                                *)
(***************************************************************************)
EXTENDS Gltf, FiniteSets, FiniteSetsExt

\* std::vector
IsVector(v) == v \in Seq(ToSet(v))
AreMeshData(data) ==
  IsVector(data) /\ \A i \in DOMAIN data : IsVector(data[i].indices)

IsIndex(index, vector) == index \in 0..(Len(vector) - 1)
IsOptionalInt(index) == index = None \/ index \in Int

\* The nodes below a node: a number that is not that of a node says nothing.
Children(g, nodeIdx) ==
  ToSet(g.nodes[nodeIdx + 1].children) \cap 0..(Len(g.nodes) - 1)

\* The paths of node numbers that lead from a node to those below it.
Paths(g, root) ==
  LET ofLength[k \in 1..Len(g.nodes)] ==
        IF k = 1 THEN {<<root>>}
        ELSE UNION {{Append(p, c) : c \in Children(g, Last(p))} :
                      p \in ofLength[k - 1]}
  IN UNION {ofLength[k] : k \in 1..Len(g.nodes)}

PrimitivesOf(g, nodeIdx) ==
  LET mesh == g.nodes[nodeIdx + 1].mesh
  IN IF IsIndex(mesh, g.meshes) THEN g.meshes[mesh + 1] ELSE <<>>

\* <<path, primitive>> for every primitive below root that has positions.
Drawables(g, root) ==
  UNION {{<<p, i>> : i \in {i \in DOMAIN PrimitivesOf(g, Last(p)) :
            PrimitivesOf(g, Last(p))[i].attributes["POSITION"] # None}} :
           p \in Paths(g, root)}

(***************************************************************************)
(* Well-formed documents: what the format asks of one, but for the numbers  *)
(* by which its parts refer to each other, and the types and lengths of     *)
(* what they refer to.                                                      *)
(***************************************************************************)
ElementSize(accessor) ==
  ComponentCount(accessor.type) * ComponentSize(accessor.componentType)

\* The bytes from one element to the next: the view's stride, if it has one.
Stride(g, accessor) ==
  LET view == g.bufferViews[accessor.bufferView + 1]
  IN IF view.byteStride = None THEN ElementSize(accessor) ELSE view.byteStride

Start(view, accessor) == view.byteOffset + accessor.byteOffset

\* A file as long as the document says has all of the accessor's elements.
AccessorFits(g, accessor) ==
  LET view == g.bufferViews[accessor.bufferView + 1]
  IN /\ Stride(g, accessor) >= ElementSize(accessor)
     /\ Start(view, accessor) + Stride(g, accessor) * (accessor.count - 1)
          + ElementSize(accessor) <= g.buffers[view.buffer + 1].byteLength

ViewWellFormed(view) ==
  /\ view.buffer \in Int
  /\ view.byteOffset \in Nat
  /\ view.byteStride = None \/ view.byteStride \in Nat

AccessorWellFormed(accessor) ==
  /\ IsOptionalInt(accessor.bufferView)
  /\ accessor.type \in {"SCALAR", "VEC2", "VEC3", "VEC4", "MAT2", "MAT3", "MAT4"}
  /\ accessor.componentType \in {5120, 5121, 5122, UnsignedShort, UnsignedInt, Float}
  /\ accessor.count \in Nat \ {0}
  /\ accessor.byteOffset \in Nat

PrimitiveWellFormed(primitive) ==
  /\ IsOptionalInt(primitive.indices) /\ IsOptionalInt(primitive.mode)
  /\ \A s \in DOMAIN Types : IsOptionalInt(primitive.attributes[s])

\* No node is below two nodes, twice below one, or below itself.
NodesAreTrees(g) ==
  /\ \A i, j \in 1..Len(g.nodes) :
       i # j => Children(g, i - 1) \cap Children(g, j - 1) = {}
  /\ \A i \in 1..Len(g.nodes) :
       /\ IsVector(g.nodes[i].children) /\ IsInjective(g.nodes[i].children)
       /\ ToSet(g.nodes[i].children) \subseteq Int
       /\ \A p \in Paths(g, i - 1) : Children(g, Last(p)) \cap ToSet(p) = {}
       /\ IsOptionalInt(g.nodes[i].mesh)

ArraysAreVectors(g) ==
  /\ IsVector(g.buffers) /\ IsVector(g.images) /\ IsVector(g.bufferViews)
  /\ IsVector(g.accessors) /\ IsVector(g.meshes) /\ IsVector(g.nodes)
  /\ IsVector(g.scenes)
  /\ \A i \in DOMAIN g.meshes : IsVector(g.meshes[i])
  /\ g.hasNodes \in BOOLEAN /\ (~g.hasNodes => g.nodes = <<>>)

WellFormed(g) ==
  /\ ArraysAreVectors(g)
  /\ \A i \in DOMAIN g.buffers : g.buffers[i].byteLength \in Nat
  /\ \A i \in DOMAIN g.bufferViews : ViewWellFormed(g.bufferViews[i])
  /\ \A i \in DOMAIN g.accessors : AccessorWellFormed(g.accessors[i])
  /\ \A i \in DOMAIN g.meshes : \A j \in DOMAIN g.meshes[i] :
       PrimitiveWellFormed(g.meshes[i][j])
  /\ NodesAreTrees(g)
  /\ IsOptionalInt(g.scene)

(***************************************************************************)
(* The meaning of what is imported.                                         *)
(***************************************************************************)
\* A node's own transforms: a matrix, or a translation, rotation and scale.
Local(g, n) ==
  LET given  == g.nodes[n + 1].local
      one(t) == IF t \in given THEN <<<<n, t>>>> ELSE <<>>
  IN IF "matrix" \in given THEN one("matrix")
     ELSE one("translation") \o one("rotation") \o one("scale")

\* The transforms of the nodes of a path, outermost first.
Transform(g, path) ==
  FlattenSeq([i \in DOMAIN path |-> Local(g, path[i])])

\* A node translates or scales: no matrix follows from zeros.
Collapsed(g, path) ==
  \E f \in ToSet(Transform(g, path)) : f[2] \in {"translation", "scale"}

\* Where the elements of an accessor are.
Elements(g, index) ==
  LET accessor == g.accessors[index + 1]
      view     == g.bufferViews[accessor.bufferView + 1]
  IN [i \in 1..accessor.count |->
        IF accessor.bufferView = None THEN Zero
        ELSE <<g.buffers[view.buffer + 1].uri,
               Start(view, accessor) + (i - 1) * Stride(g, accessor)>>]

\* The view keeps other data between the elements of the accessor.
Interleaved(g, index) ==
  LET accessor == g.accessors[index + 1]
  IN /\ accessor.bufferView # None
     /\ Stride(g, accessor) # ElementSize(accessor)

\* A buffer before that of the accessor, or its own, could not be read.
Shifted(g, disk, index) ==
  LET accessor == g.accessors[index + 1]
  IN /\ accessor.bufferView # None
     /\ \E b \in 0..g.bufferViews[accessor.bufferView + 1].buffer :
          g.buffers[b + 1].uri \notin DOMAIN disk

\* The elements imported for an optional accessor.
Reads(g, disk, elements, index) ==
  IF index = None THEN elements = <<>>
  ELSE \/ elements = Elements(g, index)
       \/ Interleaved(g, index) \/ Shifted(g, disk, index)

\* Those imported for as many vertices.
ReadsVertices(g, disk, elements, index, count) ==
  IF index = None THEN elements = <<>>
  ELSE \/ elements = [i \in 1..count |-> Elements(g, index)[i]]
       \/ Interleaved(g, index) \/ Shifted(g, disk, index)

\* The primitives a mode asks for, triangles without one.
Modes == <<"points", "lines", "lineLoop", "lineStrip", "triangles",
           "triangleStrip", "triangleFan">>
ModeMeans(mode) == IF mode = None THEN "triangles" ELSE Modes[mode + 1]

VertexCount(g, primitive) ==
  g.accessors[primitive.attributes["POSITION"] + 1].count

\* m is the imported form of the drawable d.
Means(g, disk, m, d) ==
  LET path      == d[1]
      primitive == PrimitivesOf(g, Last(path))[d[2]]
  IN /\ m.name = <<Last(path), d[2] - 1>>
     /\ m.matrix = Transform(g, path) \/ Collapsed(g, path)
     /\ m.topology = ModeMeans(primitive.mode)
     /\ Reads(g, disk, m.indices, primitive.indices)
     /\ \A s \in DOMAIN Types :
          ReadsVertices(g, disk, m[s], primitive.attributes[s],
                        VertexCount(g, primitive))

\* meshes are the drawables below root, each once.
Imports(g, disk, root, meshes) ==
  LET drawables == Drawables(g, root)
  IN /\ Len(meshes) = Cardinality(drawables)
     /\ \A d \in drawables : \E i \in DOMAIN meshes : Means(g, disk, meshes[i], d)

(***************************************************************************)
(* Why a well-formed document may not be imported.                          *)
(***************************************************************************)
AllPrimitives(g) == UNION {ToSet(g.meshes[i]) : i \in DOMAIN g.meshes}

HasPositions(primitive) == primitive.attributes["POSITION"] # None

\* A buffer is not on the disk as the document describes it.
BufferDamaged(g, disk) ==
  \E b \in ToSet(g.buffers) :
    b.uri \notin DOMAIN disk \/ disk[b.uri] < b.byteLength

\* The numbers that refer to an element of an array, and the array's size.
References(g) ==
  {<<FirstNode(g), Len(g.nodes)>>}
    \cup {<<g.nodes[i].mesh, Len(g.meshes)>> : i \in DOMAIN g.nodes}
    \cup (UNION {{<<c, Len(g.nodes)>> : c \in ToSet(g.nodes[i].children)} :
                   i \in DOMAIN g.nodes})
    \cup {<<p.indices, Len(g.accessors)>> : p \in AllPrimitives(g)}
    \cup (UNION {{<<p.attributes[s], Len(g.accessors)>> : s \in DOMAIN Types} :
                   p \in AllPrimitives(g)})
    \cup {<<g.accessors[i].bufferView, Len(g.bufferViews)>> : i \in DOMAIN g.accessors}
    \cup {<<g.bufferViews[i].buffer, Len(g.buffers)>> : i \in DOMAIN g.bufferViews}

\* One is the number after the last, or is further away.
OneBeyond(g) == \E r \in References(g) : r[1] = r[2]
TooFar(g) ==
  \E r \in References(g) : r[1] # None /\ (r[1] \notin 0..r[2] \/ r[2] = 0)

\* The accessor is there, and its bufferView and buffer, if it has them.
ViewResolves(g, accessor) ==
  accessor.bufferView # None =>
    /\ IsIndex(accessor.bufferView, g.bufferViews)
    /\ IsIndex(g.bufferViews[accessor.bufferView + 1].buffer, g.buffers)
Resolves(g, index) ==
  IsIndex(index, g.accessors) /\ ViewResolves(g, g.accessors[index + 1])

\* An accessor goes on after the end of its buffer, or its elements overlap.
Overrun(g) ==
  \E i \in DOMAIN g.accessors :
    /\ g.accessors[i].bufferView # None /\ ViewResolves(g, g.accessors[i])
    /\ ~AccessorFits(g, g.accessors[i])

ImageInBuffer(g) == \E image \in ToSet(g.images) : image.uri = None

\* The accessor that has an element for every corner of the faces.
CornerAccessor(primitive) ==
  IF primitive.indices # None THEN primitive.indices
  ELSE primitive.attributes["POSITION"]

\* Normals are to be generated for corners that are not whole triangles.
PartialTriangles(g) ==
  \E p \in AllPrimitives(g) :
    /\ HasPositions(p) /\ p.attributes["NORMAL"] = None
    /\ IsIndex(CornerAccessor(p), g.accessors)
    /\ g.accessors[CornerAccessor(p) + 1].count % 3 # 0

\* Normals or tangents are to be generated for whole triangles with a corner
\* that is no position; of interleaved indices others are read.
IndexBeyond(g) ==
  \E p \in AllPrimitives(g) :
    /\ p.attributes["NORMAL"] = None \/ p.attributes["TANGENT"] = None
    /\ Resolves(g, p.indices) /\ IsIndex(p.attributes["POSITION"], g.accessors)
    /\ LET indices == g.accessors[p.indices + 1]
       IN \/ Interleaved(g, p.indices)
          \/ \E i \in 1..(3 * (indices.count \div 3)) :
               ~(IndexAt(indices.componentType, Elements(g, p.indices)[i])
                   < VertexCount(g, p))

\* An attribute has fewer elements than there are positions.
AttributeShort(g) ==
  \E p \in AllPrimitives(g) : \E s \in DOMAIN Types :
    /\ IsIndex(p.attributes["POSITION"], g.accessors)
    /\ IsIndex(p.attributes[s], g.accessors)
    /\ g.accessors[p.attributes[s] + 1].count < VertexCount(g, p)

MayBeUndefined(g, disk) ==
  \/ BufferDamaged(g, disk) \/ Overrun(g) \/ ImageInBuffer(g) \/ OneBeyond(g)
  \/ AttributeShort(g) \/ PartialTriangles(g) \/ IndexBeyond(g)

Unsupported(g) ==
  \/ ~SupportedVersion(g)
  \/ \E b \in ToSet(g.buffers) : b.uri = None
  \/ ~g.hasNodes
  \/ \E p \in AllPrimitives(g) :
       \/ p.mode # None /\ p.mode \notin 0..6 \ {2}
       \/ /\ HasPositions(p) /\ p.attributes["TANGENT"] = None
          /\ IsIndex(CornerAccessor(p), g.accessors)
          /\ g.accessors[CornerAccessor(p) + 1].count < 3

\* An accessor has not the type of what it is used for, or not one of those
\* that are supported.
Mistyped(g) ==
  \E p \in AllPrimitives(g) :
    \/ /\ IsIndex(p.indices, g.accessors)
       /\ LET a == g.accessors[p.indices + 1]
          IN \/ a.type # "SCALAR" \/ a.bufferView = None
             \/ a.componentType \notin {UnsignedShort, UnsignedInt}
    \/ \E s \in DOMAIN Types :
         /\ IsIndex(p.attributes[s], g.accessors)
         /\ LET a == g.accessors[p.attributes[s] + 1]
            IN a.type # Types[s] \/ a.componentType # Float

ImageMissing(g, disk) ==
  \E image \in ToSet(g.images) : image.uri # None /\ image.uri \notin DOMAIN disk

\* What is undefined may also be an error.
MayFail(g, disk) ==
  \/ MayBeUndefined(g, disk)
  \/ TooFar(g) \/ Mistyped(g) \/ Unsupported(g) \/ ImageMissing(g, disk)
=============================================================================
