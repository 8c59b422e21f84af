----------------------------- MODULE MCLoading -----------------------------
(* A file that is one of a set of small documents, and a second file.       *)
EXTENDS Loading

Buffer(uri, length) == [uri |-> uri, byteLength |-> length]
View(buffer, offset, stride) ==
  [buffer |-> buffer, byteOffset |-> offset, byteStride |-> stride]
Accessor(view, offset, componentType, count, type) ==
  [bufferView |-> view, byteOffset |-> offset, componentType |-> componentType,
   count |-> count, type |-> type]
MCPrimitive(indices, position, normal, tangent, texcoord, mode) ==
  [indices |-> indices, mode |-> mode,
   attributes |-> [POSITION |-> position, NORMAL |-> normal,
                   TANGENT |-> tangent, TEXCOORD_0 |-> texcoord]]
Node(children, local, mesh) ==
  [children |-> children, local |-> local, mesh |-> mesh]

\* The indices 0, 1, 2 and so on are in the file from byte 8 on.
MCIndexAt(componentType, place) ==
  IF place[2] < 8 THEN 0 ELSE (place[2] - 8) \div ComponentSize(componentType)

\* One triangle: indices in one buffer and three or four positions, normals and
\* so on in the other.  Nodes, primitives and some accessors vary.
Triangle ==
  [version |-> "2.0", minVersion |-> None,
   buffers |-> <<Buffer("x", 168), Buffer("y", 20)>>,
   images |-> <<>>,
   bufferViews |-> <<View(0, 0, 12), View(1, 8, None), View(0, 0, 28)>>,
   accessors |-> <<Accessor(1, 0, UnsignedShort, 3, "SCALAR"),
                   Accessor(0, 0, Float, 3, "VEC3"),
                   Accessor(0, 36, Float, 3, "VEC3"),
                   Accessor(None, 0, Float, 3, "VEC4")>>,
   meshes |-> <<<<MCPrimitive(0, 1, 2, None, None, 4)>>>>,
   hasNodes |-> TRUE,
   nodes |-> <<Node(<<1>>, {"matrix"}, None), Node(<<>>, {}, 0)>>,
   scenes |-> <<<<0>>>>, scene |-> 0]

WithMesh(mesh) == [Triangle EXCEPT !.meshes = <<mesh>>]
WithPrimitive(primitive) == WithMesh(<<primitive>>)

Skipped == MCPrimitive(0, None, None, None, None, None)

\* Rotations, a mesh in a node and in two of those below it, a primitive
\* without positions.
Tree ==
  [WithMesh(<<Skipped, MCPrimitive(0, 1, 2, 3, None, None)>>) EXCEPT
     !.nodes = <<Node(<<2, 1>>, {"rotation"}, 0), Node(<<>>, {"matrix", "scale"}, 0),
                 Node(<<3>>, {}, None), Node(<<>>, {"rotation"}, 0)>>,
     !.scene = None]

\* The leaf comes first, as some exporters write it.
LeafFirst ==
  [Triangle EXCEPT !.nodes = <<Node(<<>>, {"rotation"}, 0), Node(<<0>>, {"matrix"}, None)>>,
                   !.scenes = <<<<1>>>>]

Translated ==
  [Triangle EXCEPT !.nodes = <<Node(<<1>>, {"translation"}, None),
                               Node(<<>>, {"rotation"}, 0)>>]

\* Positions and normals take turns in view 2.
InterleavedTriangle ==
  [Triangle EXCEPT !.accessors = <<Accessor(1, 0, UnsignedInt, 3, "SCALAR"),
                                   Accessor(2, 0, Float, 3, "VEC3"),
                                   Accessor(2, 12, Float, 3, "VEC3"),
                                   Accessor(None, 0, Float, 3, "VEC4")>>]

\* Four positions and no indices, which a strip makes two triangles of.
Four(type) == Accessor(0, 48, Float, 4, type)
Strip(normal) ==
  [WithPrimitive(MCPrimitive(None, 0, normal, 3, 2, 5)) EXCEPT
     !.accessors = <<Four("VEC3"), Accessor(0, 0, Float, 4, "VEC3"), Four("VEC2"),
                     Accessor(None, 0, Float, 4, "VEC4")>>]

Lines ==
  [WithPrimitive(MCPrimitive(None, 0, 1, None, None, 1)) EXCEPT
     !.accessors = <<Accessor(0, 0, Float, 2, "VEC3"), Accessor(None, 0, Float, 2, "VEC3")>>]

ByteIndices ==
  [Triangle EXCEPT !.accessors[1] = Accessor(1, 0, 5121, 3, "SCALAR")]

Image(uri, view) == [uri |-> uri, bufferView |-> view]

\* Indices that start at the given byte, so that they end at other numbers.
Indexed(offset, count, normal, tangent) ==
  [WithPrimitive(MCPrimitive(0, 1, normal, tangent, None, 4)) EXCEPT
     !.accessors[1] = Accessor(1, offset, UnsignedShort, count, "SCALAR")]

\* Indices beyond the positions, where normals or tangents, both or none are to
\* be generated, and in a corner that is not one of a whole triangle.
Beyond ==
  {Indexed(2, 3, n, t) : n \in {None, 2}, t \in {None, 3}}
    \cup {Indexed(0, count, 2, None) : count \in {2, 4}}
    \cup {Indexed(0, 4, None, 3)}

\* References to what follows the last element of an array, is further away or
\* negative, and arrays that are empty.
Dangling ==
  {WithPrimitive(MCPrimitive(index, 1, 2, None, None, 4)) : index \in {4, 5, -1}}
    \cup {WithPrimitive(MCPrimitive(0, 1, index, None, None, 4)) : index \in {4, 5}}
    \cup {[Triangle EXCEPT !.accessors[2].bufferView = view] : view \in {3, 4, -1}}
    \cup {[Triangle EXCEPT !.bufferViews[2].buffer = buffer] : buffer \in {2, 3, -1}}
    \cup {[Triangle EXCEPT !.nodes[2].mesh = mesh] : mesh \in {1, 2, -1}}
    \cup {[Triangle EXCEPT !.nodes[2].children = <<child>>] : child \in {2, 3, -1}}
    \cup {[Triangle EXCEPT !.scene = node] : node \in {2, 3, -1}}
    \cup {[Triangle EXCEPT !.accessors = <<>>], [Triangle EXCEPT !.meshes = <<>>],
          [Triangle EXCEPT !.bufferViews = <<>>], [Triangle EXCEPT !.buffers = <<>>],
          [Triangle EXCEPT !.nodes = <<>>],
          [Triangle EXCEPT !.nodes = <<>>, !.hasNodes = FALSE]}

\* Accessors of other types or lengths than what they are used for, or that go on
\* after the end of the buffer.
Misused ==
  {WithPrimitive(MCPrimitive(1, 1, 2, None, None, 4)),
   WithPrimitive(MCPrimitive(3, 1, 2, None, None, 4)),
   WithPrimitive(MCPrimitive(0, 1, 0, None, None, 4)),
   WithPrimitive(MCPrimitive(0, 1, 2, 1, None, 7)),
   [Triangle EXCEPT !.accessors[1].bufferView = None],
   [Triangle EXCEPT !.accessors[2].count = 2],
   [Triangle EXCEPT !.accessors[3].count = 2],
   [Triangle EXCEPT !.accessors[2].byteOffset = 140],
   [Triangle EXCEPT !.accessors[2].byteOffset = 168]}

Documents ==
  Beyond \cup Dangling \cup Misused \cup
  {Triangle, Tree, LeafFirst, Translated, InterleavedTriangle,
   Strip(1), Strip(None), Lines, ByteIndices,
   WithPrimitive(MCPrimitive(None, 1, None, None, None, None)),  \* flat normals
   WithPrimitive(MCPrimitive(0, 1, 2, None, None, 2)),           \* a line loop
   [Triangle EXCEPT !.images = <<Image("tex", None), Image(None, 2)>>],
   [Triangle EXCEPT !.version = "2.1", !.minVersion = "2.0",
                    !.images = <<Image("tex", None), Image(None, 1)>>],
   [Triangle EXCEPT !.images = <<Image("tex", None)>>],
   [Triangle EXCEPT !.version = "1.0"],
   [Triangle EXCEPT !.buffers[2].uri = None],
   [Triangle EXCEPT !.nodes = <<Node(<<>>, {}, 0)>>,
                    !.scenes = <<<<0>>, <<0>>>>, !.scene = 1],
   [Triangle EXCEPT !.scenes = <<<<0>>, <<0>>, <<0>>, <<0>>>>, !.scene = 3]}

File(extension, value) == [extension |-> extension, value |-> value]
Message(type, names) == [type |-> type, windows |-> names]
SmallContents ==
  [a |-> {File(".gltf", g) : g \in Documents \cup {Broken}},
   b |-> {File(".gltf", Tree), File("other", Broken), File(".json", Broken),
          File(".json", Message("DISPLAYS", <<"w1", "w2">>)),
          File(".json", Message("WINDOW", <<"w1">>)),
          File(".json", Message("NOOP", <<>>))}]

\* Every file can be read and is whole, or one cannot or is not.
Whole == [a |-> 1, b |-> 1, x |-> 168, y |-> 20, tex |-> 1]
Lacking(path) == [p \in DOMAIN Whole \ {path} |-> Whole[p]]
SmallDisks ==
  {Whole} \cup {Lacking(p) : p \in {"a", "b", "x", "y", "tex"}}
          \cup {[Whole EXCEPT !.x = 100], [Whole EXCEPT !.y = 10]}
=============================================================================
