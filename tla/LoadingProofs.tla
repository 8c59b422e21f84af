--------------------------- MODULE LoadingProofs ---------------------------
(***************************************************************************)
(* Type correctness of Loading, that every file is accounted for, and that  *)
(* imports are what documents mean, or are refused or undefined for a       *)
(* listed reason, whatever the files, their contents and the disks are.     *)
(***************************************************************************)
EXTENDS Loading, GltfProofs

(***************************************************************************)
(* The inductive invariant.  PlaceInv is LoadsAccounted of the files;       *)
(* QueueInv says that a file is queued once, which makes its continuation   *)
(* the only one that creates meshes for it, and what a continuation that is *)
(* queued has brought from the importer.                                    *)
(***************************************************************************)
PlaceInv ==
  /\ arguments \cap tasks = {}
  /\ (arguments \cup tasks) \cap Queued = {}
  /\ {f \in Files : outcome[f] = "waiting"} = arguments \cup tasks \cup Queued

QueuedOnce ==
  \A i, j \in 1..Len(ioContinuations) :
    ioContinuations[i].file = ioContinuations[j].file => i = j

Refusable(f) ==
  LET g == content[f].value
  IN \/ ~Readable(disk, f) \/ g = Broken
     \/ MayFail(g, disk)

Carries(c) ==
  /\ IF IsImport(c.file) /\ Imported(c.file).status = "ok"
     THEN c.kind = "meshes" /\ c.data = Imported(c.file).data
     ELSE c.kind = "meshes" =>
            /\ IsImport(c.file) /\ Imported(c.file).status = "undefined"
            /\ c.data = <<Garbage>>
  /\ IsImport(c.file) /\ c.kind = "error" => Refusable(c.file)

QueueInv ==
  /\ QueuedOnce
  /\ \A i \in 1..Len(ioContinuations) : Carries(ioContinuations[i])

Inv == TypeOK /\ PlaceInv /\ QueueInv /\ \A f \in Files : MeshesAccounted(f)
-----------------------------------------------------------------------------
(* The importer and its continuations.                                      *)

LEMMA ContentTyped ==
  ASSUME TypeOK, NEW f \in Files
  PROVE  /\ content[f] \in Contents[f]
         /\ content[f].extension \in {".gltf", ".json", "other"}
<1>1. content[f] \in Contents[f]
      BY DEF TypeOK, Holdings
<1>2. QED
      BY <1>1, LoadingAssumption

\* What becomes of the document that a file holds.
LEMMA ImportedIs ==
  ASSUME TypeOK, NEW f \in Files, IsImport(f)
  PROVE  LET g == content[f].value
         IN /\ Imported(f).status \in {"ok", "error", "undefined"}
            /\ Imported(f).status = "ok" =>
                 /\ AreMeshData(Imported(f).data)
                 /\ Imports(g, disk, FirstNode(g), Imported(f).data)
            /\ Imported(f).status = "error" => Refusable(f)
            /\ Imported(f).status = "undefined" =>
                 g # Broken /\ MayBeUndefined(g, disk)
<1> DEFINE g == content[f].value
<1>1. content[f] \in Contents[f] /\ content[f].extension = ".gltf" /\ disk \in Disks
      BY ContentTyped DEF IsImport, TypeOK
<1>2. CASE Readable(disk, f) /\ g # Broken
  <2>1. Imported(f) = ReadGLTF(g, disk)
        BY <1>2 DEF Imported
  <2>2. WellFormed(g) /\ SizesAreNatural(disk)
        BY <1>1, <1>2, LoadingAssumption DEF SizesAreNatural
  <2> HIDE DEF g
  <2>3. LET r == ReadGLTF(g, disk)
        IN /\ r.status \in {"ok", "error", "undefined"}
           /\ r.status = "ok" =>
                AreMeshData(r.data) /\ Imports(g, disk, FirstNode(g), r.data)
           /\ r.status = "error" => MayFail(g, disk)
           /\ r.status = "undefined" => MayBeUndefined(g, disk)
        BY <2>2, ImporterCorrect
  <2>4. QED
        BY <1>2, <2>1, <2>3 DEF Refusable, g
<1>3. CASE ~(Readable(disk, f) /\ g # Broken)
  <2>1. Imported(f) = Error
        BY <1>3, Zenon DEF Imported
  <2>2. QED
        BY <1>3, <2>1 DEF Error, Refusable
<1>4. QED
      BY <1>2, <1>3

LEMMA GarbageIsMeshData == AreMeshData(<<Garbage>>)
<1>1. \A x : IsVector(<<x>>) /\ <<x>>[1] = x /\ DOMAIN <<x>> = 1..1
  <2>1. TAKE x
  <2>2. <<x>> \in Seq({x}) /\ DOMAIN <<x>> = 1..1 /\ <<x>>[1] = x
        OBVIOUS
  <2>3. QED
        BY <2>2, SeqIsVector
<1>2. Garbage.indices = <<Zero>>
      BY DEF Garbage
<1>3. \A i \in DOMAIN <<Garbage>> : <<Garbage>>[i] = Garbage
  <2>1. \A i \in 1..1 : i = 1
        OBVIOUS
  <2>2. QED
        BY <1>1, <2>1
<1>4. QED
      BY <1>1, <1>2, <1>3 DEF AreMeshData

\* What a continuation is for the file f.
Suits(c, f) ==
  /\ c.file = f /\ c.kind \in {"error", "meshes", "control"}
  /\ c.kind = "meshes" => AreMeshData(c.data)
  /\ Carries(c)

LEMMA PushedSuits ==
  ASSUME TypeOK, NEW f \in Files, content[f].extension # "other",
         NEW c \in IF content[f].extension = ".json" THEN LoadJSON(f) ELSE LoadGLTF(f)
  PROVE  Suits(c, f)
<1> DEFINE C(kind, data) == Continuation(f, kind, data)
<1>1. \A kind, data : /\ C(kind, data).file = f /\ C(kind, data).kind = kind
                      /\ C(kind, data).data = data
      BY DEF Continuation
<1>2. CASE content[f].extension = ".json"
  <2>1. c \in LoadJSON(f) /\ ~IsImport(f)
        BY <1>2 DEF IsImport
  <2>2. c = C("control", content[f].value) \/ c = C("error", <<>>)
        BY <2>1 DEF LoadJSON
  <2>3. c.file = f /\ c.kind \in {"control", "error"}
        BY <1>1, <2>2
  <2>4. QED
        BY <2>1, <2>3 DEF Suits, Carries
<1>3. CASE content[f].extension # ".json"
  <2>1. c \in LoadGLTF(f) /\ IsImport(f)
        BY <1>3, ContentTyped DEF IsImport
  <2>2. /\ Imported(f).status \in {"ok", "error", "undefined"}
        /\ Imported(f).status = "ok" => AreMeshData(Imported(f).data)
        /\ Imported(f).status \in {"error", "undefined"} => Refusable(f)
        BY <2>1, ImportedIs DEF Refusable, MayFail
  <2>3. CASE Imported(f).status = "ok"
    <3>1. LoadGLTF(f) = {C("meshes", Imported(f).data)}
          BY <2>3, Zenon DEF LoadGLTF
    <3>2. c.file = f /\ c.kind = "meshes" /\ c.data = Imported(f).data
          BY <1>1, <2>1, <3>1
    <3>3. QED
          BY <2>1, <2>2, <2>3, <3>2 DEF Suits, Carries
  <2>4. CASE Imported(f).status = "error"
    <3>1. LoadGLTF(f) = {C("error", <<>>)}
          BY <2>4, Zenon DEF LoadGLTF
    <3>2. c.file = f /\ c.kind = "error"
          BY <1>1, <2>1, <3>1
    <3>3. QED
          BY <2>2, <2>4, <3>2 DEF Suits, Carries
  <2>5. CASE Imported(f).status = "undefined"
    <3>1. LoadGLTF(f) = {C("error", <<>>), C("meshes", <<Garbage>>)}
          BY <2>5, Zenon DEF LoadGLTF
    <3>2. /\ c.file = f
          /\ c.kind = "error" \/ (c.kind = "meshes" /\ c.data = <<Garbage>>)
          BY <1>1, <2>1, <3>1
    <3>3. QED
          BY <2>1, <2>2, <2>5, <3>2, GarbageIsMeshData DEF Suits, Carries
  <2>6. QED
        BY <2>2, <2>3, <2>4, <2>5
<1>4. QED
      BY <1>2, <1>3
-----------------------------------------------------------------------------
(* What a step leaves alone.                                                *)

LEMMA SameImports ==
  ASSUME UNCHANGED environment, NEW f
  PROVE  /\ Imported(f)' = Imported(f) /\ IsImport(f)' = IsImport(f)
         /\ content'[f] = content[f] /\ Refusable(f)' = Refusable(f)
  BY Zenon DEF environment, Imported, IsImport, Readable, Refusable

LEMMA SameCarries ==
  ASSUME UNCHANGED environment, NEW c, Carries(c)
  PROVE  Carries(c)'
  BY SameImports DEF Carries

-----------------------------------------------------------------------------
(* The queue.                                                               *)

LEMMA QueueTyped ==
  ASSUME TypeOK
  PROVE  /\ Len(ioContinuations) \in Nat
         /\ DOMAIN ioContinuations = 1..Len(ioContinuations)
         /\ Queued = {ioContinuations[i].file : i \in 1..Len(ioContinuations)}
         /\ Queued \subseteq Files
<1>1. /\ Len(ioContinuations) \in Nat
      /\ DOMAIN ioContinuations = 1..Len(ioContinuations)
      BY VectorElements DEF TypeOK
<1>2. QED
      BY <1>1 DEF TypeOK, Queued

LEMMA SameQueue ==
  ASSUME UNCHANGED <<environment, ioContinuations>>, TypeOK, QueueInv
  PROVE  QueueInv' /\ Queued' = Queued
<1>1. ioContinuations' = ioContinuations
      OBVIOUS
<1>2. ASSUME NEW i \in 1..Len(ioContinuations')
      PROVE  Carries(ioContinuations[i])'
  <2>1. PICK c : c = ioContinuations[i]
        OBVIOUS
  <2>2. Carries(c)
        BY <1>1, <2>1 DEF QueueInv
  <2>3. Carries(c)'
        BY <2>2, SameCarries
  <2>4. QED
        BY <1>1, <2>1, <2>3 DEF Carries
<1>3. QED
      BY <1>1, <1>2 DEF QueueInv, QueuedOnce, Queued

\* A worker pushes the continuation of a file that is not queued.
LEMMA PushedQueue ==
  ASSUME UNCHANGED environment, TypeOK, QueueInv, NEW f \in Files \ Queued,
         NEW c, Suits(c, f), ioContinuations' = Append(ioContinuations, c)
  PROVE  QueueInv' /\ Queued' = Queued \cup {f}
<1> DEFINE q == Append(ioContinuations, c)
<1>1. PICK n \in Nat : n = Len(ioContinuations)
      BY QueueTyped
<1>2. /\ IsVector(q) /\ Len(q) = n + 1 /\ DOMAIN q = 1..(n + 1) /\ q[n + 1] = c
      /\ \A i \in 1..n : q[i] = ioContinuations[i]
      BY <1>1, VectorAppend, VectorElements DEF TypeOK
<1>3. \A i \in 1..n : ioContinuations[i].file # f
      BY <1>1, QueueTyped
<1>4. ioContinuations' = q
      OBVIOUS
<1> HIDE DEF q
<1>5. QueuedOnce'
  <2>1. SUFFICES ASSUME NEW i \in 1..(n + 1), NEW j \in 1..(n + 1), q[i].file = q[j].file
                 PROVE  i = j
        BY <1>2, <1>4 DEF QueuedOnce
  <2>2. CASE i \in 1..n /\ j \in 1..n
        BY <1>1, <1>2, <2>1, <2>2 DEF QueueInv, QueuedOnce
  <2>3. CASE i = n + 1 /\ j \in 1..n
        BY <1>2, <1>3, <2>1, <2>3 DEF Suits
  <2>4. CASE i \in 1..n /\ j = n + 1
        BY <1>2, <1>3, <2>1, <2>4 DEF Suits
  <2>5. QED
        BY <2>2, <2>3, <2>4
<1>6. \A i \in 1..Len(ioContinuations') : Carries(ioContinuations[i])'
  <2>1. SUFFICES ASSUME NEW i \in 1..(n + 1)
                 PROVE  Carries(ioContinuations[i])'
        BY <1>2, <1>4
  <2>2. PICK d : d = q[i]
        OBVIOUS
  <2>3. Carries(d)
    <3>1. CASE i \in 1..n
          BY <1>1, <1>2, <2>2, <3>1 DEF QueueInv
    <3>2. CASE i = n + 1
          BY <1>2, <2>2, <3>2 DEF Suits
    <3>3. QED
          BY <3>1, <3>2
  <2>4. Carries(d)'
        BY <2>3, SameCarries
  <2>5. QED
        BY <1>4, <2>2, <2>4 DEF Carries
<1>7. Queued' = Queued \cup {f}
  <2>1. Queued' = {q[i].file : i \in 1..(n + 1)}
        BY <1>2, <1>4 DEF Queued
  <2>2. {q[i].file : i \in 1..(n + 1)} = {q[i].file : i \in 1..n} \cup {q[n + 1].file}
        BY SMTT(20)
  <2>3. {q[i].file : i \in 1..n} = Queued /\ q[n + 1].file = f
        BY <1>1, <1>2, QueueTyped DEF Suits
  <2>4. QED
        BY <2>1, <2>2, <2>3
<1>8. QED
      BY <1>5, <1>6, <1>7 DEF QueueInv

\* The main thread takes the first continuation, the only one of its file.
LEMMA PoppedQueue ==
  ASSUME UNCHANGED environment, TypeOK, QueueInv, ioContinuations # <<>>,
         ioContinuations' = Tail(ioContinuations)
  PROVE  LET c == Head(ioContinuations)
         IN /\ QueueInv' /\ Queued' = Queued \ {c.file} /\ c.file \in Queued
            /\ IsVector(ioContinuations')
            /\ \A i \in DOMAIN ioContinuations' :
                 \E j \in DOMAIN ioContinuations : ioContinuations'[i] = ioContinuations[j]
<1> DEFINE q == Tail(ioContinuations)
           p == ioContinuations
<1>1. PICK n : n = Len(p)
      OBVIOUS
<1>2. /\ n \in Nat \ {0} /\ Head(p) = p[1] /\ IsVector(q) /\ Len(q) = n - 1
      /\ \A i \in 1..(n - 1) : q[i] = p[i + 1]
      BY <1>1, VectorTail DEF TypeOK
<1>3. DOMAIN q = 1..(n - 1) /\ DOMAIN p = 1..n
      BY <1>1, <1>2, VectorElements, QueueTyped
<1>4. \A i, j \in 1..n : p[i].file = p[j].file => i = j
      BY <1>1 DEF QueueInv, QueuedOnce
<1>5. ioContinuations' = q
      OBVIOUS
<1>6. \A i \in 1..n : Carries(p[i])
      BY <1>1 DEF QueueInv
<1>7. Queued = {p[i].file : i \in 1..n}
      BY <1>1, QueueTyped
<1> HIDE DEF q
<1>8. QueuedOnce'
  <2>1. SUFFICES ASSUME NEW i \in 1..(n - 1), NEW j \in 1..(n - 1), q[i].file = q[j].file
                 PROVE  i = j
        BY <1>2, <1>5 DEF QueuedOnce
  <2>2. i + 1 \in 1..n /\ j + 1 \in 1..n /\ p[i + 1].file = p[j + 1].file
        BY <1>2, <2>1
  <2>3. i + 1 = j + 1
        BY <1>4, <2>2
  <2>4. QED
        BY <1>2, <2>3
<1>9. \A i \in 1..Len(ioContinuations') : Carries(ioContinuations[i])'
  <2>1. SUFFICES ASSUME NEW i \in 1..(n - 1)
                 PROVE  Carries(ioContinuations[i])'
        BY <1>2, <1>5
  <2>2. PICK d : d = q[i]
        OBVIOUS
  <2>3. i + 1 \in 1..n /\ d = p[i + 1]
        BY <1>2, <2>2
  <2>4. Carries(d)'
        BY <1>6, <2>3, SameCarries
  <2>5. QED
        BY <1>5, <2>2, <2>4 DEF Carries
<1>10. Queued' = Queued \ {Head(p).file}
  <2>1. Queued' = {q[i].file : i \in 1..(n - 1)}
        BY <1>3, <1>5 DEF Queued
  <2>2. ASSUME NEW i \in 1..(n - 1) PROVE q[i].file \in Queued \ {p[1].file}
    <3>1. i + 1 \in 1..n /\ 1 \in 1..n /\ i + 1 # 1 /\ q[i] = p[i + 1]
          BY <1>2
    <3>2. QED
          BY <1>4, <1>7, <3>1
  <2>3. ASSUME NEW x \in Queued \ {p[1].file} PROVE \E i \in 1..(n - 1) : x = q[i].file
    <3>1. PICK j \in 1..n : x = p[j].file
          BY <1>7, <2>3
    <3>2. j # 1
          BY <2>3, <3>1
    <3>3. j - 1 \in 1..(n - 1) /\ (j - 1) + 1 = j
          BY <1>2, <3>1, <3>2
    <3>4. q[j - 1] = p[j]
          BY <1>2, <3>3
    <3>5. QED
          BY <3>1, <3>3, <3>4
  <2>4. QED
        BY <1>2, <2>1, <2>2, <2>3
<1>11. Head(p).file \in Queued
  <2>1. 1 \in 1..n
        BY <1>2
  <2>2. QED
        BY <1>2, <1>7, <2>1
<1>12. \A i \in DOMAIN q : \E j \in DOMAIN p : q[i] = p[j]
  <2>1. ASSUME NEW i \in 1..(n - 1) PROVE i + 1 \in 1..n /\ q[i] = p[i + 1]
        BY <1>2
  <2>2. QED
        BY <1>3, <2>1
<1>13. QED
      BY <1>2, <1>5, <1>8, <1>9, <1>10, <1>11, <1>12 DEF QueueInv
-----------------------------------------------------------------------------
(* The meshes.                                                              *)

LEMMA MeshesTyped ==
  ASSUME TypeOK
  PROVE  Len(meshes) \in Nat /\ DOMAIN meshes = 1..Len(meshes)
  BY VectorElements DEF TypeOK

\* The meshes of f are accounted for while none of them is made and f does not
\* settle as an import.
LEMMA SameMeshes ==
  ASSUME UNCHANGED environment, NEW f, MeshesAccounted(f),
         Len(meshes) \in Nat, Len(meshes') \in Nat, Len(meshes) <= Len(meshes'),
         MadeFrom(f)' = MadeFrom(f), \A i \in MadeFrom(f) : meshes'[i] = meshes[i],
         \/ outcome'[f] = outcome[f]
         \/ (outcome[f] \notin {"loaded", "failed"}
               /\ outcome'[f] \notin {"loaded", "failed"})
  PROVE  MeshesAccounted(f)'
<1>1. /\ Imported(f)' = Imported(f) /\ IsImport(f)' = IsImport(f)
      BY SameImports
<1>2. CASE IsImport(f) /\ Imported(f).status = "ok"
  <2> DEFINE data == Imported(f).data
  <2>1. PICK n \in 0..Len(data) :
          /\ FirstMade(f, data, n)
          /\ outcome[f] = "loaded" => n = Len(data)
          /\ outcome[f] = "failed" => n < Len(data)
          /\ outcome[f] \notin {"loaded", "failed"} => n = 0
        BY <1>2 DEF MeshesAccounted
  <2>2. PICK before \in 0..Len(meshes) :
          /\ MadeFrom(f) = (before + 1)..(before + n)
          /\ \A i \in 1..n : meshes[before + i].name = data[i].name
        BY <2>1 DEF FirstMade
  <2>3. n \in Int /\ before \in 0..Len(meshes')
        BY <2>1
  <2>4. \A i \in 1..n : before + i \in MadeFrom(f)
        BY <2>2, <2>3
  <2>5. \A i \in 1..n : meshes'[before + i].name = data[i].name
        BY <2>2, <2>4
  <2>6. FirstMade(f, Imported(f).data, n)'
        BY <1>1, <2>2, <2>3, <2>5 DEF FirstMade
  <2>7. QED
        BY <1>1, <1>2, <2>1, <2>6 DEF MeshesAccounted
<1>3. CASE ~(IsImport(f) /\ Imported(f).status = "ok")
  <2>1. \A i \in MadeFrom(f) : /\ IsImport(f) /\ Imported(f).status = "undefined"
                               /\ meshes[i].name = Garbage.name
        BY <1>3 DEF MeshesAccounted
  <2>2. \A i \in MadeFrom(f)' : /\ IsImport(f) /\ Imported(f).status = "undefined"
                                /\ meshes'[i].name = Garbage.name
        BY <2>1
  <2>3. QED
        BY <1>1, <1>3, <2>2 DEF MeshesAccounted
<1>4. QED
      BY <1>2, <1>3

\* The first meshes of data are created for f.
LEMMA MadeBlock ==
  ASSUME TypeOK, NEW f \in Files, NEW data, AreMeshData(data),
         NEW created \in 0..Len(data),
         meshes' = meshes \o [i \in 1..created |-> Mesh(f, data[i])]
  PROVE  /\ created \in Nat /\ IsVector(meshes') /\ Len(meshes') = Len(meshes) + created
         /\ \A i \in 1..Len(meshes) : meshes'[i] = meshes[i]
         /\ \A i \in 1..created : meshes'[Len(meshes) + i] = Mesh(f, data[i])
         /\ \A i \in DOMAIN meshes' :
              /\ meshes'[i].file \in Files
              /\ {meshes'[i].numIndices, meshes'[i].numVertices} \subseteq Nat
         /\ \A g \in Files : MadeFrom(g)' =
              IF g = f THEN MadeFrom(f) \cup ((Len(meshes) + 1)..(Len(meshes) + created))
              ELSE MadeFrom(g)
<1> DEFINE block == [i \in 1..created |-> Mesh(f, data[i])]
<1>1. PICK n \in Nat : n = Len(meshes)
      BY MeshesTyped
<1>2. Len(data) \in Nat /\ DOMAIN data = 1..Len(data) /\ created \in Nat
      BY VectorElements DEF AreMeshData
<1>3. /\ IsVector(block) /\ Len(block) = created
      /\ \A i \in 1..created : block[i] = Mesh(f, data[i])
  <2>1. /\ block = [i \in 1..created |-> block[i]] /\ DOMAIN block = 1..created
        /\ \A i \in 1..created : block[i] = Mesh(f, data[i])
        OBVIOUS
  <2> HIDE DEF block
  <2>2. IsVector(block)
        BY <1>2, <2>1, VectorIs
  <2>3. Len(block) \in Nat /\ DOMAIN block = 1..Len(block)
        BY <2>2, VectorElements
  <2>4. Len(block) = created
        BY <1>2, <2>1, <2>3
  <2>5. QED
        BY <2>1, <2>2, <2>4
<1>4. meshes' = meshes \o block
      OBVIOUS
<1> HIDE DEF block
<1>5. /\ IsVector(meshes') /\ Len(meshes') = n + created
      /\ \A i \in 1..n : meshes'[i] = meshes[i]
      /\ \A i \in 1..created : meshes'[n + i] = Mesh(f, data[i])
  <2>1. PICK w : w = meshes \o block
        OBVIOUS
  <2>2. /\ IsVector(w) /\ Len(w) = Len(meshes) + Len(block)
        /\ \A i \in 1..Len(meshes) : w[i] = meshes[i]
        /\ \A i \in 1..Len(block) : w[Len(meshes) + i] = block[i]
        BY <1>3, <2>1, VectorConcat DEF TypeOK
  <2>3. QED
        BY <1>1, <1>3, <1>4, <2>1, <2>2
<1>6. DOMAIN meshes' = 1..(n + created) /\ DOMAIN meshes = 1..n
      BY <1>1, <1>5, VectorElements, MeshesTyped
<1>7. ASSUME NEW i \in 1..(n + created)
      PROVE  (i \in 1..n) \/ (\E j \in 1..created : i = n + j)
  <2>1. i \in 1..n \/ (i - n \in 1..created /\ i = n + (i - n))
        BY <1>1, <1>2
  <2>2. QED
        BY <2>1
<1>8. \A i \in 1..created : /\ Mesh(f, data[i]).file = f
                            /\ Mesh(f, data[i]).numIndices \in Nat
                            /\ Mesh(f, data[i]).numVertices \in Nat
  <2>1. TAKE i \in 1..created
  <2>2. i \in DOMAIN data
        BY <1>2
  <2>3. Len(data[i].indices) \in Nat
        BY <2>2, VectorElements DEF AreMeshData
  <2>4. QED
        BY <2>3 DEF Mesh
<1>9. ASSUME NEW i \in DOMAIN meshes'
      PROVE  /\ meshes'[i].file \in Files
             /\ {meshes'[i].numIndices, meshes'[i].numVertices} \subseteq Nat
  <2>1. CASE i \in 1..n
        BY <1>5, <1>6, <2>1 DEF TypeOK
  <2>2. CASE \E j \in 1..created : i = n + j
        BY <1>5, <1>8, <2>2
  <2>3. QED
        BY <1>6, <1>7, <2>1, <2>2
<1>10. ASSUME NEW g \in Files
       PROVE  MadeFrom(g)' = IF g = f THEN MadeFrom(f) \cup ((n + 1)..(n + created))
                             ELSE MadeFrom(g)
  <2>1. MadeFrom(g)' = {i \in 1..(n + created) : meshes'[i].file = g}
        BY <1>6 DEF MadeFrom
  <2>2. MadeFrom(g) = {i \in 1..n : meshes[i].file = g}
        BY <1>6 DEF MadeFrom
  <2>3. \A i \in 1..n : i \in 1..(n + created) /\ meshes'[i].file = meshes[i].file
        BY <1>2, <1>5
  <2>4. \A i \in (n + 1)..(n + created) : /\ i \in 1..(n + created) /\ i \notin 1..n
                                          /\ meshes'[i].file = f
    <3>1. TAKE i \in (n + 1)..(n + created)
    <3>2. i - n \in 1..created /\ i = n + (i - n) /\ i \in 1..(n + created) /\ i \notin 1..n
          BY <1>2
    <3>3. QED
          BY <1>5, <1>8, <3>2
  <2>5. \A i \in 1..(n + created) : i \in 1..n \/ i \in (n + 1)..(n + created)
        BY <1>2
  <2>6. QED
        BY <2>1, <2>2, <2>3, <2>4, <2>5
<1>11. QED
       BY <1>1, <1>2, <1>5, <1>9, <1>10
-----------------------------------------------------------------------------
(* The steps.                                                               *)

LEMMA InitInv == Init => Inv
<1> SUFFICES ASSUME Init PROVE Inv
    OBVIOUS
<1>1. IsVector(ioContinuations) /\ IsVector(meshes) /\ drawn \in Seq(Nat)
  <2>1. <<>> \in Seq(Nat)
        OBVIOUS
  <2>2. QED
        BY <2>1, SeqIsVector DEF Init
<1>2. DOMAIN ioContinuations = {} /\ DOMAIN meshes = {} /\ Len(ioContinuations) = 0
      /\ Len(meshes) = 0
      BY DEF Init
<1>3. TypeOK
      BY <1>1, <1>2 DEF Init, TypeOK
<1>4. PlaceInv
      BY <1>2 DEF Init, PlaceInv, Queued
<1>5. QueueInv
      BY <1>2 DEF QueueInv, QueuedOnce
<1>6. ASSUME NEW f \in Files PROVE MeshesAccounted(f)
  <2>1. MadeFrom(f) = {} /\ outcome[f] = "waiting"
        BY <1>2 DEF Init, MadeFrom
  <2>2. CASE IsImport(f) /\ Imported(f).status = "ok"
    <3>1. Len(Imported(f).data) \in Nat
          BY <1>3, <2>2, ImportedIs, VectorElements DEF AreMeshData
    <3>2. FirstMade(f, Imported(f).data, 0)
      <4>1. 0 \in 0..Len(meshes) /\ MadeFrom(f) = (0 + 1)..(0 + 0)
            BY <1>2, <2>1
      <4>2. QED
            BY <4>1 DEF FirstMade
    <3>3. QED
          BY <2>1, <2>2, <3>1, <3>2 DEF MeshesAccounted
  <2>3. CASE ~(IsImport(f) /\ Imported(f).status = "ok")
        BY <2>1, <2>3 DEF MeshesAccounted
  <2>4. QED
        BY <2>2, <2>3
<1>7. QED
      BY <1>3, <1>4, <1>5, <1>6 DEF Inv

\* A step that makes no mesh and lets no import settle.
LEMMA MeshesStay ==
  ASSUME Inv, UNCHANGED <<environment, meshes>>,
         \A f \in Files : \/ outcome'[f] = outcome[f]
                          \/ (outcome[f] \notin {"loaded", "failed"}
                                /\ outcome'[f] \notin {"loaded", "failed"})
  PROVE  \A f \in Files : MeshesAccounted(f)'
<1>1. TAKE f \in Files
<1>2. MadeFrom(f)' = MadeFrom(f) /\ Len(meshes) \in Nat /\ meshes' = meshes
      BY MeshesTyped DEF MadeFrom, Inv
<1>3. QED
      BY <1>2, SameMeshes DEF Inv

LEMMA LoadFileInv ==
  ASSUME Inv, NEW f \in Files, LoadFile(f)
  PROVE  Inv'
<1>1. /\ f \in arguments /\ arguments' = arguments \ {f}
      /\ UNCHANGED <<environment, pc, ioContinuations, scene, drawn, running>>
      /\ \/ tasks' = tasks \cup {f} /\ UNCHANGED outcome
         \/ outcome' = [outcome EXCEPT ![f] = "refused"] /\ UNCHANGED tasks
      BY DEF LoadFile
<1>2. TypeOK'
      BY <1>1 DEF Inv, TypeOK, environment, scene
<1>3. QueueInv' /\ Queued' = Queued
      BY <1>1, SameQueue DEF Inv
<1>4. outcome[f] = "waiting" /\ DOMAIN outcome = Files
      BY <1>1 DEF Inv, TypeOK, PlaceInv
<1>5. PlaceInv'
      BY <1>1, <1>3, <1>4 DEF Inv, PlaceInv
<1>6. \A g \in Files : \/ outcome'[g] = outcome[g]
                       \/ (outcome[g] \notin {"loaded", "failed"}
                             /\ outcome'[g] \notin {"loaded", "failed"})
      BY <1>1, <1>4
<1>7. \A g \in Files : MeshesAccounted(g)'
      BY <1>1, <1>6, MeshesStay DEF scene
<1>8. QED
      BY <1>2, <1>3, <1>5, <1>7 DEF Inv

\* A step that only moves the main thread.
LEMMA MovedInv ==
  ASSUME Inv,
         UNCHANGED <<environment, arguments, tasks, ioContinuations, outcome,
         scene>>,
         pc' \in {"arguments", "begin", "frame", "done", "crashed"},
         drawn' \in Seq(Nat), running' \in BOOLEAN
  PROVE  Inv'
<1>1. TypeOK'
      BY DEF Inv, TypeOK, environment, scene
<1>2. QueueInv' /\ Queued' = Queued
      BY SameQueue DEF Inv
<1>3. PlaceInv'
      BY <1>2 DEF Inv, PlaceInv
<1>4. \A g \in Files : MeshesAccounted(g)'
      BY MeshesStay DEF scene
<1>5. QED
      BY <1>1, <1>2, <1>3, <1>4 DEF Inv

LEMMA EndFrameInv ==
  ASSUME Inv, EndFrame
  PROVE  Inv'
<1>1. drawn' \in Seq(Nat)
  <2>1. CASE running
    <3>1. \A i \in DOMAIN meshes : Count(meshes[i]) \in Nat
          BY DEF Inv, TypeOK, Count
    <3>2. Len(meshes) \in Nat /\ DOMAIN meshes = 1..Len(meshes)
          BY MeshesTyped DEF Inv
    <3>3. drawn' = [i \in 1..Len(meshes) |-> Count(meshes[i])]
          BY <2>1, <3>2 DEF EndFrame
    <3>4. drawn' \in [1..Len(meshes) -> Nat]
          BY <3>1, <3>2, <3>3
    <3>5. QED
          BY <3>2, <3>4, SeqDef
  <2>2. CASE ~running
        BY <2>2 DEF EndFrame, Inv, TypeOK
  <2>3. QED
        BY <2>1, <2>2
<1>2. QED
      BY <1>1, MovedInv DEF EndFrame, Inv, TypeOK

LEMMA TaskPushesInv ==
  ASSUME Inv, NEW f \in Files, TaskPushes(f)
  PROVE  Inv'
<1>1. /\ f \in tasks /\ tasks' = tasks \ {f} /\ content[f].extension # "other"
      /\ UNCHANGED <<environment, pc, arguments, scene, drawn, running>>
      /\ UNCHANGED outcome
      BY DEF TaskPushes, TaskDone
<1>2. PICK c \in IF content[f].extension = ".json" THEN LoadJSON(f) ELSE LoadGLTF(f) :
        ioContinuations' = Append(ioContinuations, c)
      BY DEF TaskPushes
<1>3. Suits(c, f)
      BY <1>1, <1>2, PushedSuits DEF Inv
<1>4. f \notin Queued
      BY <1>1 DEF Inv, PlaceInv
<1>5. QueueInv' /\ Queued' = Queued \cup {f}
      BY <1>1, <1>2, <1>3, <1>4, PushedQueue DEF Inv
<1>6. PlaceInv'
      BY <1>1, <1>5 DEF Inv, PlaceInv
<1>7. TypeOK'
  <2> DEFINE q == Append(ioContinuations, c)
  <2>1. /\ IsVector(q) /\ DOMAIN q = 1..(Len(ioContinuations) + 1)
        /\ \A i \in 1..Len(ioContinuations) : q[i] = ioContinuations[i]
        /\ q[Len(ioContinuations) + 1] = c
        BY VectorAppend, VectorElements DEF Inv, TypeOK
  <2> HIDE DEF q
  <2>2. PICK n \in Nat : n = Len(ioContinuations) /\ DOMAIN ioContinuations = 1..n
        BY QueueTyped DEF Inv
  <2>3. ASSUME NEW i \in DOMAIN q
        PROVE  /\ q[i].file \in Files /\ q[i].kind \in {"error", "meshes", "control"}
               /\ q[i].kind = "meshes" => AreMeshData(q[i].data)
    <3>1. CASE i \in 1..n
          BY <2>1, <2>2, <3>1 DEF Inv, TypeOK
    <3>2. CASE i = n + 1
          BY <1>3, <2>1, <2>2, <3>2 DEF Suits
    <3>3. QED
          BY <2>1, <2>2, <3>1, <3>2
  <2>4. ioContinuations' = q
        BY <1>2 DEF q
  <2>5. QED
        BY <1>1, <2>1, <2>3, <2>4 DEF Inv, TypeOK, environment, scene
<1>8. \A g \in Files : MeshesAccounted(g)'
      BY <1>1, MeshesStay DEF scene
<1>9. QED
      BY <1>5, <1>6, <1>7, <1>8 DEF Inv

LEMMA TaskIgnoresInv ==
  ASSUME Inv, NEW f \in Files, TaskIgnores(f)
  PROVE  Inv'
<1>1. /\ f \in tasks /\ tasks' = tasks \ {f}
      /\ UNCHANGED <<environment, pc, arguments, ioContinuations, scene, drawn, running>>
      /\ outcome' = [outcome EXCEPT ![f] = "ignored"]
      BY DEF TaskIgnores, TaskDone
<1>2. TypeOK'
      BY <1>1 DEF Inv, TypeOK, environment, scene
<1>3. QueueInv' /\ Queued' = Queued
      BY <1>1, SameQueue DEF Inv
<1>4. outcome[f] = "waiting" /\ DOMAIN outcome = Files
      BY <1>1 DEF Inv, TypeOK, PlaceInv
<1>5. PlaceInv'
      BY <1>1, <1>3, <1>4 DEF Inv, PlaceInv
<1>6. \A g \in Files : \/ outcome'[g] = outcome[g]
                       \/ (outcome[g] \notin {"loaded", "failed"}
                             /\ outcome'[g] \notin {"loaded", "failed"})
      BY <1>1, <1>4
<1>7. \A g \in Files : MeshesAccounted(g)'
      BY <1>1, <1>6, MeshesStay DEF scene
<1>8. QED
      BY <1>2, <1>3, <1>5, <1>7 DEF Inv

\* RunContinuation, without what the continuation does.
LEMMA RunInv ==
  ASSUME Inv, RunContinuation,
         NEW f \in Files, f = Head(ioContinuations).file,
         outcome' \in [Files -> {"waiting", "refused", "ignored", "failed", "loaded"}],
         outcome'[f] # "waiting", \A g \in Files \ {f} : outcome'[g] = outcome[g],
         IsVector(meshes'),
         \A i \in DOMAIN meshes' :
           /\ meshes'[i].file \in Files
           /\ {meshes'[i].numIndices, meshes'[i].numVertices} \subseteq Nat,
         \A g \in Files : MeshesAccounted(g)'
  PROVE  Inv'
<1>1. /\ ioContinuations # <<>> /\ ioContinuations' = Tail(ioContinuations)
      /\ UNCHANGED <<environment, pc, arguments, tasks, drawn, running>>
      BY DEF RunContinuation
<1>2. /\ QueueInv' /\ Queued' = Queued \ {f} /\ f \in Queued
      /\ IsVector(ioContinuations')
      /\ \A i \in DOMAIN ioContinuations' :
           \E j \in DOMAIN ioContinuations : ioContinuations'[i] = ioContinuations[j]
      BY <1>1, PoppedQueue DEF Inv
<1>3. PlaceInv'
  <2>1. f \notin arguments /\ f \notin tasks
        BY <1>2 DEF Inv, PlaceInv
  <2>2. {g \in Files : outcome'[g] = "waiting"} = {g \in Files : outcome[g] = "waiting"} \ {f}
        OBVIOUS
  <2>3. QED
        BY <1>1, <1>2, <2>1, <2>2 DEF Inv, PlaceInv
<1>4. TypeOK'
  <2>1. ASSUME NEW i \in DOMAIN ioContinuations'
        PROVE  LET c == ioContinuations'[i]
               IN /\ c.file \in Files /\ c.kind \in {"error", "meshes", "control"}
                  /\ c.kind = "meshes" => AreMeshData(c.data)
    <3>1. PICK j \in DOMAIN ioContinuations : ioContinuations'[i] = ioContinuations[j]
          BY <1>2
    <3>2. QED
          BY <3>1 DEF Inv, TypeOK
  <2>2. QED
        BY <1>1, <1>2, <2>1 DEF Inv, TypeOK, environment
<1>5. QED
      BY <1>2, <1>3, <1>4 DEF Inv

LEMMA RunContinuationInv ==
  ASSUME Inv, RunContinuation
  PROVE  Inv'
<1>1. PICK c : c = Head(ioContinuations)
      OBVIOUS
<1>2. ioContinuations # <<>> /\ UNCHANGED environment
      BY DEF RunContinuation
<1>3. /\ c.file \in Files /\ c.file \in Queued /\ Carries(c)
      /\ c.kind = "meshes" => AreMeshData(c.data)
  <2>1. Len(ioContinuations) \in Nat \ {0} /\ c = ioContinuations[1]
        BY <1>1, <1>2, VectorTail DEF Inv, TypeOK
  <2>2. 1 \in DOMAIN ioContinuations /\ 1 \in 1..Len(ioContinuations)
        BY <2>1, QueueTyped DEF Inv
  <2>3. QED
        BY <2>1, <2>2 DEF Inv, TypeOK, QueueInv, Queued
<1>4. PICK f \in Files : f = c.file
      BY <1>3
<1>5. outcome[f] = "waiting" /\ DOMAIN outcome = Files
      BY <1>3, <1>4 DEF Inv, TypeOK, PlaceInv
<1>6. \A g \in Files : MeshesAccounted(g)
      BY DEF Inv
<1>7. Len(meshes) \in Nat /\ DOMAIN meshes = 1..Len(meshes)
      BY MeshesTyped DEF Inv
<1>8. CASE c.kind = "meshes" /\ CreateMeshes(f, c.data)
  <2>1. PICK created \in 0..Len(c.data) :
          /\ meshes' = meshes \o [i \in 1..created |-> Mesh(f, c.data[i])]
          /\ outcome' = [outcome EXCEPT ![f] =
                           IF created = Len(c.data) THEN "loaded" ELSE "failed"]
        BY <1>8, Zenon DEF CreateMeshes
  <2>2. /\ created \in Nat /\ IsVector(meshes') /\ Len(meshes') = Len(meshes) + created
        /\ \A i \in 1..Len(meshes) : meshes'[i] = meshes[i]
        /\ \A i \in 1..created : meshes'[Len(meshes) + i] = Mesh(f, c.data[i])
        /\ \A i \in DOMAIN meshes' :
             /\ meshes'[i].file \in Files
             /\ {meshes'[i].numIndices, meshes'[i].numVertices} \subseteq Nat
        /\ \A g \in Files : MadeFrom(g)' =
             IF g = f THEN MadeFrom(f) \cup ((Len(meshes) + 1)..(Len(meshes) + created))
             ELSE MadeFrom(g)
        BY <1>3, <1>4, <1>8, <2>1, MadeBlock DEF Inv
  <2>3. Len(c.data) \in Nat
        BY <1>3, <1>8, VectorElements DEF AreMeshData
  <2>4. \A i \in 1..created : meshes'[Len(meshes) + i].name = c.data[i].name
    <3>1. \A data : Mesh(f, data).name = data.name
          BY DEF Mesh
    <3>2. QED
          BY <2>2, <3>1
  <2>5. MeshesAccounted(f)'
    <3>1. Imported(f)' = Imported(f) /\ IsImport(f)' = IsImport(f)
          BY <1>2, SameImports
    <3>2. CASE IsImport(f) /\ Imported(f).status = "ok"
      <4>1. c.data = Imported(f).data
            BY <1>3, <1>4, <3>2 DEF Carries
      <4>2. PICK n \in 0..Len(c.data) : n = 0 /\ FirstMade(f, c.data, n)
            BY <1>5, <1>6, <3>2, <4>1 DEF MeshesAccounted
      <4>3. MadeFrom(f) = {}
            BY <4>2 DEF FirstMade
      <4>4. Len(meshes) \in 0..Len(meshes')
            BY <1>7, <2>2
      <4>5. MadeFrom(f)' = (Len(meshes) + 1)..(Len(meshes) + created)
            BY <2>2, <4>3
      <4>6. FirstMade(f, Imported(f).data, created)'
            BY <2>4, <3>1, <4>1, <4>4, <4>5 DEF FirstMade
      <4>7. /\ outcome'[f] = "loaded" => created = Len(c.data)
            /\ outcome'[f] = "failed" => created < Len(c.data)
            /\ outcome'[f] \in {"loaded", "failed"}
            BY <1>5, <2>1, <2>2, <2>3
      <4>8. QED
            BY <2>1, <3>1, <3>2, <4>1, <4>6, <4>7 DEF MeshesAccounted
    <3>3. CASE ~(IsImport(f) /\ Imported(f).status = "ok")
      <4>1. IsImport(f) /\ Imported(f).status = "undefined" /\ c.data = <<Garbage>>
            BY <1>3, <1>4, <1>8, <3>3 DEF Carries
      <4>2. \A i \in MadeFrom(f) : i \in 1..Len(meshes) /\ meshes[i].name = Garbage.name
            BY <1>6, <1>7, <3>3 DEF MeshesAccounted, MadeFrom
      <4>3. Len(c.data) = 1 /\ c.data[1] = Garbage
            BY <4>1
      <4>4. \A i \in (Len(meshes) + 1)..(Len(meshes) + created) :
              meshes'[i].name = Garbage.name
        <5>1. TAKE i \in (Len(meshes) + 1)..(Len(meshes) + created)
        <5>2. created = 1 /\ i = Len(meshes) + 1
              BY <1>7, <2>1, <2>2, <4>3
        <5>3. QED
              BY <2>4, <4>3, <5>2
      <4>5. \A i \in MadeFrom(f)' : meshes'[i].name = Garbage.name
            BY <2>2, <4>2, <4>4
      <4>6. QED
            BY <3>1, <3>3, <4>1, <4>5 DEF MeshesAccounted
    <3>4. QED
          BY <3>2, <3>3
  <2>6. ASSUME NEW g \in Files \ {f} PROVE MeshesAccounted(g)'
    <3>1. MadeFrom(g)' = MadeFrom(g) /\ outcome'[g] = outcome[g]
          BY <1>5, <2>1, <2>2
    <3>2. \A i \in MadeFrom(g) : meshes'[i] = meshes[i]
          BY <1>7, <2>2 DEF MadeFrom
    <3>3. Len(meshes') \in Nat /\ Len(meshes) <= Len(meshes')
          BY <1>7, <2>2
    <3>4. QED
          BY <1>2, <1>6, <1>7, <3>1, <3>2, <3>3, SameMeshes
  <2>7. /\ outcome' \in [Files -> {"waiting", "refused", "ignored", "failed", "loaded"}]
        /\ outcome'[f] # "waiting" /\ \A g \in Files \ {f} : outcome'[g] = outcome[g]
        BY <1>5, <2>1 DEF Inv, TypeOK
  <2>8. QED
        BY <1>1, <1>4, <2>2, <2>5, <2>6, <2>7, RunInv
<1>9. CASE \/ (c.kind = "control" /\ Control(f, c.data))
           \/ (c.kind = "error" /\ outcome' = [outcome EXCEPT ![f] = "failed"]
                 /\ UNCHANGED scene)
  <2>1. /\ meshes' = meshes /\ c.kind # "meshes"
        /\ \/ outcome' = [outcome EXCEPT ![f] = "loaded"]
           \/ outcome' = [outcome EXCEPT ![f] = "failed"]
        BY <1>9 DEF Control, scene
  <2>2. /\ outcome' \in [Files -> {"waiting", "refused", "ignored", "failed", "loaded"}]
        /\ outcome'[f] # "waiting" /\ \A g \in Files \ {f} : outcome'[g] = outcome[g]
        BY <1>5, <2>1 DEF Inv, TypeOK
  <2>3. MeshesAccounted(f)'
    <3>1. Imported(f)' = Imported(f) /\ IsImport(f)' = IsImport(f)
          BY <1>2, SameImports
    <3>2. ~(IsImport(f) /\ Imported(f).status = "ok")
          BY <1>3, <1>4, <2>1 DEF Carries
    <3>3. MadeFrom(f)' = MadeFrom(f)
          BY <2>1 DEF MadeFrom
    <3>4. \A i \in MadeFrom(f) : /\ IsImport(f) /\ Imported(f).status = "undefined"
                                 /\ meshes[i].name = Garbage.name
          BY <1>6, <3>2 DEF MeshesAccounted
    <3>5. QED
          BY <2>1, <3>1, <3>2, <3>3, <3>4 DEF MeshesAccounted
  <2>4. ASSUME NEW g \in Files \ {f} PROVE MeshesAccounted(g)'
    <3>1. MadeFrom(g)' = MadeFrom(g)
          BY <2>1 DEF MadeFrom
    <3>2. QED
          BY <1>2, <1>6, <1>7, <2>1, <2>2, <3>1, SameMeshes
  <2>5. IsVector(meshes') /\ \A i \in DOMAIN meshes' :
          /\ meshes'[i].file \in Files
          /\ {meshes'[i].numIndices, meshes'[i].numVertices} \subseteq Nat
        BY <2>1 DEF Inv, TypeOK
  <2>6. QED
        BY <1>1, <1>4, <2>2, <2>3, <2>4, <2>5, RunInv
<1>10. QED
       BY <1>1, <1>4, <1>8, <1>9, Zenon DEF RunContinuation

LEMMA NextInv ==
  ASSUME Inv, [Next]_vars
  PROVE  Inv'
<1>1. ASSUME NEW f \in Files, LoadFile(f) PROVE Inv'
      BY <1>1, LoadFileInv
<1>2. CASE EnterLoop
      BY <1>2, MovedInv DEF EnterLoop, Inv, TypeOK
<1>3. ASSUME NEW f \in Files, TaskPushes(f) PROVE Inv'
      BY <1>3, TaskPushesInv
<1>4. ASSUME NEW f \in Files, TaskIgnores(f) PROVE Inv'
      BY <1>4, TaskIgnoresInv
<1>5. ASSUME NEW f \in Files, TaskCrashes(f) PROVE Inv'
      BY <1>5, MovedInv DEF TaskCrashes, Inv, TypeOK
<1>6. CASE RunContinuation
      BY <1>6, RunContinuationInv
<1>7. CASE BeginWindows
      BY <1>7, MovedInv DEF BeginWindows, Inv, TypeOK
<1>8. CASE EndFrame
      BY <1>8, EndFrameInv
<1>9. CASE UNCHANGED vars
      BY <1>9, MovedInv DEF vars, environment, scene, Inv, TypeOK
<1>10. QED
       BY <1>1, <1>2, <1>3, <1>4, <1>5, <1>6, <1>7, <1>8, <1>9 DEF Next

\* The invariant holds of every state, whatever is loaded in whatever order.
THEOREM Inductive == Spec => []Inv
<1>1. Inv /\ [Next]_vars => Inv'
      BY NextInv
<1>2. QED
      BY InitInv, <1>1, PTL DEF Spec

\* What workers push and the main thread creates and draws has its types: the
\* counts of the draw calls are natural numbers (LoadFile, IOTask, CreateMeshes,
\* EndFrame).
THEOREM TypeCorrect == Spec => []TypeOK
<1>1. Inv => TypeOK
      BY DEF Inv
<1>2. QED
      BY Inductive, <1>1, PTL

\* A file queued once is one entry of the queue.
LEMMA QueuedCounted ==
  ASSUME TypeOK, QueuedOnce
  PROVE  Len(ioContinuations) = Cardinality(Queued)
<1> DEFINE n == Len(ioContinuations)
           of == [i \in 1..n |-> ioContinuations[i].file]
<1>1. n \in Nat /\ Queued = {ioContinuations[i].file : i \in 1..n}
      BY QueueTyped
<1>2. of \in Surjection(1..n, Queued)
      BY <1>1 DEF Surjection
<1>3. of \in Injection(1..n, Queued)
  <2>1. \A i, j \in 1..n : of[i] = of[j] => i = j
        BY DEF QueuedOnce
  <2>2. of \in [1..n -> Queued]
        BY <1>1
  <2>3. QED
        BY <2>1, <2>2 DEF Injection, IsInjective
<1>4. IsFiniteSet(1..n) /\ Cardinality(1..n) = n
  <2>1. 1 \in Int /\ n \in Int
        BY <1>1
  <2>2. IsFiniteSet(1..n) /\ Cardinality(1..n) = IF 1 > n THEN 0 ELSE n - 1 + 1
        BY <2>1, FS_Interval
  <2>3. QED
        BY <1>1, <2>2
<1>5. QED
      BY <1>2, <1>3, <1>4, FS_Surjection

\* For any files, contents and disks, and however workers and main thread take
\* turns, no file is lost or settled twice, and each import's meshes are the
\* first of what ReadGLTF returned, together and in its order: all if the file is
\* reported as loaded, fewer if not (LoadFile, IOTask, BeginFrame, CreateMeshes).
THEOREM LoadsAccountedCorrect == Spec => []LoadsAccounted
<1>1. Inv => LoadsAccounted
      BY QueuedCounted DEF Inv, PlaceInv, QueueInv, LoadsAccounted
<1>2. QED
      BY Inductive, <1>1, PTL
-----------------------------------------------------------------------------
(* What is imported, and what is not.                                       *)

\* Whatever the documents and disks are, and in whatever order workers and main
\* thread run: the data of a continuation that will create meshes is what the
\* document means by the drawables below its first node (ReadGLTF, LoadGLTF,
\* IOTask).
THEOREM ImportFaithfulCorrect == Spec => []ImportFaithful
<1>1. ASSUME Inv PROVE ImportFaithful
  <2>1. SUFFICES ASSUME NEW i \in DOMAIN ioContinuations,
                        ioContinuations[i].kind = "meshes",
                        Imported(ioContinuations[i].file).status = "ok"
                 PROVE  LET c == ioContinuations[i]
                            g == content[c.file].value
                        IN Imports(g, disk, FirstNode(g), c.data)
        BY DEF ImportFaithful
  <2>2. PICK c : c = ioContinuations[i]
        OBVIOUS
  <2>3. c.file \in Files /\ Carries(c)
        BY <1>1, <2>2, QueueTyped DEF Inv, TypeOK, QueueInv
  <2>4. IsImport(c.file) /\ c.data = Imported(c.file).data
        BY <2>1, <2>2, <2>3 DEF Carries
  <2>5. QED
        BY <1>1, <2>1, <2>2, <2>3, <2>4, ImportedIs DEF Inv
<1>2. QED
      BY Inductive, <1>1, PTL

\* The program has crashed in a task that is there to see.
CrashInv ==
  pc = "crashed" =>
    \E f \in tasks : /\ IsImport(f) /\ content[f].value # Broken
                     /\ MayBeUndefined(content[f].value, disk)

LEMMA CrashNext ==
  ASSUME Inv, CrashInv, [Next]_vars
  PROVE  CrashInv'
<1>1. CASE UNCHANGED vars
      BY <1>1, Zenon DEF CrashInv, vars, environment, IsImport
<1>2. ASSUME NEW f \in Files, TaskCrashes(f) PROVE CrashInv'
  <2>1. f \in tasks /\ IsImport(f) /\ Imported(f).status = "undefined"
        BY <1>2 DEF TaskCrashes, IsImport
  <2>2. content[f].value # Broken /\ MayBeUndefined(content[f].value, disk)
        BY <2>1, ImportedIs DEF Inv
  <2>3. tasks' = tasks /\ content' = content /\ disk' = disk
        BY <1>2 DEF TaskCrashes, environment
  <2>4. QED
        BY <2>1, <2>2, <2>3, Zenon DEF CrashInv, IsImport
<1>3. ASSUME NEW f \in Files, LoadFile(f) \/ TaskPushes(f) \/ TaskIgnores(f)
      PROVE  pc' # "crashed"
      BY <1>3 DEF LoadFile, TaskPushes, TaskIgnores, TaskDone
<1>4. ASSUME EnterLoop \/ RunContinuation \/ BeginWindows \/ EndFrame
      PROVE  pc' # "crashed"
      BY <1>4 DEF EnterLoop, RunContinuation, BeginWindows, EndFrame
<1>5. QED
      BY <1>1, <1>2, <1>3, <1>4 DEF Next, CrashInv

\* Whatever the documents and disks are: the importer reads outside a vector, or
\* refuses a document, only for the reasons MayBeUndefined and MayFail list
\* (every check of ReadGLTF, IOTask).
THEOREM OutcomesExplainedCorrect == Spec => []OutcomesExplained
<1>1. Init => CrashInv
      BY DEF Init, CrashInv
<1>2. ASSUME Inv, CrashInv PROVE OutcomesExplained
  <2>1. ASSUME NEW i \in DOMAIN ioContinuations
        PROVE  LET c == ioContinuations[i]
                   g == content[c.file].value
               IN IsImport(c.file) /\ c.kind = "error" =>
                    \/ ~Readable(disk, c.file) \/ g = Broken
                    \/ MayFail(g, disk)
    <3>1. PICK c : c = ioContinuations[i]
          OBVIOUS
    <3>2. Carries(c)
          BY <1>2, <3>1, QueueTyped DEF Inv, QueueInv
    <3>3. QED
          BY <3>1, <3>2 DEF Carries, Refusable
  <2>2. QED
        BY <1>2, <2>1 DEF OutcomesExplained, CrashInv
<1>3. QED
      BY Inductive, CrashNext, <1>1, <1>2, PTL DEF Spec
=============================================================================
