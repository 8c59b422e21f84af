---------------------------- MODULE UploadProofs ----------------------------
(***************************************************************************)
(* Proofs about Upload, for any files, pool, number of items and failures. *)
(***************************************************************************)
EXTENDS Upload, SequenceTheorems, TLAPS

(* The steps of the functions.                                             *)

Making == {"make", "new"}
Last(st) == Len(st.calls) + 1

\* The names made, and those copied to, by the calls of a step before call c.
Made(st, c) ==
  {st.calls[i].name : i \in {j \in 1..(c - 1) : st.calls[j].op \in Making}}
Copied(st, c) ==
  {st.calls[i].name : i \in {j \in 1..(c - 1) :
                              st.calls[j].op = "submit" /\ st.calls[j].reads # {}}}

\* The step that makes each member, and the shaders.
Position ==
  [k \in Kinds |->
     IF k = "ui"
     THEN [commandBuffers |-> 1, context |-> 2, fontImage |-> 3, fontImageView |-> 4,
           fontImageSampler |-> 5, vertexBuffer |-> 6, indexBuffer |-> 7,
           vertexShader |-> 8, fragmentShader |-> 9, setLayout |-> 10,
           pipelineLayout |-> 11, pipeline |-> 11]
     ELSE IF k = "indexed"
     THEN [modelBuffer |-> 1, materialBuffer |-> 2, vertexShader |-> 3,
           fragmentShader |-> 4, setLayout |-> 5, pipelineLayout |-> 6, pipeline |-> 6,
           indexBuffer |-> 7, vertexBuffer |-> 9]
     ELSE [modelBuffer |-> 1, materialBuffer |-> 2, vertexShader |-> 3,
           fragmentShader |-> 4, setLayout |-> 5, pipelineLayout |-> 6, pipeline |-> 6,
           vertexBuffer |-> 8]]

\* What the steps before s have made for the value.
Kept(k, s) == {n \in DOMAIN Position[k] : Position[k][n] < s}

Ops == {"new", "make", "check", "allocate", "submit", "wait"}
Calls == [op : Ops, name : Names \cup {"none"}, reads : SUBSET Names,
          old : Layouts, new : Layouts]

\* A submission is waited for, before anything else, and nothing else is.
Waits(st) ==
  /\ st.calls[1].op # "wait"
  /\ \A c \in 1..Len(st.calls) :
       st.calls[c].op = "submit" <=> c < Len(st.calls) /\ st.calls[c + 1].op = "wait"

\* An image is discarded only before anything is copied to it.
Discards(st) ==
  \A c \in 1..Len(st.calls) :
    /\ st.calls[c].op = "submit" =>
         {st.calls[c].name} \cup st.calls[c].reads \subseteq Made(st, c)
    /\ st.calls[c].op = "submit" /\ st.calls[c].reads = {}
         /\ st.calls[c].old = "undefined" => st.calls[c].name \notin Copied(st, c)

AllMade(st) == Made(st, Last(st))
AllCopied(st) == Copied(st, Last(st))

WellMade(st) ==
  /\ st.calls \in Seq(Calls) /\ st.calls # <<>>
  /\ st.keeps \subseteq Made(st, Last(st))
  /\ st.ignored \in BOOLEAN /\ (st.ignored => st.keeps = {})
  /\ Waits(st) /\ Discards(st)
  /\ \A c \in 1..Len(st.calls) : st.calls[c].op \in Making => st.calls[c].name \in Names
-----------------------------------------------------------------------------
(* The inductive invariant.                                                 *)

\* The layout of the image when step s of kind k has come to call c.
LayoutAt(k, s, c) ==
  IF k = "ui" /\ (s > 3 \/ (s = 3 /\ c > 11)) THEN "shaderReadOnly"
  ELSE IF k = "ui" /\ s = 3 /\ c > 5 THEN "transferDst"
  ELSE "undefined"

SetsAt(k) == IF k = "ui" THEN 10 ELSE 5

Kind == kind[item]
Running == busy /\ step <= Len(Steps)

\* Where the function is.
PlaceInv ==
  /\ start <= Len(held)
  /\ \A n \in DOMAIN held : held[n] <= item /\ kind[held[n]] \in Kinds
  /\ busy =>
       /\ next \in 1..Len(batch) /\ kind[item] = batch[next]
       /\ step \in 1..(Len(Steps) + 1)
       /\ call \in 1..(IF step <= Len(Steps) THEN Len(Current.calls) ELSE 1)
       /\ \A n \in DOMAIN held : held[n] # item
       /\ item + (Len(batch) - next) <= MaxItems

\* What exists: the held, what the finished steps keep, and what the calls of this
\* step have made.
ObjectInv ==
  /\ own = IF busy THEN {item} \X Kept(kind[item], step) ELSE {}
  /\ locals = IF Running THEN {item} \X Made(Current, call) ELSE {}
  /\ device = HeldObjects \cup own \cup locals

\* A submission of this step is in the queue, or its fence is signaled, just while
\* the function waits for it.
QueueInv ==
  FenceLost \/
  /\ misused = {}
  /\ IF At("wait")
     THEN \/ gpuQueue = <<>> /\ fence
          \/ /\ ~fence /\ Len(gpuQueue) = 1
             /\ LET before == Current.calls[call - 1] IN
                  /\ gpuQueue[1].target = Object(before.name)
                  /\ gpuQueue[1].reads = {Object(n) : n \in before.reads}
                  /\ gpuQueue[1].old = before.old /\ gpuQueue[1].fenced
     ELSE gpuQueue = <<>> /\ ~fence

\* What was copied to arrives.
FilledInv ==
  FenceLost \/
  /\ FilledWhenReturned
  /\ busy => {item} \X (Filled(kind[item]) \cap Kept(kind[item], step)) \subseteq written
  /\ Running =>
       \A n \in Copied(Current, call) :
         \/ Object(n) \in written
         \/ \E p \in DOMAIN gpuQueue : gpuQueue[p].target = Object(n)
                                    /\ gpuQueue[p].reads # {}

\* The layouts that the queue takes the images through, one item after the other.
ItemAt(p) == gpuQueue[p].target[1]
LayoutInv ==
  /\ \A i \in Items : i > item => layout[i] = "undefined"
  /\ \A p \in DOMAIN gpuQueue : ItemAt(p) <= item
  /\ \A p, q \in DOMAIN gpuQueue : p < q => ItemAt(p) <= ItemAt(q)
  /\ \A p \in DOMAIN gpuQueue :
       gpuQueue[p].old = IF p > 1 /\ ItemAt(p - 1) = ItemAt(p) THEN gpuQueue[p - 1].new
                         ELSE layout[ItemAt(p)]
  /\ busy => LayoutAt(kind[item], step, call) =
               IF gpuQueue # <<>> /\ ItemAt(Len(gpuQueue)) = item
               THEN gpuQueue[Len(gpuQueue)].new ELSE layout[item]

\* What the call has made of its argument.
MadeNo == Len(held) - start
BatchInv ==
  /\ \A n \in 1..MadeNo : kind[held[start + n]] = batch[n]
  /\ MadeNo <= Len(batch)
  /\ busy => MadeNo = next - 1
  /\ ~busy /\ result = "ok" => MadeNo = Len(batch)
  /\ ~busy /\ result = "error" => MadeNo < Len(batch)

SetsOfThis == IF busy /\ step > SetsAt(kind[item]) THEN 1 ELSE 0
SetsInv ==
  /\ Len(held) + SetsOfThis <= sets
  /\ sets <= Len(held) + Len(faulted) + SetsOfThis

\* What the invariant needs to know of step s of kind k.
StepFacts(k, s) ==
  LET st == Program[k][s]
      kept == DOMAIN Position[k]
  IN
  /\ WellMade(st)
  /\ st.keeps = {n \in kept : Position[k][n] = s}
  /\ (AllMade(st) \ st.keeps) \cap kept = {}
  /\ Filled(k) \cap st.keeps \subseteq AllCopied(st)
  /\ \A c \in 1..Len(st.calls) :
       st.calls[c].op = "allocate" <=> s = SetsAt(k) /\ c = Len(st.calls)
  /\ st.ignored => k # "ui" /\ s > SetsAt(k)
  /\ \A c \in 1..Len(st.calls) :
       IF st.calls[c].op = "submit"
       THEN st.calls[c].old = LayoutAt(k, s, c) /\ st.calls[c].new = LayoutAt(k, s, c + 1)
       ELSE LayoutAt(k, s, c + 1) = LayoutAt(k, s, c)
  /\ LayoutAt(k, s, Last(st)) = LayoutAt(k, s + 1, 1)

KindFacts(k) ==
  /\ Program[k] # <<>>
  /\ \A s \in 1..Len(Program[k]) : StepFacts(k, s)
  /\ \A n \in DOMAIN Position[k] : Position[k][n] \in Nat
  /\ Kept(k, 1) = {} /\ LayoutAt(k, 1, 1) = "undefined"
  /\ Kept(k, Len(Program[k]) + 1) = DOMAIN Position[k]
  /\ DOMAIN Position[k] = Members(k) \cup Shaders
  /\ Members(k) \cap Shaders = {}
  /\ Filled(k) \subseteq Members(k)
  /\ SetsAt(k) \in 1..Len(Program[k])
  /\ LayoutAt("ui", Len(Program["ui"]) + 1, 1) = "shaderReadOnly"

Inv ==
  /\ TypeOK /\ PlaceInv /\ ObjectInv /\ QueueInv
  /\ FilledInv /\ LayoutInv /\ BatchInv /\ SetsInv
-----------------------------------------------------------------------------
(* Sequences that are put together.                                         *)

LEMMA ConcatIs ==
  ASSUME NEW S, NEW s \in Seq(S), NEW t \in Seq(S), NEW u \in Seq(S),
         Len(u) = Len(s) + Len(t),
         \A i \in 1..Len(s) : u[i] = s[i],
         \A i \in 1..Len(t) : u[Len(s) + i] = t[i]
  PROVE  s \o t = u
<1>1. s \o t \in Seq(S) /\ Len(s \o t) = Len(u) /\ Len(s) \in Nat /\ Len(t) \in Nat
      BY ConcatProperties, LenProperties
<1>2. ASSUME NEW i \in 1..Len(u) PROVE (s \o t)[i] = u[i]
  <2>1. CASE i <= Len(s)
        BY <1>1, <2>1, ConcatProperties
  <2>2. CASE i > Len(s)
    <3>1. i - Len(s) \in 1..Len(t) /\ Len(s) + (i - Len(s)) = i
          BY <1>1, <2>2
    <3>2. (s \o t)[i] = t[i - Len(s)]
          BY <1>1, <2>2, ConcatProperties
    <3>3. QED
          BY <3>1, <3>2
  <2>3. QED
        BY <1>1, <2>1, <2>2
<1>3. QED
      BY <1>1, <1>2, SeqEqual

LEMMA Concat3And3 ==
  ASSUME NEW a1, NEW a2, NEW a3, NEW a4, NEW a5, NEW a6
  PROVE  <<a1, a2, a3>> \o <<a4, a5, a6>>
           = <<a1, a2, a3, a4, a5, a6>>
<1> DEFINE S == {a1, a2, a3, a4, a5, a6}
           s == <<a1, a2, a3>>
           t == <<a4, a5, a6>>
           u == <<a1, a2, a3, a4, a5, a6>>
<1>1. s \in Seq(S) /\ t \in Seq(S) /\ u \in Seq(S)
      OBVIOUS
<1>2. Len(s) = 3 /\ Len(t) = 3 /\ Len(u) = 6
      OBVIOUS
<1>3. /\ \A i \in 1..3 : u[i] = s[i]
      /\ \A i \in 1..3 : u[3 + i] = t[i]
      OBVIOUS
<1> HIDE DEF s, t, u, S
<1>4. /\ Len(u) = Len(s) + Len(t)
      /\ \A i \in 1..Len(s) : u[i] = s[i]
      /\ \A i \in 1..Len(t) : u[Len(s) + i] = t[i]
      BY <1>2, <1>3
<1>5. s \o t = u
      BY <1>1, <1>4, ConcatIs
<1>6. QED
      BY <1>5 DEF s, t, u

LEMMA Concat6And3 ==
  ASSUME NEW a1, NEW a2, NEW a3, NEW a4, NEW a5, NEW a6, NEW a7, NEW
         a8, NEW a9
  PROVE  <<a1, a2, a3, a4, a5, a6>> \o <<a7, a8, a9>>
           = <<a1, a2, a3, a4, a5, a6, a7, a8, a9>>
<1> DEFINE S == {a1, a2, a3, a4, a5, a6, a7, a8, a9}
           s == <<a1, a2, a3, a4, a5, a6>>
           t == <<a7, a8, a9>>
           u == <<a1, a2, a3, a4, a5, a6, a7, a8, a9>>
<1>1. s \in Seq(S) /\ t \in Seq(S) /\ u \in Seq(S)
      OBVIOUS
<1>2. Len(s) = 6 /\ Len(t) = 3 /\ Len(u) = 9
      OBVIOUS
<1>3. /\ \A i \in 1..6 : u[i] = s[i]
      /\ \A i \in 1..3 : u[6 + i] = t[i]
      OBVIOUS
<1> HIDE DEF s, t, u, S
<1>4. /\ Len(u) = Len(s) + Len(t)
      /\ \A i \in 1..Len(s) : u[i] = s[i]
      /\ \A i \in 1..Len(t) : u[Len(s) + i] = t[i]
      BY <1>2, <1>3
<1>5. s \o t = u
      BY <1>1, <1>4, ConcatIs
<1>6. QED
      BY <1>5 DEF s, t, u

LEMMA Concat9And3 ==
  ASSUME NEW a1, NEW a2, NEW a3, NEW a4, NEW a5, NEW a6, NEW a7, NEW
         a8, NEW a9, NEW a10, NEW a11, NEW a12
  PROVE  <<a1, a2, a3, a4, a5, a6, a7, a8, a9>> \o <<a10, a11, a12>>
           = <<a1, a2, a3, a4, a5, a6, a7, a8, a9, a10, a11, a12>>
<1> DEFINE S == {a1, a2, a3, a4, a5, a6, a7, a8, a9, a10, a11, a12}
           s == <<a1, a2, a3, a4, a5, a6, a7, a8, a9>>
           t == <<a10, a11, a12>>
           u == <<a1, a2, a3, a4, a5, a6, a7, a8, a9, a10, a11, a12>>
<1>1. s \in Seq(S) /\ t \in Seq(S) /\ u \in Seq(S)
      OBVIOUS
<1>2. Len(s) = 9 /\ Len(t) = 3 /\ Len(u) = 12
      OBVIOUS
<1>3. /\ \A i \in 1..9 : u[i] = s[i]
      /\ \A i \in 1..3 : u[9 + i] = t[i]
      OBVIOUS
<1> HIDE DEF s, t, u, S
<1>4. /\ Len(u) = Len(s) + Len(t)
      /\ \A i \in 1..Len(s) : u[i] = s[i]
      /\ \A i \in 1..Len(t) : u[Len(s) + i] = t[i]
      BY <1>2, <1>3
<1>5. s \o t = u
      BY <1>1, <1>4, ConcatIs
<1>6. QED
      BY <1>5 DEF s, t, u

LEMMA Concat2And3 ==
  ASSUME NEW a1, NEW a2, NEW a3, NEW a4, NEW a5
  PROVE  <<a1, a2>> \o <<a3, a4, a5>>
           = <<a1, a2, a3, a4, a5>>
<1> DEFINE S == {a1, a2, a3, a4, a5}
           s == <<a1, a2>>
           t == <<a3, a4, a5>>
           u == <<a1, a2, a3, a4, a5>>
<1>1. s \in Seq(S) /\ t \in Seq(S) /\ u \in Seq(S)
      OBVIOUS
<1>2. Len(s) = 2 /\ Len(t) = 3 /\ Len(u) = 5
      OBVIOUS
<1>3. /\ \A i \in 1..2 : u[i] = s[i]
      /\ \A i \in 1..3 : u[2 + i] = t[i]
      OBVIOUS
<1> HIDE DEF s, t, u, S
<1>4. /\ Len(u) = Len(s) + Len(t)
      /\ \A i \in 1..Len(s) : u[i] = s[i]
      /\ \A i \in 1..Len(t) : u[Len(s) + i] = t[i]
      BY <1>2, <1>3
<1>5. s \o t = u
      BY <1>1, <1>4, ConcatIs
<1>6. QED
      BY <1>5 DEF s, t, u

LEMMA Concat5And6 ==
  ASSUME NEW a1, NEW a2, NEW a3, NEW a4, NEW a5, NEW a6, NEW a7, NEW
         a8, NEW a9, NEW a10, NEW a11
  PROVE  <<a1, a2, a3, a4, a5>> \o <<a6, a7, a8, a9, a10, a11>>
           = <<a1, a2, a3, a4, a5, a6, a7, a8, a9, a10, a11>>
<1> DEFINE S == {a1, a2, a3, a4, a5, a6, a7, a8, a9, a10, a11}
           s == <<a1, a2, a3, a4, a5>>
           t == <<a6, a7, a8, a9, a10, a11>>
           u == <<a1, a2, a3, a4, a5, a6, a7, a8, a9, a10, a11>>
<1>1. s \in Seq(S) /\ t \in Seq(S) /\ u \in Seq(S)
      OBVIOUS
<1>2. Len(s) = 5 /\ Len(t) = 6 /\ Len(u) = 11
      OBVIOUS
<1>3. /\ \A i \in 1..5 : u[i] = s[i]
      /\ \A i \in 1..6 : u[5 + i] = t[i]
      OBVIOUS
<1> HIDE DEF s, t, u, S
<1>4. /\ Len(u) = Len(s) + Len(t)
      /\ \A i \in 1..Len(s) : u[i] = s[i]
      /\ \A i \in 1..Len(t) : u[Len(s) + i] = t[i]
      BY <1>2, <1>3
<1>5. s \o t = u
      BY <1>1, <1>4, ConcatIs
<1>6. QED
      BY <1>5 DEF s, t, u

LEMMA Concat6And1 ==
  ASSUME NEW a1, NEW a2, NEW a3, NEW a4, NEW a5, NEW a6, NEW a7
  PROVE  <<a1, a2, a3, a4, a5, a6>> \o <<a7>>
           = <<a1, a2, a3, a4, a5, a6, a7>>
<1> DEFINE S == {a1, a2, a3, a4, a5, a6, a7}
           s == <<a1, a2, a3, a4, a5, a6>>
           t == <<a7>>
           u == <<a1, a2, a3, a4, a5, a6, a7>>
<1>1. s \in Seq(S) /\ t \in Seq(S) /\ u \in Seq(S)
      OBVIOUS
<1>2. Len(s) = 6 /\ Len(t) = 1 /\ Len(u) = 7
      OBVIOUS
<1>3. /\ \A i \in 1..6 : u[i] = s[i]
      /\ \A i \in 1..1 : u[6 + i] = t[i]
      OBVIOUS
<1> HIDE DEF s, t, u, S
<1>4. /\ Len(u) = Len(s) + Len(t)
      /\ \A i \in 1..Len(s) : u[i] = s[i]
      /\ \A i \in 1..Len(t) : u[Len(s) + i] = t[i]
      BY <1>2, <1>3
<1>5. s \o t = u
      BY <1>1, <1>4, ConcatIs
<1>6. QED
      BY <1>5 DEF s, t, u

LEMMA Concat7And2 ==
  ASSUME NEW a1, NEW a2, NEW a3, NEW a4, NEW a5, NEW a6, NEW a7, NEW
         a8, NEW a9
  PROVE  <<a1, a2, a3, a4, a5, a6, a7>> \o <<a8, a9>>
           = <<a1, a2, a3, a4, a5, a6, a7, a8, a9>>
<1> DEFINE S == {a1, a2, a3, a4, a5, a6, a7, a8, a9}
           s == <<a1, a2, a3, a4, a5, a6, a7>>
           t == <<a8, a9>>
           u == <<a1, a2, a3, a4, a5, a6, a7, a8, a9>>
<1>1. s \in Seq(S) /\ t \in Seq(S) /\ u \in Seq(S)
      OBVIOUS
<1>2. Len(s) = 7 /\ Len(t) = 2 /\ Len(u) = 9
      OBVIOUS
<1>3. /\ \A i \in 1..7 : u[i] = s[i]
      /\ \A i \in 1..2 : u[7 + i] = t[i]
      OBVIOUS
<1> HIDE DEF s, t, u, S
<1>4. /\ Len(u) = Len(s) + Len(t)
      /\ \A i \in 1..Len(s) : u[i] = s[i]
      /\ \A i \in 1..Len(t) : u[Len(s) + i] = t[i]
      BY <1>2, <1>3
<1>5. s \o t = u
      BY <1>1, <1>4, ConcatIs
<1>6. QED
      BY <1>5 DEF s, t, u

LEMMA Concat6And2 ==
  ASSUME NEW a1, NEW a2, NEW a3, NEW a4, NEW a5, NEW a6, NEW a7, NEW
         a8
  PROVE  <<a1, a2, a3, a4, a5, a6>> \o <<a7, a8>>
           = <<a1, a2, a3, a4, a5, a6, a7, a8>>
<1> DEFINE S == {a1, a2, a3, a4, a5, a6, a7, a8}
           s == <<a1, a2, a3, a4, a5, a6>>
           t == <<a7, a8>>
           u == <<a1, a2, a3, a4, a5, a6, a7, a8>>
<1>1. s \in Seq(S) /\ t \in Seq(S) /\ u \in Seq(S)
      OBVIOUS
<1>2. Len(s) = 6 /\ Len(t) = 2 /\ Len(u) = 8
      OBVIOUS
<1>3. /\ \A i \in 1..6 : u[i] = s[i]
      /\ \A i \in 1..2 : u[6 + i] = t[i]
      OBVIOUS
<1> HIDE DEF s, t, u, S
<1>4. /\ Len(u) = Len(s) + Len(t)
      /\ \A i \in 1..Len(s) : u[i] = s[i]
      /\ \A i \in 1..Len(t) : u[Len(s) + i] = t[i]
      BY <1>2, <1>3
<1>5. s \o t = u
      BY <1>1, <1>4, ConcatIs
<1>6. QED
      BY <1>5 DEF s, t, u

-----------------------------------------------------------------------------
LEMMA BufferUploadCalls ==
  ASSUME NEW n
  PROVE  BufferUpload(n) =
           <<Make("staging"), Check, Make(n), Check,
             Call("submit", n, {"staging"}, "undefined", "undefined"),
             Plain("wait", "none")>>
BY Concat3And3 DEF BufferUpload, Staging, OneTime

LEMMA ImageUploadCalls ==
  ASSUME NEW n
  PROVE  ImageUpload(n) =
           <<Make("staging"), Check, Make(n),
             Check, Call("submit", n, {}, "undefined", "transferDst"), Plain("wait", "none"),
             Check, Call("submit", n, {"staging"}, "transferDst", "transferDst"),
             Plain("wait", "none"),
             Check, Call("submit", n, {}, "transferDst", "shaderReadOnly"),
             Plain("wait", "none")>>
<1> DEFINE one == <<Make("staging"), Check, Make(n)>>
           two == <<Check, Call("submit", n, {}, "undefined", "transferDst"),
                    Plain("wait", "none")>>
           three == <<Check, Call("submit", n, {"staging"}, "transferDst", "transferDst"),
                      Plain("wait", "none")>>
           four == <<Check, Call("submit", n, {}, "transferDst", "shaderReadOnly"),
                     Plain("wait", "none")>>
           a == Make("staging")
           b == Make(n)
           d == Call("submit", n, {}, "undefined", "transferDst")
           e == Call("submit", n, {"staging"}, "transferDst", "transferDst")
           f == Call("submit", n, {}, "transferDst", "shaderReadOnly")
           w == Plain("wait", "none")
<1>1. ImageUpload(n) = ((one \o two) \o three) \o four
      BY DEF ImageUpload, Staging, OneTime, Transition
<1>2. one = <<a, Check, b>> /\ two = <<Check, d, w>> /\ three = <<Check, e, w>>
        /\ four = <<Check, f, w>>
      OBVIOUS
<1>3. <<a, Check, b>> \o <<Check, d, w>> = <<a, Check, b, Check, d, w>>
      BY Concat3And3
<1>4. <<a, Check, b, Check, d, w>> \o <<Check, e, w>>
        = <<a, Check, b, Check, d, w, Check, e, w>>
      BY Concat6And3
<1>5. <<a, Check, b, Check, d, w, Check, e, w>> \o <<Check, f, w>>
        = <<a, Check, b, Check, d, w, Check, e, w, Check, f, w>>
      BY Concat9And3
<1> HIDE DEF one, two, three, four, a, b, d, e, f, w
<1>6. ImageUpload(n) = <<a, Check, b, Check, d, w, Check, e, w, Check, f, w>>
      BY <1>1, <1>2, <1>3, <1>4, <1>5
<1>7. QED
      BY <1>6 DEF a, b, d, e, f, w

LEMMA Programs ==
  /\ Program["ui"] =
       <<CommandBuffersStep, ContextStep,
         Step({"fontImage"}, ImageUpload("fontImage")),
         Step({"fontImageView"}, <<Make("fontImageView")>>),
         Step({"fontImageSampler"}, <<Make("fontImageSampler")>>),
         BufferStep("vertexBuffer"), BufferStep("indexBuffer"),
         ShaderStep("vertexShader"), ShaderStep("fragmentShader"),
         SetsStep, PipelineStep>>
  /\ Program["indexed"] =
       <<UniformStep("modelBuffer"), UniformStep("materialBuffer"),
         ShaderStep("vertexShader"), ShaderStep("fragmentShader"),
         SetsStep, PipelineStep,
         Step({"indexBuffer"}, BufferUpload("indexBuffer")),
         Ignored(BufferUpload("packedVertices")), VertexStep>>
  /\ Program["plain"] =
       <<UniformStep("modelBuffer"), UniformStep("materialBuffer"),
         ShaderStep("vertexShader"), ShaderStep("fragmentShader"),
         SetsStep, PipelineStep,
         Ignored(BufferUpload("packedVertices")), VertexStep>>
<1>1. Program["ui"] = UICreate
      BY DEF Program, Kinds
<1>2. Program["indexed"] = MeshCreate("indexed") /\ Program["plain"] = MeshCreate("plain")
      BY DEF Program, Kinds, MeshKinds
<1>3. UICreate = <<CommandBuffersStep, ContextStep>> \o FontSteps \o
        <<BufferStep("vertexBuffer"), BufferStep("indexBuffer"),
          ShaderStep("vertexShader"), ShaderStep("fragmentShader"),
          SetsStep, PipelineStep>>
      BY DEF UICreate
<1>4. Program["ui"] =
       <<CommandBuffersStep, ContextStep,
         Step({"fontImage"}, ImageUpload("fontImage")),
         Step({"fontImageView"}, <<Make("fontImageView")>>),
         Step({"fontImageSampler"}, <<Make("fontImageSampler")>>),
         BufferStep("vertexBuffer"), BufferStep("indexBuffer"),
         ShaderStep("vertexShader"), ShaderStep("fragmentShader"),
         SetsStep, PipelineStep>>
  <2>1. <<CommandBuffersStep, ContextStep>> \o FontSteps =
         <<CommandBuffersStep, ContextStep,
           Step({"fontImage"}, ImageUpload("fontImage")),
           Step({"fontImageView"}, <<Make("fontImageView")>>),
           Step({"fontImageSampler"}, <<Make("fontImageSampler")>>)>>
        BY Concat2And3 DEF FontSteps
  <2>2. <<CommandBuffersStep, ContextStep,
          Step({"fontImage"}, ImageUpload("fontImage")),
          Step({"fontImageView"}, <<Make("fontImageView")>>),
          Step({"fontImageSampler"}, <<Make("fontImageSampler")>>)>> \o
        <<BufferStep("vertexBuffer"), BufferStep("indexBuffer"),
          ShaderStep("vertexShader"), ShaderStep("fragmentShader"),
          SetsStep, PipelineStep>> =
        <<CommandBuffersStep, ContextStep,
          Step({"fontImage"}, ImageUpload("fontImage")),
          Step({"fontImageView"}, <<Make("fontImageView")>>),
          Step({"fontImageSampler"}, <<Make("fontImageSampler")>>),
          BufferStep("vertexBuffer"), BufferStep("indexBuffer"),
          ShaderStep("vertexShader"), ShaderStep("fragmentShader"),
          SetsStep, PipelineStep>>
        BY Concat5And6
  <2>3. QED
        BY <1>1, <1>3, <2>1, <2>2
<1>5. MeshCreate("indexed") =
       <<UniformStep("modelBuffer"), UniformStep("materialBuffer"),
         ShaderStep("vertexShader"), ShaderStep("fragmentShader"),
         SetsStep, PipelineStep,
         Step({"indexBuffer"}, BufferUpload("indexBuffer")),
         Ignored(BufferUpload("packedVertices")), VertexStep>>
  <2> DEFINE s == <<UniformStep("modelBuffer"), UniformStep("materialBuffer"),
                    ShaderStep("vertexShader"), ShaderStep("fragmentShader"),
                    SetsStep, PipelineStep>>
             t == <<Step({"indexBuffer"}, BufferUpload("indexBuffer"))>>
             u == <<Ignored(BufferUpload("packedVertices")), VertexStep>>
  <2>1. MeshCreate("indexed") = (s \o t) \o u
        BY DEF MeshCreate
  <2>2. s \o t =
         <<UniformStep("modelBuffer"), UniformStep("materialBuffer"),
           ShaderStep("vertexShader"), ShaderStep("fragmentShader"),
           SetsStep, PipelineStep,
           Step({"indexBuffer"}, BufferUpload("indexBuffer"))>>
        BY Concat6And1
  <2>3. QED
        BY <2>1, <2>2, Concat7And2
<1>6. MeshCreate("plain") =
       <<UniformStep("modelBuffer"), UniformStep("materialBuffer"),
         ShaderStep("vertexShader"), ShaderStep("fragmentShader"),
         SetsStep, PipelineStep,
         Ignored(BufferUpload("packedVertices")), VertexStep>>
  <2> DEFINE s == <<UniformStep("modelBuffer"), UniformStep("materialBuffer"),
                    ShaderStep("vertexShader"), ShaderStep("fragmentShader"),
                    SetsStep, PipelineStep>>
             S == {s[i] : i \in 1..6}
  <2>1. s \in Seq(S)
        OBVIOUS
  <2> HIDE DEF S
  <2>2. s \o <<>> = s
        BY <2>1, ConcatEmptySeq
  <2>3. QED
        BY <2>2, Concat6And2 DEF MeshCreate
<1>7. QED
      BY <1>2, <1>4, <1>5, <1>6
-----------------------------------------------------------------------------
(* What is true of each step.                                              *)
\* A step that submits only copies to buffers, if anything, and allocates no sets.
Simple(st, keeps, made, copied) ==
  /\ WellMade(st)
  /\ st.keeps = keeps /\ AllMade(st) = made /\ AllCopied(st) = copied
  /\ \A c \in 1..Len(st.calls) :
       /\ st.calls[c].op # "allocate"
       /\ st.calls[c].op = "submit" =>
            copied # {} /\ st.calls[c].old = "undefined" /\ st.calls[c].new = "undefined"

LEMMA OneCall ==
  ASSUME NEW k, NEW n \in Names, NEW op \in Making
  PROVE  LET st == Step({n}, <<Plain(op, n)>>)
         IN Simple(st, {n}, {n}, {})
<1> DEFINE st == Step({n}, <<Plain(op, n)>>)
<1>1. /\ Len(st.calls) = 1 /\ st.calls[1] = Plain(op, n) /\ Last(st) = 2
      /\ st.calls \in Seq(Calls) /\ st.calls # <<>>
      /\ st.keeps = {n} /\ st.ignored = FALSE
      BY DEF Step, Plain, Call, Calls, Last, Making, Ops, Layouts
<1> HIDE DEF st
<1>2. \A c \in 1..Len(st.calls) : c = 1 /\ st.calls[c].op = op /\ st.calls[c].name = n
      BY <1>1 DEF Plain, Call
<1>3. AllMade(st) = {n} /\ AllCopied(st) = {}
      BY <1>1, <1>2 DEF AllMade, AllCopied, Made, Copied, Making
<1>4. Waits(st) /\ Discards(st)
      BY <1>1, <1>2 DEF Waits, Discards, Making
<1>5. WellMade(st)
      BY <1>1, <1>2, <1>3, <1>4 DEF WellMade, AllMade
<1>6. Simple(st, {n}, {n}, {})
      BY <1>1, <1>2, <1>3, <1>5 DEF Simple, Making
<1>7. QED
      BY <1>6 DEF st

LEMMA BufferUploadWellMade ==
  ASSUME NEW n \in Names, NEW K \in SUBSET {n}, NEW ignored \in BOOLEAN, ignored => K = {}
  PROVE  LET st == [keeps |-> K, calls |-> BufferUpload(n), ignored |-> ignored]
         IN Simple(st, K, {"staging", n}, {n})
<1> DEFINE st == [keeps |-> K, calls |-> BufferUpload(n), ignored |-> ignored]
<1>1. /\ Len(st.calls) = 6 /\ Last(st) = 7
      /\ st.calls[1] = Make("staging") /\ st.calls[2] = Check /\ st.calls[3] = Make(n)
      /\ st.calls[4] = Check
      /\ st.calls[5] = Call("submit", n, {"staging"}, "undefined", "undefined")
      /\ st.calls[6] = Plain("wait", "none")
      /\ st.keeps = K /\ st.ignored = ignored
      /\ st.calls \in Seq(Calls) /\ st.calls # <<>>
  <2> DEFINE a == Make("staging")
             b == Make(n)
             d == Call("submit", n, {"staging"}, "undefined", "undefined")
             w == Plain("wait", "none")
             calls == <<a, Check, b, Check, d, w>>
  <2>1. a \in Calls /\ Check \in Calls /\ b \in Calls /\ d \in Calls /\ w \in Calls
        BY DEF Calls, Make, Check, Plain, Call, Ops, Layouts, Names
  <2>2. st.calls = calls
        BY BufferUploadCalls
  <2> HIDE DEF a, b, d, w
  <2>3. /\ Len(calls) = 6 /\ calls[1] = a /\ calls[2] = Check /\ calls[3] = b
        /\ calls[4] = Check /\ calls[5] = d /\ calls[6] = w
        /\ calls \in Seq(Calls) /\ calls # <<>>
        BY <2>1
  <2> HIDE DEF calls
  <2>4. st.keeps = K /\ st.ignored = ignored
        OBVIOUS
  <2> HIDE DEF st
  <2>5. QED
        BY <2>2, <2>3, <2>4 DEF Last, a, b, d, w
<1> HIDE DEF st
<1>2. /\ st.calls[1].op = "make" /\ st.calls[1].name = "staging"
      /\ st.calls[2].op = "check" /\ st.calls[3].op = "make" /\ st.calls[3].name = n
      /\ st.calls[4].op = "check"
      /\ st.calls[5].op = "submit" /\ st.calls[5].name = n /\ st.calls[5].reads = {"staging"}
      /\ st.calls[6].op = "wait"
      BY <1>1 DEF Make, Check, Plain, Call
<1>3. AllMade(st) = {"staging", n}
  <2>1. {j \in 1..(7 - 1) : st.calls[j].op \in Making} = {1, 3}
        BY <1>2 DEF Making
  <2>2. AllMade(st) = {st.calls[i].name : i \in {1, 3}}
        BY <1>1, <2>1 DEF AllMade, Made
  <2>3. QED
        BY <1>2, <2>2
<1>4. AllCopied(st) = {n}
  <2>1. {j \in 1..(7 - 1) : st.calls[j].op = "submit" /\ st.calls[j].reads # {}} = {5}
        BY <1>2
  <2>2. AllCopied(st) = {st.calls[i].name : i \in {5}}
        BY <1>1, <2>1 DEF AllCopied, Copied
  <2>3. QED
        BY <1>2, <2>2
<1>5. Waits(st)
      BY <1>1, <1>2 DEF Waits
<1>6. Discards(st)
  <2>1. \A c \in 1..Len(st.calls) : st.calls[c].op = "submit" => c = 5
    <3>1. Len(st.calls) = 6
          BY <1>1
    <3>2. \A c \in 1..6 : c = 1 \/ c = 2 \/ c = 3 \/ c = 4 \/ c = 5 \/ c = 6
          OBVIOUS
    <3>3. QED
          BY <1>2, <3>1, <3>2
  <2>2. "staging" \in Made(st, 5) /\ n \in Made(st, 5)
    <3>1. 1 \in {x \in 1..(5 - 1) : st.calls[x].op \in Making}
            /\ 3 \in {x \in 1..(5 - 1) : st.calls[x].op \in Making}
          BY <1>2 DEF Making
    <3>2. QED
          BY <1>2, <3>1 DEF Made
  <2>3. QED
        BY <1>2, <2>1, <2>2 DEF Discards
<1>7. \A c \in 1..Len(st.calls) : st.calls[c].op \in Making => st.calls[c].name \in Names
      BY <1>1, <1>2 DEF Making, Names
<1>8. WellMade(st)
      BY <1>1, <1>3, <1>5, <1>6, <1>7 DEF WellMade, AllMade
<1>9. \A c \in 1..Len(st.calls) :
        /\ st.calls[c].op # "allocate"
        /\ st.calls[c].op = "submit" => c = 5
  <2>1. Len(st.calls) = 6
        BY <1>1
  <2>2. \A c \in 1..6 : c = 1 \/ c = 2 \/ c = 3 \/ c = 4 \/ c = 5 \/ c = 6
        OBVIOUS
  <2>3. QED
        BY <1>2, <2>1, <2>2
<1>10. st.calls[5].old = "undefined" /\ st.calls[5].new = "undefined"
      BY <1>1 DEF Call
<1>11. Simple(st, K, {"staging", n}, {n})
      BY <1>1, <1>3, <1>4, <1>8, <1>9, <1>10 DEF Simple
<1>12. QED
      BY <1>11 DEF st

\* The step that uploads an image.
ImageMade(st, n) ==
  /\ WellMade(st) /\ st.keeps = {n} /\ ~st.ignored
  /\ AllMade(st) = {"staging", n} /\ AllCopied(st) = {n}
  /\ Len(st.calls) = 12
  /\ \A c \in 1..12 : /\ st.calls[c].op # "allocate"
                      /\ st.calls[c].op = "submit" <=> c \in {5, 8, 11}
  /\ st.calls[5].old = "undefined" /\ st.calls[5].new = "transferDst"
  /\ st.calls[8].old = "transferDst" /\ st.calls[8].new = "transferDst"
  /\ st.calls[11].old = "transferDst" /\ st.calls[11].new = "shaderReadOnly"

LEMMA ImageUploadWellMade ==
  ASSUME NEW n \in Names
  PROVE  ImageMade(Step({n}, ImageUpload(n)), n)
<1> DEFINE st == Step({n}, ImageUpload(n))
<1>1. /\ Len(st.calls) = 12 /\ Last(st) = 13
      /\ st.calls[1] = Make("staging") /\ st.calls[2] = Check /\ st.calls[3] = Make(n)
      /\ st.calls[4] = Check
      /\ st.calls[5] = Call("submit", n, {}, "undefined", "transferDst")
      /\ st.calls[6] = Plain("wait", "none")
      /\ st.calls[7] = Check
      /\ st.calls[8] = Call("submit", n, {"staging"}, "transferDst", "transferDst")
      /\ st.calls[9] = Plain("wait", "none")
      /\ st.calls[10] = Check
      /\ st.calls[11] = Call("submit", n, {}, "transferDst", "shaderReadOnly")
      /\ st.calls[12] = Plain("wait", "none")
      /\ st.keeps = {n} /\ st.ignored = FALSE
      /\ st.calls \in Seq(Calls) /\ st.calls # <<>>
  <2> DEFINE a == Make("staging")
             b == Make(n)
             d == Call("submit", n, {}, "undefined", "transferDst")
             e == Call("submit", n, {"staging"}, "transferDst", "transferDst")
             f == Call("submit", n, {}, "transferDst", "shaderReadOnly")
             w == Plain("wait", "none")
             calls == <<a, Check, b, Check, d, w, Check, e, w, Check, f, w>>
  <2>1. /\ a \in Calls /\ Check \in Calls /\ b \in Calls /\ d \in Calls /\ w \in Calls
        /\ e \in Calls /\ f \in Calls
        BY DEF Calls, Make, Check, Plain, Call, Ops, Layouts, Names
  <2>2. st.calls = calls
        BY ImageUploadCalls DEF Step
  <2> HIDE DEF a, b, d, e, f, w
  <2>3. /\ Len(calls) = 12 /\ calls[1] = a /\ calls[2] = Check /\ calls[3] = b
        /\ calls[4] = Check /\ calls[5] = d /\ calls[6] = w
        /\ calls[7] = Check /\ calls[8] = e /\ calls[9] = w
        /\ calls[10] = Check /\ calls[11] = f /\ calls[12] = w
        /\ calls \in Seq(Calls) /\ calls # <<>>
        BY <2>1
  <2> HIDE DEF calls
  <2>4. st.keeps = {n} /\ st.ignored = FALSE
        BY DEF Step
  <2> HIDE DEF st
  <2>5. QED
        BY <2>2, <2>3, <2>4 DEF Last, a, b, d, e, f, w
<1> HIDE DEF st
<1>a. Len(st.calls) = 12 /\ Last(st) = 13
      BY <1>1
<1>b. /\ st.calls[1].op = "make" /\ st.calls[2].op = "check" /\ st.calls[3].op = "make"
      /\ st.calls[4].op = "check" /\ st.calls[5].op = "submit" /\ st.calls[6].op = "wait"
      /\ st.calls[7].op = "check" /\ st.calls[8].op = "submit" /\ st.calls[9].op = "wait"
      /\ st.calls[10].op = "check" /\ st.calls[11].op = "submit" /\ st.calls[12].op = "wait"
      BY <1>1 DEF Make, Check, Plain, Call
<1>c. st.calls[1].name = "staging" /\ st.calls[3].name = n
      BY <1>1 DEF Make, Check, Plain, Call
<1>d. /\ st.calls[5].name = n /\ st.calls[5].reads = {}
      /\ st.calls[8].name = n /\ st.calls[8].reads = {"staging"}
      /\ st.calls[11].name = n /\ st.calls[11].reads = {} /\ st.calls[11].old = "transferDst"
      BY <1>1 DEF Call
<1>e. \A c \in 1..12 : /\ st.calls[c].op = "submit" <=> c \in {5, 8, 11}
                       /\ st.calls[c].op = "wait" <=> c \in {6, 9, 12}
                       /\ st.calls[c].op \in Making <=> c \in {1, 3}
                       /\ st.calls[c].op # "allocate"
      BY <1>b DEF Making
<1>3. AllMade(st) = {"staging", n}
  <2>1. {j \in 1..(13 - 1) : st.calls[j].op \in Making} = {1, 3}
        BY <1>e
  <2>2. AllMade(st) = {st.calls[i].name : i \in {1, 3}}
        BY <1>a, <2>1 DEF AllMade, Made
  <2>3. QED
        BY <1>c, <2>2
<1>4. AllCopied(st) = {n}
  <2>1. {j \in 1..(13 - 1) : st.calls[j].op = "submit" /\ st.calls[j].reads # {}} = {8}
        BY <1>d, <1>e
  <2>2. AllCopied(st) = {st.calls[i].name : i \in {8}}
        BY <1>a, <2>1 DEF AllCopied, Copied
  <2>3. QED
        BY <1>d, <2>2
<1>5. Waits(st)
  <2>1. st.calls[1].op # "wait"
        BY <1>b
  <2>2. \A c \in 1..12 : st.calls[c].op = "submit" <=> c < 12 /\ st.calls[c + 1].op = "wait"
    <3>1. \A c \in 1..12 : c < 12 => c + 1 \in 1..12
          OBVIOUS
    <3>2. \A c \in 1..12 : c \in {5, 8, 11} <=> c < 12 /\ c + 1 \in {6, 9, 12}
          OBVIOUS
    <3>3. QED
          BY <1>e, <3>1, <3>2
  <2>3. QED
        BY <1>a, <2>1, <2>2 DEF Waits
<1>6. Discards(st)
  <2>1. {j \in 1..(5 - 1) : st.calls[j].op = "submit" /\ st.calls[j].reads # {}} = {}
        BY <1>e
  <2>2. Copied(st, 5) = {}
        BY <2>1 DEF Copied
  <2>3. \A d \in {5, 8, 11} : "staging" \in Made(st, d) /\ n \in Made(st, d)
    <3>1. TAKE d \in {5, 8, 11}
    <3>2. 1 \in {x \in 1..(d - 1) : st.calls[x].op \in Making}
            /\ 3 \in {x \in 1..(d - 1) : st.calls[x].op \in Making}
          BY <1>e
    <3>3. QED
          BY <1>c, <3>2 DEF Made
  <2>4. QED
        BY <1>a, <1>d, <1>e, <2>2, <2>3 DEF Discards
<1>7. \A c \in 1..Len(st.calls) : st.calls[c].op \in Making => st.calls[c].name \in Names
      BY <1>a, <1>c, <1>e DEF Names
<1>f. st.calls \in Seq(Calls) /\ st.calls # <<>> /\ st.keeps = {n} /\ st.ignored = FALSE
      BY <1>1
<1>8. WellMade(st)
      BY <1>f, <1>3, <1>5, <1>6, <1>7 DEF WellMade, AllMade
<1>g. /\ st.calls[5].old = "undefined" /\ st.calls[5].new = "transferDst"
      /\ st.calls[8].old = "transferDst" /\ st.calls[8].new = "transferDst"
      /\ st.calls[11].old = "transferDst" /\ st.calls[11].new = "shaderReadOnly"
      BY <1>1 DEF Call
<1>h. \A c \in 1..12 : /\ st.calls[c].op # "allocate"
                       /\ st.calls[c].op = "submit" <=> c \in {5, 8, 11}
      BY <1>e
<1>9. ImageMade(st, n)
      BY <1>a, <1>3, <1>4, <1>8, <1>f, <1>g, <1>h DEF ImageMade
<1>10. QED
      BY <1>9 DEF st

LEMMA TwoCalls ==
  ASSUME NEW st, NEW a \in Calls, NEW b \in Calls, NEW K \in SUBSET Names,
         st = Step(K, <<a, b>>),
         a.op \in {"new", "make", "check"}, b.op \in {"make", "check", "allocate"},
         a.op \in Making => a.name \in K,
         b.op \in Making => b.name \in K,
         \A n \in K : (a.op \in Making /\ a.name = n) \/ (b.op \in Making /\ b.name = n)
  PROVE  /\ WellMade(st) /\ st.keeps = K /\ AllMade(st) = K /\ AllCopied(st) = {}
         /\ Len(st.calls) = 2 /\ st.calls[1] = a /\ st.calls[2] = b /\ ~st.ignored
         /\ b.op # "allocate" => Simple(st, K, K, {})
<1>1. /\ Len(st.calls) = 2 /\ Last(st) = 3
      /\ st.calls[1] = a /\ st.calls[2] = b
      /\ st.calls \in Seq(Calls) /\ st.calls # <<>>
      /\ st.keeps = K /\ st.ignored = FALSE
      BY DEF Step, Last
<1>2. \A n : n \in AllMade(st) <=>
          (a.op \in Making /\ a.name = n) \/ (b.op \in Making /\ b.name = n)
  <2>1. \A j \in 1..(3 - 1) : j = 1 \/ j = 2
        OBVIOUS
  <2>2. QED
        BY <1>1, <2>1 DEF AllMade, Made
<1>3. AllMade(st) = K
      BY <1>2
<1>4. AllCopied(st) = {}
      BY <1>1 DEF AllCopied, Copied
<1>5. Waits(st) /\ Discards(st)
  <2>1. \A c \in 1..Len(st.calls) :
          st.calls[c].op # "submit" /\ ~(c < Len(st.calls) /\ st.calls[c + 1].op = "wait")
        BY <1>1
  <2>2. QED
        BY <1>1, <2>1 DEF Waits, Discards
<1>6. \A c \in 1..Len(st.calls) : st.calls[c].op \in Making => st.calls[c].name \in Names
      BY <1>1
<1>7. WellMade(st)
      BY <1>1, <1>3, <1>5, <1>6 DEF WellMade, AllMade
<1>8. b.op # "allocate" => Simple(st, K, K, {})
      BY <1>1, <1>3, <1>4, <1>7 DEF Simple
<1>9. QED
      BY <1>1, <1>3, <1>4, <1>7, <1>8

SimpleAt(k, s, keeps, made, copied) ==
  /\ Simple(Program[k][s], keeps, made, copied)
  /\ keeps = {n \in DOMAIN Position[k] : Position[k][n] = s}
  /\ (made \ keeps) \cap DOMAIN Position[k] = {}
  /\ Filled(k) \cap keeps \subseteq copied
  /\ s # SetsAt(k)
  /\ k = "ui" => s # 3 /\ copied = {} /\ ~Program[k][s].ignored
  /\ Program[k][s].ignored => s > SetsAt(k)

LEMMA SimpleFacts ==
  ASSUME NEW k \in Kinds, NEW s \in Nat, NEW keeps, NEW made, NEW copied,
         SimpleAt(k, s, keeps, made, copied)
  PROVE  StepFacts(k, s)
<1> DEFINE st == Program[k][s]
<1> HIDE DEF st
<1>1. /\ WellMade(st) /\ st.keeps = keeps /\ AllMade(st) = made /\ AllCopied(st) = copied
      /\ \A c \in 1..Len(st.calls) :
           /\ st.calls[c].op # "allocate"
           /\ st.calls[c].op = "submit" =>
                copied # {} /\ st.calls[c].old = "undefined" /\ st.calls[c].new = "undefined"
      BY DEF Simple, SimpleAt, st
<1>2. k = "ui" => s # 3 /\ copied = {} /\ ~st.ignored
      BY DEF SimpleAt, st
<1>3. st.ignored => s > SetsAt(k)
      BY DEF SimpleAt, st
<1>4. \A c \in 1..Len(st.calls) :
        IF st.calls[c].op = "submit"
        THEN st.calls[c].old = LayoutAt(k, s, c) /\ st.calls[c].new = LayoutAt(k, s, c + 1)
        ELSE LayoutAt(k, s, c + 1) = LayoutAt(k, s, c)
      BY <1>1, <1>2 DEF LayoutAt
<1>5. LayoutAt(k, s, Last(st)) = LayoutAt(k, s + 1, 1)
      BY <1>2 DEF LayoutAt
<1>6. QED
      BY <1>1, <1>2, <1>3, <1>4, <1>5 DEF StepFacts, SimpleAt, st

LEMMA MembersOf ==
  /\ Members("ui") = {"vertexBuffer", "setLayout", "pipelineLayout", "pipeline", "indexBuffer",
       "commandBuffers", "context", "fontImage", "fontImageView", "fontImageSampler"}
  /\ Members("indexed") = {"vertexBuffer", "setLayout", "pipelineLayout", "pipeline",
       "indexBuffer", "modelBuffer", "materialBuffer"}
  /\ Members("plain") = {"vertexBuffer", "setLayout", "pipelineLayout", "pipeline",
       "modelBuffer", "materialBuffer"}
<1>1. /\ "ui" # "indexed" /\ "ui" # "plain" /\ "indexed" # "plain"
      OBVIOUS
<1>2. Members("ui") = {"vertexBuffer", "setLayout", "pipelineLayout", "pipeline"} \cup
        {"indexBuffer", "commandBuffers", "context", "fontImage", "fontImageView",
         "fontImageSampler"}
      BY <1>1, Zenon DEF Members
<1>3. Members("indexed") = {"vertexBuffer", "setLayout", "pipelineLayout", "pipeline"} \cup
        {"indexBuffer", "modelBuffer", "materialBuffer"}
      BY <1>1, Zenon DEF Members
<1>4. Members("plain") = {"vertexBuffer", "setLayout", "pipelineLayout", "pipeline"} \cup
        {"modelBuffer", "materialBuffer"}
      BY <1>1, Zenon DEF Members
<1>5. QED
      BY <1>2, <1>3, <1>4

LEMMA FilledOf ==
  /\ Filled("ui") = {"fontImage"} /\ Filled("plain") = {"vertexBuffer"}
  /\ Filled("indexed") = {"vertexBuffer", "indexBuffer"}
BY MembersOf DEF Filled

\* Where the members of each kind are made.
LEMMA PositionsOfUI ==
  /\ DOMAIN Position["ui"] = Members("ui") \cup Shaders
  /\ Position["ui"]["commandBuffers"] = 1 /\ Position["ui"]["context"] = 2
  /\ Position["ui"]["fontImage"] = 3 /\ Position["ui"]["fontImageView"] = 4
  /\ Position["ui"]["fontImageSampler"] = 5 /\ Position["ui"]["vertexBuffer"] = 6
  /\ Position["ui"]["indexBuffer"] = 7 /\ Position["ui"]["vertexShader"] = 8
  /\ Position["ui"]["fragmentShader"] = 9 /\ Position["ui"]["setLayout"] = 10
  /\ Position["ui"]["pipelineLayout"] = 11 /\ Position["ui"]["pipeline"] = 11
<1> DEFINE table ==
      [commandBuffers |-> 1, context |-> 2, fontImage |-> 3, fontImageView |-> 4,
       fontImageSampler |-> 5, vertexBuffer |-> 6, indexBuffer |-> 7,
       vertexShader |-> 8, fragmentShader |-> 9, setLayout |-> 10,
       pipelineLayout |-> 11, pipeline |-> 11]
<1>1. Position["ui"] = table
      BY DEF Position, Kinds
<1>2. DOMAIN table = Members("ui") \cup Shaders
      BY MembersOf DEF Shaders
<1>3. QED
      BY <1>1, <1>2

LEMMA PositionsOfIndexed ==
  /\ DOMAIN Position["indexed"] = Members("indexed") \cup Shaders
  /\ Position["indexed"]["modelBuffer"] = 1 /\ Position["indexed"]["materialBuffer"] = 2
  /\ Position["indexed"]["vertexShader"] = 3 /\ Position["indexed"]["fragmentShader"] = 4
  /\ Position["indexed"]["setLayout"] = 5 /\ Position["indexed"]["pipelineLayout"] = 6
  /\ Position["indexed"]["pipeline"] = 6 /\ Position["indexed"]["indexBuffer"] = 7
  /\ Position["indexed"]["vertexBuffer"] = 9
<1> DEFINE table ==
      [modelBuffer |-> 1, materialBuffer |-> 2, vertexShader |-> 3,
       fragmentShader |-> 4, setLayout |-> 5, pipelineLayout |-> 6, pipeline |-> 6,
       indexBuffer |-> 7, vertexBuffer |-> 9]
<1>1. Position["indexed"] = table
      BY DEF Position, Kinds, MeshKinds
<1>2. DOMAIN table = Members("indexed") \cup Shaders
      BY MembersOf DEF Shaders
<1>3. QED
      BY <1>1, <1>2

LEMMA PositionsOfPlain ==
  /\ DOMAIN Position["plain"] = Members("plain") \cup Shaders
  /\ Position["plain"]["modelBuffer"] = 1 /\ Position["plain"]["materialBuffer"] = 2
  /\ Position["plain"]["vertexShader"] = 3 /\ Position["plain"]["fragmentShader"] = 4
  /\ Position["plain"]["setLayout"] = 5 /\ Position["plain"]["pipelineLayout"] = 6
  /\ Position["plain"]["pipeline"] = 6 /\ Position["plain"]["vertexBuffer"] = 8
<1> DEFINE table ==
      [modelBuffer |-> 1, materialBuffer |-> 2, vertexShader |-> 3,
       fragmentShader |-> 4, setLayout |-> 5, pipelineLayout |-> 6, pipeline |-> 6,
       vertexBuffer |-> 8]
<1>1. Position["plain"] = table
      BY DEF Position, Kinds, MeshKinds
<1>2. DOMAIN table = Members("plain") \cup Shaders
      BY MembersOf DEF Shaders
<1>3. QED
      BY <1>1, <1>2

\* The steps that are put together from a few calls.
LEMMA SmallSteps ==
  /\ \A n \in Names : Simple(UniformStep(n), {n}, {n}, {})
  /\ \A n \in Names : Simple(ShaderStep(n), {n}, {n}, {})
  /\ \A n \in Names : Simple(BufferStep(n), {n}, {n}, {})
  /\ Simple(ContextStep, {"context"}, {"context"}, {})
  /\ Simple(PipelineStep, {"pipelineLayout", "pipeline"}, {"pipelineLayout", "pipeline"}, {})
  /\ \A n \in Names : ~UniformStep(n).ignored /\ ~ShaderStep(n).ignored /\ ~BufferStep(n).ignored
  /\ ~ContextStep.ignored /\ ~PipelineStep.ignored
<1>1. \A n \in Names : Make(n) \in Calls /\ Make(n).op = "make" /\ Make(n).name = n
      BY DEF Make, Plain, Call, Calls, Ops, Layouts
<1>2. Check \in Calls /\ Check.op = "check"
      BY DEF Check, Plain, Call, Calls, Ops, Layouts
<1>3. New("context") \in Calls /\ New("context").op = "new" /\ New("context").name = "context"
      BY DEF New, Plain, Call, Calls, Ops, Layouts, Names
<1>4. ASSUME NEW n \in Names
      PROVE  Simple(UniformStep(n), {n}, {n}, {}) /\ ~UniformStep(n).ignored
  <2>1. UniformStep(n) = Step({n}, <<Make(n), Check>>)
        BY DEF UniformStep
  <2>2. QED
        BY <1>1, <1>2, <2>1, TwoCalls DEF Making
<1>5. ASSUME NEW n \in Names
      PROVE  Simple(ShaderStep(n), {n}, {n}, {}) /\ ~ShaderStep(n).ignored
  <2>1. ShaderStep(n) = Step({n}, <<Check, Make(n)>>)
        BY DEF ShaderStep
  <2>2. QED
        BY <1>1, <1>2, <2>1, TwoCalls DEF Making
<1>6. ASSUME NEW n \in Names
      PROVE  Simple(BufferStep(n), {n}, {n}, {}) /\ ~BufferStep(n).ignored
  <2>1. BufferStep(n) = Step({n}, <<Plain("make", n)>>) /\ "make" \in Making
        BY DEF BufferStep, Make, Making
  <2>2. QED
        BY <2>1, OneCall DEF Step
<1>7. Simple(ContextStep, {"context"}, {"context"}, {}) /\ ~ContextStep.ignored
  <2>1. ContextStep = Step({"context"}, <<New("context"), Check>>) /\ "context" \in Names
        BY DEF ContextStep, Names
  <2>2. QED
        BY <1>2, <1>3, <2>1, TwoCalls DEF Making
<1>8. /\ Simple(PipelineStep, {"pipelineLayout", "pipeline"}, {"pipelineLayout", "pipeline"}, {})
      /\ ~PipelineStep.ignored
  <2>1. /\ PipelineStep = Step({"pipelineLayout", "pipeline"},
                               <<Make("pipelineLayout"), Make("pipeline")>>)
        /\ "pipelineLayout" \in Names /\ "pipeline" \in Names
        BY DEF PipelineStep, Names
  <2>2. QED
        BY <1>1, <2>1, TwoCalls DEF Making
<1>9. QED
      BY <1>4, <1>5, <1>6, <1>7, <1>8

LEMMA SetsStepFacts ==
  /\ WellMade(SetsStep) /\ SetsStep.keeps = {"setLayout"} /\ ~SetsStep.ignored
  /\ AllMade(SetsStep) = {"setLayout"} /\ AllCopied(SetsStep) = {}
  /\ Len(SetsStep.calls) = 2
  /\ SetsStep.calls[1].op = "make" /\ SetsStep.calls[2].op = "allocate"
<1> DEFINE a == Make("setLayout")
<1>1. a \in Calls /\ a.op = "make" /\ a.name = "setLayout"
      BY DEF Make, Plain, Call, Calls, Ops, Layouts, Names
<1>2. Allocate \in Calls /\ Allocate.op = "allocate"
      BY DEF Allocate, Plain, Call, Calls, Ops, Layouts
<1>3. SetsStep = Step({"setLayout"}, <<a, Allocate>>) /\ "setLayout" \in Names
      BY DEF SetsStep, Names
<1> HIDE DEF a
<1>4. QED
      BY <1>1, <1>2, <1>3, TwoCalls DEF Making

LEMMA SetsFacts ==
  ASSUME NEW k \in Kinds, Program[k][SetsAt(k)] = SetsStep,
         {n \in DOMAIN Position[k] : Position[k][n] = SetsAt(k)} = {"setLayout"},
         Filled(k) \cap {"setLayout"} = {}
  PROVE  StepFacts(k, SetsAt(k))
<1> DEFINE s == SetsAt(k)
<1>1. s \in Nat /\ (k = "ui" => s = 10)
      BY DEF SetsAt
<1>2. \A c \in 1..Len(SetsStep.calls) :
        /\ SetsStep.calls[c].op = "allocate" <=> c = Len(SetsStep.calls)
        /\ SetsStep.calls[c].op # "submit"
      BY SetsStepFacts
<1>3. \A c \in 1..Len(SetsStep.calls) : LayoutAt(k, s, c + 1) = LayoutAt(k, s, c)
      BY <1>1 DEF LayoutAt
<1>4. LayoutAt(k, s, Last(SetsStep)) = LayoutAt(k, s + 1, 1)
      BY <1>1 DEF LayoutAt
<1> HIDE DEF s
<1>5. QED
      BY <1>1, <1>2, <1>3, <1>4, SetsStepFacts DEF StepFacts, s

LEMMA FactsOfUI == KindFacts("ui")
<1> DEFINE k == "ui"
           P == Program[k]
           at(s) == {n \in DOMAIN Position[k] : Position[k][n] = s}
<1>1. k \in Kinds
      BY DEF Kinds, MeshKinds
<1>2. DOMAIN Position[k] = Members(k) \cup Shaders
      BY PositionsOfUI
<1>3. /\ at(1) = {"commandBuffers"}
      /\ at(2) = {"context"}
      /\ at(3) = {"fontImage"}
      /\ at(4) = {"fontImageView"}
      /\ at(5) = {"fontImageSampler"}
      /\ at(6) = {"vertexBuffer"}
      /\ at(7) = {"indexBuffer"}
      /\ at(8) = {"vertexShader"}
      /\ at(9) = {"fragmentShader"}
      /\ at(10) = {"setLayout"}
      /\ at(11) = {"pipelineLayout", "pipeline"}
      BY PositionsOfUI, MembersOf DEF Shaders
<1>4. \A n \in DOMAIN Position[k] : Position[k][n] \in 1..11
      BY PositionsOfUI, MembersOf DEF Shaders
<1>5. SetsAt(k) = 10
      BY DEF SetsAt
<1>6. Len(P) = 11
      BY Programs
<1>7. /\ P[1] = CommandBuffersStep
      /\ P[2] = ContextStep
      /\ P[3] = Step({"fontImage"}, ImageUpload("fontImage"))
      /\ P[4] = Step({"fontImageView"}, <<Make("fontImageView")>>)
      /\ P[5] = Step({"fontImageSampler"}, <<Make("fontImageSampler")>>)
      /\ P[6] = BufferStep("vertexBuffer")
      /\ P[7] = BufferStep("indexBuffer")
      /\ P[8] = ShaderStep("vertexShader")
      /\ P[9] = ShaderStep("fragmentShader")
      /\ P[10] = SetsStep
      /\ P[11] = PipelineStep
      BY Programs
<1>8. "staging" \notin DOMAIN Position[k] /\ "packedVertices" \notin DOMAIN Position[k]
      BY <1>2, MembersOf DEF Shaders
<1> HIDE DEF k, P, at
<1>9. StepFacts(k, 1)
  <2>a. CommandBuffersStep = BufferStep("commandBuffers") /\ "commandBuffers" \in Names
        BY DEF CommandBuffersStep, BufferStep, Names
  <2>1. Simple(P[1], {"commandBuffers"}, {"commandBuffers"}, {}) /\ ~P[1].ignored
        BY <1>7, <2>a, SmallSteps
  <2>2. Filled(k) \cap {"commandBuffers"} \subseteq {}
        BY FilledOf DEF k
  <2>3. k = "ui" => 1 # 3
        BY DEF k
  <2>4. SimpleAt(k, 1, {"commandBuffers"}, {"commandBuffers"}, {})
        BY <1>3, <1>5, <2>1, <2>2, <2>3 DEF SimpleAt, P, at
  <2>5. QED
        BY <1>1, <2>4, SimpleFacts
<1>10. StepFacts(k, 2)
  <2>1. Simple(P[2], {"context"}, {"context"}, {}) /\ ~P[2].ignored
        BY <1>7, SmallSteps DEF Names, Uploads, Shaders
  <2>2. Filled(k) \cap {"context"} \subseteq {}
        BY FilledOf DEF k
  <2>3. k = "ui" => 2 # 3
        BY DEF k
  <2>4. SimpleAt(k, 2, {"context"}, {"context"}, {})
        BY <1>3, <1>5, <2>1, <2>2, <2>3 DEF SimpleAt, P, at
  <2>5. QED
        BY <1>1, <2>4, SimpleFacts
<1>11. StepFacts(k, 3)
  <2> DEFINE st == P[3]
  <2>1. /\ WellMade(st) /\ st.keeps = {"fontImage"} /\ ~st.ignored
        /\ AllMade(st) = {"staging", "fontImage"} /\ AllCopied(st) = {"fontImage"}
        /\ Len(st.calls) = 12
        /\ \A c \in 1..12 : /\ st.calls[c].op # "allocate"
                            /\ st.calls[c].op = "submit" <=> c \in {5, 8, 11}
        /\ st.calls[5].old = "undefined" /\ st.calls[5].new = "transferDst"
        /\ st.calls[8].old = "transferDst" /\ st.calls[8].new = "transferDst"
        /\ st.calls[11].old = "transferDst" /\ st.calls[11].new = "shaderReadOnly"
    <3>1. st = Step({"fontImage"}, ImageUpload("fontImage"))
          BY <1>7
    <3>2. "fontImage" \in Names
          BY DEF Names, Uploads
    <3> HIDE DEF st
    <3>3. ImageMade(st, "fontImage")
          BY <3>1, <3>2, ImageUploadWellMade
    <3>4. QED
          BY <3>3 DEF ImageMade
  <2> HIDE DEF st
  <2>2. \A c \in 1..13 : LayoutAt(k, 3, c) =
          IF c > 11 THEN "shaderReadOnly" ELSE IF c > 5 THEN "transferDst" ELSE "undefined"
        BY DEF LayoutAt, k
  <2>3. \A c \in 1..Len(st.calls) :
          IF st.calls[c].op = "submit"
          THEN st.calls[c].old = LayoutAt(k, 3, c) /\ st.calls[c].new = LayoutAt(k, 3, c + 1)
          ELSE LayoutAt(k, 3, c + 1) = LayoutAt(k, 3, c)
    <3>1. TAKE c \in 1..Len(st.calls)
    <3>2. c \in 1..12 /\ c \in 1..13 /\ c + 1 \in 1..13
          BY <2>1
    <3>3. ASSUME c \in {5, 8, 11}
          PROVE  st.calls[c].old = LayoutAt(k, 3, c) /\ st.calls[c].new = LayoutAt(k, 3, c + 1)
      <4>1. CASE c = 5
            BY <2>1, <2>2, <4>1
      <4>2. CASE c = 8
            BY <2>1, <2>2, <4>2
      <4>3. CASE c = 11
            BY <2>1, <2>2, <4>3
      <4>4. QED
            BY <3>3, <4>1, <4>2, <4>3
    <3>4. c \notin {5, 8, 11} => LayoutAt(k, 3, c + 1) = LayoutAt(k, 3, c)
          BY <2>2, <3>2
    <3>5. QED
          BY <2>1, <3>2, <3>3, <3>4
  <2>4. LayoutAt(k, 3, Last(st)) = LayoutAt(k, 3 + 1, 1)
        BY <2>1 DEF LayoutAt, Last, k
  <2>5. (AllMade(st) \ st.keeps) \cap DOMAIN Position[k] = {}
        BY <1>8, <2>1
  <2>6. Filled(k) \cap st.keeps \subseteq AllCopied(st)
        BY <2>1, FilledOf DEF k
  <2>7. st.keeps = at(3)
        BY <1>3, <2>1
  <2>8. \A c \in 1..Len(st.calls) :
          st.calls[c].op = "allocate" <=> 3 = SetsAt(k) /\ c = Len(st.calls)
        BY <1>5, <2>1
  <2>9. QED
        BY <2>1, <2>3, <2>4, <2>5, <2>6, <2>7, <2>8 DEF StepFacts, st, P, at
<1>12. StepFacts(k, 4)
  <2>a. Step({"fontImageView"}, <<Make("fontImageView")>>) = BufferStep("fontImageView") /\ "fontImageView" \in Names
        BY DEF CommandBuffersStep, BufferStep, Names
  <2>1. Simple(P[4], {"fontImageView"}, {"fontImageView"}, {}) /\ ~P[4].ignored
        BY <1>7, <2>a, SmallSteps
  <2>2. Filled(k) \cap {"fontImageView"} \subseteq {}
        BY FilledOf DEF k
  <2>3. k = "ui" => 4 # 3
        BY DEF k
  <2>4. SimpleAt(k, 4, {"fontImageView"}, {"fontImageView"}, {})
        BY <1>3, <1>5, <2>1, <2>2, <2>3 DEF SimpleAt, P, at
  <2>5. QED
        BY <1>1, <2>4, SimpleFacts
<1>13. StepFacts(k, 5)
  <2>a. Step({"fontImageSampler"}, <<Make("fontImageSampler")>>) = BufferStep("fontImageSampler") /\ "fontImageSampler" \in Names
        BY DEF CommandBuffersStep, BufferStep, Names
  <2>1. Simple(P[5], {"fontImageSampler"}, {"fontImageSampler"}, {}) /\ ~P[5].ignored
        BY <1>7, <2>a, SmallSteps
  <2>2. Filled(k) \cap {"fontImageSampler"} \subseteq {}
        BY FilledOf DEF k
  <2>3. k = "ui" => 5 # 3
        BY DEF k
  <2>4. SimpleAt(k, 5, {"fontImageSampler"}, {"fontImageSampler"}, {})
        BY <1>3, <1>5, <2>1, <2>2, <2>3 DEF SimpleAt, P, at
  <2>5. QED
        BY <1>1, <2>4, SimpleFacts
<1>14. StepFacts(k, 6)
  <2>1. Simple(P[6], {"vertexBuffer"}, {"vertexBuffer"}, {}) /\ ~P[6].ignored
        BY <1>7, SmallSteps DEF Names, Uploads, Shaders
  <2>2. Filled(k) \cap {"vertexBuffer"} \subseteq {}
        BY FilledOf DEF k
  <2>3. k = "ui" => 6 # 3
        BY DEF k
  <2>4. SimpleAt(k, 6, {"vertexBuffer"}, {"vertexBuffer"}, {})
        BY <1>3, <1>5, <2>1, <2>2, <2>3 DEF SimpleAt, P, at
  <2>5. QED
        BY <1>1, <2>4, SimpleFacts
<1>15. StepFacts(k, 7)
  <2>1. Simple(P[7], {"indexBuffer"}, {"indexBuffer"}, {}) /\ ~P[7].ignored
        BY <1>7, SmallSteps DEF Names, Uploads, Shaders
  <2>2. Filled(k) \cap {"indexBuffer"} \subseteq {}
        BY FilledOf DEF k
  <2>3. k = "ui" => 7 # 3
        BY DEF k
  <2>4. SimpleAt(k, 7, {"indexBuffer"}, {"indexBuffer"}, {})
        BY <1>3, <1>5, <2>1, <2>2, <2>3 DEF SimpleAt, P, at
  <2>5. QED
        BY <1>1, <2>4, SimpleFacts
<1>16. StepFacts(k, 8)
  <2>1. Simple(P[8], {"vertexShader"}, {"vertexShader"}, {}) /\ ~P[8].ignored
        BY <1>7, SmallSteps DEF Names, Uploads, Shaders
  <2>2. Filled(k) \cap {"vertexShader"} \subseteq {}
        BY FilledOf DEF k
  <2>3. k = "ui" => 8 # 3
        BY DEF k
  <2>4. SimpleAt(k, 8, {"vertexShader"}, {"vertexShader"}, {})
        BY <1>3, <1>5, <2>1, <2>2, <2>3 DEF SimpleAt, P, at
  <2>5. QED
        BY <1>1, <2>4, SimpleFacts
<1>17. StepFacts(k, 9)
  <2>1. Simple(P[9], {"fragmentShader"}, {"fragmentShader"}, {}) /\ ~P[9].ignored
        BY <1>7, SmallSteps DEF Names, Uploads, Shaders
  <2>2. Filled(k) \cap {"fragmentShader"} \subseteq {}
        BY FilledOf DEF k
  <2>3. k = "ui" => 9 # 3
        BY DEF k
  <2>4. SimpleAt(k, 9, {"fragmentShader"}, {"fragmentShader"}, {})
        BY <1>3, <1>5, <2>1, <2>2, <2>3 DEF SimpleAt, P, at
  <2>5. QED
        BY <1>1, <2>4, SimpleFacts
<1>18. StepFacts(k, 10)
  <2>1. Filled(k) \cap {"setLayout"} = {}
        BY FilledOf DEF k
  <2>2. QED
        BY <1>1, <1>3, <1>5, <1>7, <2>1, SetsFacts DEF P, at
<1>19. StepFacts(k, 11)
  <2>1. Simple(P[11], {"pipelineLayout", "pipeline"}, {"pipelineLayout", "pipeline"}, {}) /\ ~P[11].ignored
        BY <1>7, SmallSteps DEF Names, Uploads, Shaders
  <2>2. Filled(k) \cap {"pipelineLayout", "pipeline"} \subseteq {}
        BY FilledOf DEF k
  <2>3. k = "ui" => 11 # 3
        BY DEF k
  <2>4. SimpleAt(k, 11, {"pipelineLayout", "pipeline"}, {"pipelineLayout", "pipeline"}, {})
        BY <1>3, <1>5, <2>1, <2>2, <2>3 DEF SimpleAt, P, at
  <2>5. QED
        BY <1>1, <2>4, SimpleFacts
<1>20. \A s \in 1..Len(P) : StepFacts(k, s)
      BY <1>6, <1>9, <1>10, <1>11, <1>12, <1>13, <1>14, <1>15, <1>16, <1>17, <1>18, <1>19
<1>21. Kept(k, 1) = {} /\ Kept(k, Len(P) + 1) = DOMAIN Position[k]
      BY <1>4, <1>6 DEF Kept
<1>22. Members(k) \cap Shaders = {} /\ Filled(k) \subseteq Members(k)
      BY MembersOf, FilledOf DEF Shaders, k
<1>23. /\ LayoutAt(k, 1, 1) = "undefined"
       /\ LayoutAt("ui", Len(Program["ui"]) + 1, 1) = "shaderReadOnly"
      BY Programs DEF LayoutAt
<1>24. P # <<>> /\ SetsAt(k) \in 1..Len(P)
      BY <1>5, <1>6
<1>25. QED
      BY <1>2, <1>4, <1>20, <1>21, <1>22, <1>23, <1>24 DEF KindFacts, P, k

LEMMA FactsOfIndexed == KindFacts("indexed")
<1> DEFINE k == "indexed"
           P == Program[k]
           at(s) == {n \in DOMAIN Position[k] : Position[k][n] = s}
<1>1. k \in Kinds
      BY DEF Kinds, MeshKinds
<1>2. DOMAIN Position[k] = Members(k) \cup Shaders
      BY PositionsOfIndexed
<1>3. /\ at(1) = {"modelBuffer"}
      /\ at(2) = {"materialBuffer"}
      /\ at(3) = {"vertexShader"}
      /\ at(4) = {"fragmentShader"}
      /\ at(5) = {"setLayout"}
      /\ at(6) = {"pipelineLayout", "pipeline"}
      /\ at(7) = {"indexBuffer"}
      /\ at(8) = {}
      /\ at(9) = {"vertexBuffer"}
      BY PositionsOfIndexed, MembersOf DEF Shaders
<1>4. \A n \in DOMAIN Position[k] : Position[k][n] \in 1..9
      BY PositionsOfIndexed, MembersOf DEF Shaders
<1>5. SetsAt(k) = 5
      BY DEF SetsAt
<1>6. Len(P) = 9
      BY Programs
<1>7. /\ P[1] = UniformStep("modelBuffer")
      /\ P[2] = UniformStep("materialBuffer")
      /\ P[3] = ShaderStep("vertexShader")
      /\ P[4] = ShaderStep("fragmentShader")
      /\ P[5] = SetsStep
      /\ P[6] = PipelineStep
      /\ P[7] = Step({"indexBuffer"}, BufferUpload("indexBuffer"))
      /\ P[8] = Ignored(BufferUpload("packedVertices"))
      /\ P[9] = VertexStep
      BY Programs
<1>8. "staging" \notin DOMAIN Position[k] /\ "packedVertices" \notin DOMAIN Position[k]
      BY <1>2, MembersOf DEF Shaders
<1> HIDE DEF k, P, at
<1>9. StepFacts(k, 1)
  <2>1. Simple(P[1], {"modelBuffer"}, {"modelBuffer"}, {}) /\ ~P[1].ignored
        BY <1>7, SmallSteps DEF Names, Uploads, Shaders
  <2>2. Filled(k) \cap {"modelBuffer"} \subseteq {}
        BY FilledOf DEF k
  <2>3. k = "ui" => 1 # 3
        BY DEF k
  <2>4. SimpleAt(k, 1, {"modelBuffer"}, {"modelBuffer"}, {})
        BY <1>3, <1>5, <2>1, <2>2, <2>3 DEF SimpleAt, P, at
  <2>5. QED
        BY <1>1, <2>4, SimpleFacts
<1>10. StepFacts(k, 2)
  <2>1. Simple(P[2], {"materialBuffer"}, {"materialBuffer"}, {}) /\ ~P[2].ignored
        BY <1>7, SmallSteps DEF Names, Uploads, Shaders
  <2>2. Filled(k) \cap {"materialBuffer"} \subseteq {}
        BY FilledOf DEF k
  <2>3. k = "ui" => 2 # 3
        BY DEF k
  <2>4. SimpleAt(k, 2, {"materialBuffer"}, {"materialBuffer"}, {})
        BY <1>3, <1>5, <2>1, <2>2, <2>3 DEF SimpleAt, P, at
  <2>5. QED
        BY <1>1, <2>4, SimpleFacts
<1>11. StepFacts(k, 3)
  <2>1. Simple(P[3], {"vertexShader"}, {"vertexShader"}, {}) /\ ~P[3].ignored
        BY <1>7, SmallSteps DEF Names, Uploads, Shaders
  <2>2. Filled(k) \cap {"vertexShader"} \subseteq {}
        BY FilledOf DEF k
  <2>3. k = "ui" => 3 # 3
        BY DEF k
  <2>4. SimpleAt(k, 3, {"vertexShader"}, {"vertexShader"}, {})
        BY <1>3, <1>5, <2>1, <2>2, <2>3 DEF SimpleAt, P, at
  <2>5. QED
        BY <1>1, <2>4, SimpleFacts
<1>12. StepFacts(k, 4)
  <2>1. Simple(P[4], {"fragmentShader"}, {"fragmentShader"}, {}) /\ ~P[4].ignored
        BY <1>7, SmallSteps DEF Names, Uploads, Shaders
  <2>2. Filled(k) \cap {"fragmentShader"} \subseteq {}
        BY FilledOf DEF k
  <2>3. k = "ui" => 4 # 3
        BY DEF k
  <2>4. SimpleAt(k, 4, {"fragmentShader"}, {"fragmentShader"}, {})
        BY <1>3, <1>5, <2>1, <2>2, <2>3 DEF SimpleAt, P, at
  <2>5. QED
        BY <1>1, <2>4, SimpleFacts
<1>13. StepFacts(k, 5)
  <2>1. Filled(k) \cap {"setLayout"} = {}
        BY FilledOf DEF k
  <2>2. QED
        BY <1>1, <1>3, <1>5, <1>7, <2>1, SetsFacts DEF P, at
<1>14. StepFacts(k, 6)
  <2>1. Simple(P[6], {"pipelineLayout", "pipeline"}, {"pipelineLayout", "pipeline"}, {}) /\ ~P[6].ignored
        BY <1>7, SmallSteps DEF Names, Uploads, Shaders
  <2>2. Filled(k) \cap {"pipelineLayout", "pipeline"} \subseteq {}
        BY FilledOf DEF k
  <2>3. k = "ui" => 6 # 3
        BY DEF k
  <2>4. SimpleAt(k, 6, {"pipelineLayout", "pipeline"}, {"pipelineLayout", "pipeline"}, {})
        BY <1>3, <1>5, <2>1, <2>2, <2>3 DEF SimpleAt, P, at
  <2>5. QED
        BY <1>1, <2>4, SimpleFacts
<1>15. StepFacts(k, 7)
  <2>1. P[7] = [keeps |-> {"indexBuffer"}, calls |-> BufferUpload("indexBuffer"), ignored |-> FALSE]
        BY <1>7 DEF Step, Ignored, VertexStep
  <2>2. Simple(P[7], {"indexBuffer"}, {"staging", "indexBuffer"}, {"indexBuffer"})
        BY <2>1, BufferUploadWellMade DEF Names, Uploads
  <2>3. ({"staging", "indexBuffer"} \ {"indexBuffer"}) \cap DOMAIN Position[k] = {}
        BY <1>8
  <2>4. k # "ui"
        BY DEF k
  <2>5. P[7].ignored => 7 > SetsAt(k)
        BY <1>5
  <2>6. Filled(k) \cap {"indexBuffer"} \subseteq {"indexBuffer"}
        OBVIOUS
  <2>7. SimpleAt(k, 7, {"indexBuffer"}, {"staging", "indexBuffer"}, {"indexBuffer"})
        BY <1>3, <1>5, <2>2, <2>3, <2>4, <2>5, <2>6 DEF SimpleAt, P, at
  <2>8. QED
        BY <1>1, <2>7, SimpleFacts
<1>16. StepFacts(k, 8)
  <2>1. P[8] = [keeps |-> {}, calls |-> BufferUpload("packedVertices"), ignored |-> TRUE]
        BY <1>7 DEF Step, Ignored, VertexStep
  <2>2. Simple(P[8], {}, {"staging", "packedVertices"}, {"packedVertices"})
        BY <2>1, BufferUploadWellMade DEF Names, Uploads
  <2>3. ({"staging", "packedVertices"} \ {}) \cap DOMAIN Position[k] = {}
        BY <1>8
  <2>4. k # "ui"
        BY DEF k
  <2>5. P[8].ignored => 8 > SetsAt(k)
        BY <1>5
  <2>6. Filled(k) \cap {} \subseteq {"packedVertices"}
        OBVIOUS
  <2>7. SimpleAt(k, 8, {}, {"staging", "packedVertices"}, {"packedVertices"})
        BY <1>3, <1>5, <2>2, <2>3, <2>4, <2>5, <2>6 DEF SimpleAt, P, at
  <2>8. QED
        BY <1>1, <2>7, SimpleFacts
<1>17. StepFacts(k, 9)
  <2>1. P[9] = [keeps |-> {"vertexBuffer"}, calls |-> BufferUpload("vertexBuffer"), ignored |-> FALSE]
        BY <1>7 DEF Step, Ignored, VertexStep
  <2>2. Simple(P[9], {"vertexBuffer"}, {"staging", "vertexBuffer"}, {"vertexBuffer"})
        BY <2>1, BufferUploadWellMade DEF Names, Uploads
  <2>3. ({"staging", "vertexBuffer"} \ {"vertexBuffer"}) \cap DOMAIN Position[k] = {}
        BY <1>8
  <2>4. k # "ui"
        BY DEF k
  <2>5. P[9].ignored => 9 > SetsAt(k)
        BY <1>5
  <2>6. Filled(k) \cap {"vertexBuffer"} \subseteq {"vertexBuffer"}
        OBVIOUS
  <2>7. SimpleAt(k, 9, {"vertexBuffer"}, {"staging", "vertexBuffer"}, {"vertexBuffer"})
        BY <1>3, <1>5, <2>2, <2>3, <2>4, <2>5, <2>6 DEF SimpleAt, P, at
  <2>8. QED
        BY <1>1, <2>7, SimpleFacts
<1>18. \A s \in 1..Len(P) : StepFacts(k, s)
      BY <1>6, <1>9, <1>10, <1>11, <1>12, <1>13, <1>14, <1>15, <1>16, <1>17
<1>19. Kept(k, 1) = {} /\ Kept(k, Len(P) + 1) = DOMAIN Position[k]
      BY <1>4, <1>6 DEF Kept
<1>20. Members(k) \cap Shaders = {} /\ Filled(k) \subseteq Members(k)
      BY MembersOf, FilledOf DEF Shaders, k
<1>21. /\ LayoutAt(k, 1, 1) = "undefined"
       /\ LayoutAt("ui", Len(Program["ui"]) + 1, 1) = "shaderReadOnly"
      BY Programs DEF LayoutAt
<1>22. P # <<>> /\ SetsAt(k) \in 1..Len(P)
      BY <1>5, <1>6
<1>23. QED
      BY <1>2, <1>4, <1>18, <1>19, <1>20, <1>21, <1>22 DEF KindFacts, P, k

LEMMA FactsOfPlain == KindFacts("plain")
<1> DEFINE k == "plain"
           P == Program[k]
           at(s) == {n \in DOMAIN Position[k] : Position[k][n] = s}
<1>1. k \in Kinds
      BY DEF Kinds, MeshKinds
<1>2. DOMAIN Position[k] = Members(k) \cup Shaders
      BY PositionsOfPlain
<1>3. /\ at(1) = {"modelBuffer"}
      /\ at(2) = {"materialBuffer"}
      /\ at(3) = {"vertexShader"}
      /\ at(4) = {"fragmentShader"}
      /\ at(5) = {"setLayout"}
      /\ at(6) = {"pipelineLayout", "pipeline"}
      /\ at(7) = {}
      /\ at(8) = {"vertexBuffer"}
      BY PositionsOfPlain, MembersOf DEF Shaders
<1>4. \A n \in DOMAIN Position[k] : Position[k][n] \in 1..8
      BY PositionsOfPlain, MembersOf DEF Shaders
<1>5. SetsAt(k) = 5
      BY DEF SetsAt
<1>6. Len(P) = 8
      BY Programs
<1>7. /\ P[1] = UniformStep("modelBuffer")
      /\ P[2] = UniformStep("materialBuffer")
      /\ P[3] = ShaderStep("vertexShader")
      /\ P[4] = ShaderStep("fragmentShader")
      /\ P[5] = SetsStep
      /\ P[6] = PipelineStep
      /\ P[7] = Ignored(BufferUpload("packedVertices"))
      /\ P[8] = VertexStep
      BY Programs
<1>8. "staging" \notin DOMAIN Position[k] /\ "packedVertices" \notin DOMAIN Position[k]
      BY <1>2, MembersOf DEF Shaders
<1> HIDE DEF k, P, at
<1>9. StepFacts(k, 1)
  <2>1. Simple(P[1], {"modelBuffer"}, {"modelBuffer"}, {}) /\ ~P[1].ignored
        BY <1>7, SmallSteps DEF Names, Uploads, Shaders
  <2>2. Filled(k) \cap {"modelBuffer"} \subseteq {}
        BY FilledOf DEF k
  <2>3. k = "ui" => 1 # 3
        BY DEF k
  <2>4. SimpleAt(k, 1, {"modelBuffer"}, {"modelBuffer"}, {})
        BY <1>3, <1>5, <2>1, <2>2, <2>3 DEF SimpleAt, P, at
  <2>5. QED
        BY <1>1, <2>4, SimpleFacts
<1>10. StepFacts(k, 2)
  <2>1. Simple(P[2], {"materialBuffer"}, {"materialBuffer"}, {}) /\ ~P[2].ignored
        BY <1>7, SmallSteps DEF Names, Uploads, Shaders
  <2>2. Filled(k) \cap {"materialBuffer"} \subseteq {}
        BY FilledOf DEF k
  <2>3. k = "ui" => 2 # 3
        BY DEF k
  <2>4. SimpleAt(k, 2, {"materialBuffer"}, {"materialBuffer"}, {})
        BY <1>3, <1>5, <2>1, <2>2, <2>3 DEF SimpleAt, P, at
  <2>5. QED
        BY <1>1, <2>4, SimpleFacts
<1>11. StepFacts(k, 3)
  <2>1. Simple(P[3], {"vertexShader"}, {"vertexShader"}, {}) /\ ~P[3].ignored
        BY <1>7, SmallSteps DEF Names, Uploads, Shaders
  <2>2. Filled(k) \cap {"vertexShader"} \subseteq {}
        BY FilledOf DEF k
  <2>3. k = "ui" => 3 # 3
        BY DEF k
  <2>4. SimpleAt(k, 3, {"vertexShader"}, {"vertexShader"}, {})
        BY <1>3, <1>5, <2>1, <2>2, <2>3 DEF SimpleAt, P, at
  <2>5. QED
        BY <1>1, <2>4, SimpleFacts
<1>12. StepFacts(k, 4)
  <2>1. Simple(P[4], {"fragmentShader"}, {"fragmentShader"}, {}) /\ ~P[4].ignored
        BY <1>7, SmallSteps DEF Names, Uploads, Shaders
  <2>2. Filled(k) \cap {"fragmentShader"} \subseteq {}
        BY FilledOf DEF k
  <2>3. k = "ui" => 4 # 3
        BY DEF k
  <2>4. SimpleAt(k, 4, {"fragmentShader"}, {"fragmentShader"}, {})
        BY <1>3, <1>5, <2>1, <2>2, <2>3 DEF SimpleAt, P, at
  <2>5. QED
        BY <1>1, <2>4, SimpleFacts
<1>13. StepFacts(k, 5)
  <2>1. Filled(k) \cap {"setLayout"} = {}
        BY FilledOf DEF k
  <2>2. QED
        BY <1>1, <1>3, <1>5, <1>7, <2>1, SetsFacts DEF P, at
<1>14. StepFacts(k, 6)
  <2>1. Simple(P[6], {"pipelineLayout", "pipeline"}, {"pipelineLayout", "pipeline"}, {}) /\ ~P[6].ignored
        BY <1>7, SmallSteps DEF Names, Uploads, Shaders
  <2>2. Filled(k) \cap {"pipelineLayout", "pipeline"} \subseteq {}
        BY FilledOf DEF k
  <2>3. k = "ui" => 6 # 3
        BY DEF k
  <2>4. SimpleAt(k, 6, {"pipelineLayout", "pipeline"}, {"pipelineLayout", "pipeline"}, {})
        BY <1>3, <1>5, <2>1, <2>2, <2>3 DEF SimpleAt, P, at
  <2>5. QED
        BY <1>1, <2>4, SimpleFacts
<1>15. StepFacts(k, 7)
  <2>1. P[7] = [keeps |-> {}, calls |-> BufferUpload("packedVertices"), ignored |-> TRUE]
        BY <1>7 DEF Step, Ignored, VertexStep
  <2>2. Simple(P[7], {}, {"staging", "packedVertices"}, {"packedVertices"})
        BY <2>1, BufferUploadWellMade DEF Names, Uploads
  <2>3. ({"staging", "packedVertices"} \ {}) \cap DOMAIN Position[k] = {}
        BY <1>8
  <2>4. k # "ui"
        BY DEF k
  <2>5. P[7].ignored => 7 > SetsAt(k)
        BY <1>5
  <2>6. Filled(k) \cap {} \subseteq {"packedVertices"}
        OBVIOUS
  <2>7. SimpleAt(k, 7, {}, {"staging", "packedVertices"}, {"packedVertices"})
        BY <1>3, <1>5, <2>2, <2>3, <2>4, <2>5, <2>6 DEF SimpleAt, P, at
  <2>8. QED
        BY <1>1, <2>7, SimpleFacts
<1>16. StepFacts(k, 8)
  <2>1. P[8] = [keeps |-> {"vertexBuffer"}, calls |-> BufferUpload("vertexBuffer"), ignored |-> FALSE]
        BY <1>7 DEF Step, Ignored, VertexStep
  <2>2. Simple(P[8], {"vertexBuffer"}, {"staging", "vertexBuffer"}, {"vertexBuffer"})
        BY <2>1, BufferUploadWellMade DEF Names, Uploads
  <2>3. ({"staging", "vertexBuffer"} \ {"vertexBuffer"}) \cap DOMAIN Position[k] = {}
        BY <1>8
  <2>4. k # "ui"
        BY DEF k
  <2>5. P[8].ignored => 8 > SetsAt(k)
        BY <1>5
  <2>6. Filled(k) \cap {"vertexBuffer"} \subseteq {"vertexBuffer"}
        OBVIOUS
  <2>7. SimpleAt(k, 8, {"vertexBuffer"}, {"staging", "vertexBuffer"}, {"vertexBuffer"})
        BY <1>3, <1>5, <2>2, <2>3, <2>4, <2>5, <2>6 DEF SimpleAt, P, at
  <2>8. QED
        BY <1>1, <2>7, SimpleFacts
<1>17. \A s \in 1..Len(P) : StepFacts(k, s)
      BY <1>6, <1>9, <1>10, <1>11, <1>12, <1>13, <1>14, <1>15, <1>16
<1>18. Kept(k, 1) = {} /\ Kept(k, Len(P) + 1) = DOMAIN Position[k]
      BY <1>4, <1>6 DEF Kept
<1>19. Members(k) \cap Shaders = {} /\ Filled(k) \subseteq Members(k)
      BY MembersOf, FilledOf DEF Shaders, k
<1>20. /\ LayoutAt(k, 1, 1) = "undefined"
       /\ LayoutAt("ui", Len(Program["ui"]) + 1, 1) = "shaderReadOnly"
      BY Programs DEF LayoutAt
<1>21. P # <<>> /\ SetsAt(k) \in 1..Len(P)
      BY <1>5, <1>6
<1>22. QED
      BY <1>2, <1>4, <1>17, <1>18, <1>19, <1>20, <1>21 DEF KindFacts, P, k

LEMMA Facts == \A k \in Kinds : KindFacts(k)
BY FactsOfUI, FactsOfIndexed, FactsOfPlain DEF Kinds, MeshKinds

-----------------------------------------------------------------------------
(* The steps of the specification.                                         *)

LEMMA MadeGrows ==
  ASSUME NEW st, NEW c \in Nat \ {0}
  PROVE  /\ Made(st, 1) = {} /\ Copied(st, 1) = {}
         /\ Made(st, c + 1) =
              Made(st, c) \cup IF st.calls[c].op \in Making THEN {st.calls[c].name} ELSE {}
         /\ Copied(st, c + 1) =
              Copied(st, c) \cup IF st.calls[c].op = "submit" /\ st.calls[c].reads # {}
                                 THEN {st.calls[c].name} ELSE {}
<1>1. 1..(1 - 1) = {} /\ 1..((c + 1) - 1) = 1..(c - 1) \cup {c}
      OBVIOUS
<1>2. Made(st, 1) = {} /\ Copied(st, 1) = {}
      BY <1>1 DEF Made, Copied
<1>3. Made(st, c + 1) =
        Made(st, c) \cup IF st.calls[c].op \in Making THEN {st.calls[c].name} ELSE {}
      BY <1>1 DEF Made
<1>4. Copied(st, c + 1) =
        Copied(st, c) \cup IF st.calls[c].op = "submit" /\ st.calls[c].reads # {}
                           THEN {st.calls[c].name} ELSE {}
      BY <1>1 DEF Copied
<1>5. QED
      BY <1>2, <1>3, <1>4

LEMMA KeptGrows ==
  ASSUME NEW k \in Kinds, NEW s \in 1..Len(Program[k])
  PROVE  /\ Kept(k, s + 1) = Kept(k, s) \cup Program[k][s].keeps
         /\ Kept(k, s) \cap AllMade(Program[k][s]) = {}
<1>1. StepFacts(k, s) /\ \A n \in DOMAIN Position[k] : Position[k][n] \in Nat
      BY Facts DEF KindFacts
<1>2. Program[k][s].keeps = {n \in DOMAIN Position[k] : Position[k][n] = s}
      BY <1>1 DEF StepFacts
<1>3. (AllMade(Program[k][s]) \ Program[k][s].keeps) \cap DOMAIN Position[k] = {}
      BY <1>1 DEF StepFacts
<1>4. s \in Nat /\ \A m \in Nat : m < s + 1 <=> m < s \/ m = s
      BY <1>1
<1>5. QED
      BY <1>1, <1>2, <1>3, <1>4 DEF Kept

\* Where a running function is.
LEMMA Place ==
  ASSUME TypeOK, PlaceInv, busy
  PROVE  /\ item \in Items /\ Kind \in Kinds /\ Steps = Program[Kind]
         /\ KindFacts(Kind) /\ Len(Steps) \in Nat
         /\ step \in 1..(Len(Steps) + 1)
         /\ step <= Len(Steps) =>
              /\ StepFacts(Kind, step) /\ Current = Program[Kind][step] /\ WellMade(Current)
              /\ call \in 1..Len(Current.calls) /\ This \in Calls /\ Len(Current.calls) \in Nat
         /\ step > Len(Steps) => call = 1
<1>1. item \in Items /\ Kind \in Kinds /\ Steps = Program[Kind]
      BY DEF TypeOK, Kind, Steps
<1>2. KindFacts(Kind)
      BY <1>1, Facts
<1>3. step \in 1..(Len(Steps) + 1)
        /\ call \in 1..(IF step <= Len(Steps) THEN Len(Current.calls) ELSE 1)
      BY DEF PlaceInv
<1>4. Len(Steps) \in Nat
  <2>1. SetsAt(Kind) \in 1..Len(Program[Kind])
        BY <1>2 DEF KindFacts
  <2>2. QED
        BY <1>1, Programs DEF Kinds, MeshKinds
<1>5. ASSUME step <= Len(Steps)
      PROVE  /\ StepFacts(Kind, step) /\ Current = Program[Kind][step] /\ WellMade(Current)
             /\ call \in 1..Len(Current.calls) /\ This \in Calls /\ Len(Current.calls) \in Nat
  <2>1. StepFacts(Kind, step)
        BY <1>1, <1>2, <1>3, <1>4, <1>5 DEF KindFacts
  <2>2. Current = Program[Kind][step]
        BY <1>1 DEF Current
  <2>3. WellMade(Current)
        BY <2>1, <2>2 DEF StepFacts
  <2>4. call \in 1..Len(Current.calls)
        BY <1>3, <1>5
  <2>5. Current.calls \in Seq(Calls)
        BY <2>3 DEF WellMade
  <2>6. QED
        BY <2>1, <2>2, <2>3, <2>4, <2>5 DEF This
<1>6. step > Len(Steps) => call = 1
      BY <1>3, <1>4
<1>7. QED
      BY <1>1, <1>2, <1>3, <1>4, <1>5, <1>6

\* A call that succeeds, and one that fails.
MadeNow == IF This.op \in Making THEN {Object(This.name)} ELSE {}
Progress ==
  /\ Running /\ Advance(MadeNow)
  /\ UNCHANGED <<callVars, itemVars, faulted, layout, written>>
  /\ sets' = IF This.op = "allocate" THEN sets + 1 ELSE sets
  /\ This.op = "allocate" => sets + 1 <= PoolSets
  /\ gpuQueue' = IF This.op = "submit" THEN Append(gpuQueue, Submission) ELSE gpuQueue
  /\ IF This.op = "wait" THEN fence /\ fence' = FALSE ELSE fence' = fence

Failure ==
  /\ Running /\ GiveUp
  /\ UNCHANGED <<sets, gpuVars>>
  /\ \/ faulted' = faulted /\ This.op = "allocate"
     \/ \E name \in {"call", "wait", "reset"} : Fault(name)
  /\ This.op = "wait" => \E name \in {"wait", "reset"} : Fault(name)

LEMMA NextCases ==
  ASSUME TypeOK, [Next]_vars
  PROVE  \/ \E b \in Batches : Start(b)
         \/ Progress \/ Failure \/ Finish \/ GpuFinish \/ UNCHANGED vars
<1> USE DEF Progress, Failure, Running, At, MadeNow, Making, gpuVars
<1>1. CASE MakeObject
      BY <1>1 DEF MakeObject, Fail
<1>2. CASE CheckCall
      BY <1>2 DEF CheckCall, Fail
<1>3. CASE AllocateSets
      BY <1>3 DEF AllocateSets, Fail, SetsTaken, TypeOK
<1>4. CASE Submit
      BY <1>4 DEF Submit, Fail
<1>5. CASE Wait
      BY <1>5 DEF Wait, Waited, Fail, TypeOK
<1>6. QED
      BY <1>1, <1>2, <1>3, <1>4, <1>5 DEF Next, Create, Stopped


LEMMA MadeNames ==
  ASSUME NEW st, WellMade(st), NEW c \in 1..Last(st)
  PROVE  Made(st, c) \subseteq Names
<1>1. Len(st.calls) \in Nat
      BY DEF WellMade
<1>2. 1..(c - 1) \subseteq 1..Len(st.calls)
      BY <1>1 DEF Last
<1>3. QED
      BY <1>2 DEF WellMade, Made

\* The kind of the other items stays when an item begins.
LEMMA BeginType ==
  ASSUME TypeOK, NEW k \in Kinds, item + 1 <= MaxItems, BeginItem(k)
  PROVE  /\ item' = item + 1 /\ item' \in Items /\ kind' \in [Items -> Kinds \cup {"none"}]
         /\ kind'[item'] = k /\ \A i \in Items : i <= item => kind'[i] = kind[i]
         /\ step' = 1 /\ call' = 1
<1>1. item \in Nat /\ MaxItems \in Nat /\ kind \in [Items -> Kinds \cup {"none"}]
      BY UploadAssumption DEF TypeOK
<1>2. item' = item + 1 /\ kind' = [kind EXCEPT ![item + 1] = k] /\ step' = 1 /\ call' = 1
      BY DEF BeginItem
<1>3. item + 1 \in Items /\ \A i \in Items : i <= item => i # item + 1
      BY <1>1 DEF Items
<1>4. QED
      BY <1>1, <1>2, <1>3


LEMMA AdvanceCases ==
  ASSUME TypeOK, PlaceInv, Progress
  PROVE  /\ MadeNow \subseteq Objects
         /\ \/ /\ call < Len(Current.calls) /\ call' = call + 1 /\ step' = step
               /\ locals' = locals \cup MadeNow /\ own' = own /\ misused' = misused
               /\ device' = device \cup MadeNow
            \/ /\ call = Len(Current.calls) /\ call' = 1 /\ step' = step + 1 /\ locals' = {}
               /\ own' = own \cup ((locals \cup MadeNow) \cap {Object(n) : n \in Current.keeps})
               /\ Change(MadeNow, (locals \cup MadeNow) \ {Object(n) : n \in Current.keeps})
<1>1. /\ item \in Items /\ WellMade(Current) /\ call \in 1..Len(Current.calls)
      BY Place DEF Progress, Running
<1>2. This.op \in Making => This.name \in Names
      BY <1>1 DEF WellMade, This
<1>3. MadeNow \subseteq Objects
      BY <1>1, <1>2 DEF MadeNow, Objects, Object
<1>4. misused \cup ({} \cap InUse) = misused /\ (device \cup MadeNow) \ {} = device \cup MadeNow
      OBVIOUS
<1>5. QED
      BY <1>3, <1>4 DEF Progress, Advance, Change

LEMMA SubmissionType ==
  ASSUME TypeOK, PlaceInv, Running, This.op = "submit"
  PROVE  Submission \in Submissions
<1>1. /\ item \in Items /\ WellMade(Current) /\ call \in 1..Len(Current.calls)
      /\ This \in Calls
      BY Place DEF Running
<1>2. {This.name} \cup This.reads \subseteq Names
  <2>1. {This.name} \cup This.reads \subseteq Made(Current, call)
        BY <1>1 DEF WellMade, Discards, This
  <2>2. call \in 1..Last(Current)
        BY <1>1 DEF WellMade, Last
  <2>3. QED
        BY <1>1, <2>1, <2>2, MadeNames
<1>3. Object(This.name) \in Objects /\ {Object(n) : n \in This.reads} \in SUBSET Objects
      BY <1>1, <1>2 DEF Object, Objects
<1>4. This.old \in Layouts /\ This.new \in Layouts
      BY <1>1 DEF Calls
<1>5. QED
      BY <1>3, <1>4 DEF Submission, Submissions

LEMMA TypeInit == Init => TypeOK
<1> SUFFICES ASSUME Init PROVE TypeOK
    OBVIOUS
<1>1. PoolSets \in Nat /\ MaxItems \in Nat /\ MaxFailures \in Nat
      BY UploadAssumption
<1>2. /\ batch \in Seq(Kinds) /\ held \in Seq(Items) /\ gpuQueue \in Seq(Submissions)
      /\ faulted \in Seq({"call", "wait", "reset"}) /\ Len(faulted) = 0
      BY DEF Init
<1>3. /\ kind \in [Items -> Kinds \cup {"none"}] /\ layout \in [Items -> Layouts]
      BY DEF Init, Layouts
<1>4. /\ busy = FALSE /\ next = 0 /\ start = 0 /\ result = "none" /\ item = 0
      /\ step = 1 /\ call = 1 /\ locals = {} /\ own = {} /\ device = {} /\ sets = 0
      /\ fence = FALSE /\ written = {} /\ misused = {}
      BY DEF Init
<1>5. /\ busy \in BOOLEAN /\ (busy => item \in Items /\ kind[item] \in Kinds)
      /\ result \in {"none", "ok", "error"} /\ (result = "none" <=> (busy \/ item = 0))
      BY <1>4
<1>6. /\ next \in Nat /\ start \in Nat /\ item \in 0..MaxItems /\ step \in Nat
      /\ call \in Nat \ {0} /\ sets \in 0..PoolSets /\ Len(faulted) <= MaxFailures
      BY <1>1, <1>2, <1>4
<1>7. /\ locals \subseteq Objects /\ own \subseteq Objects /\ device \subseteq Objects
      /\ fence \in BOOLEAN /\ written \subseteq Objects /\ misused \subseteq Objects
      BY <1>4
<1>8. QED
      BY <1>2, <1>3, <1>5, <1>6, <1>7 DEF TypeOK

LEMMA TypeNext ==
  ASSUME TypeOK, PlaceInv, [Next]_vars
  PROVE  TypeOK'
<1>0. PoolSets \in Nat /\ MaxItems \in Nat /\ MaxFailures \in Nat
      BY UploadAssumption
<1>1. ASSUME NEW b \in Batches, Start(b)
      PROVE  TypeOK'
  <2>1. b \in Seq(Kinds) /\ b # <<>>
        BY UploadAssumption
  <2>2. b[1] \in Kinds /\ Len(b) \in Nat \ {0}
        BY <2>1
  <2>3. /\ item' = item + 1 /\ item' \in Items /\ kind' \in [Items -> Kinds \cup {"none"}]
        /\ kind'[item'] = b[1] /\ step' = 1 /\ call' = 1
    <3>1. item + 1 <= MaxItems
          BY <1>0, <1>1, <2>2 DEF Start, TypeOK
    <3>2. QED
          BY <1>1, <2>2, <3>1, BeginType DEF Start
  <2>4. item' \in 0..MaxItems
        BY <1>0, <2>3 DEF Items
  <2>5. Len(held) \in Nat
        BY DEF TypeOK
  <2>6. QED
        BY <1>1, <2>1, <2>2, <2>3, <2>4, <2>5 DEF Start, TypeOK, gpuVars
<1>2. ASSUME Progress
      PROVE  TypeOK'
  <2>1. /\ call \in 1..Len(Current.calls) /\ Len(Current.calls) \in Nat /\ step \in Nat
        BY <1>2, Place DEF Progress, Running
  <2>2. /\ step' \in Nat /\ call' \in Nat \ {0} /\ locals' \subseteq Objects
        /\ own' \subseteq Objects /\ device' \subseteq Objects /\ misused' \subseteq Objects
    <3>1. MadeNow \subseteq Objects /\ locals \subseteq Objects /\ own \subseteq Objects
            /\ device \subseteq Objects /\ misused \subseteq Objects
          BY <1>2, AdvanceCases DEF TypeOK
    <3>2. QED
          BY <1>2, <2>1, <3>1, AdvanceCases DEF Change
  <2>3. sets' \in 0..PoolSets
        BY <1>0, <1>2 DEF Progress, TypeOK
  <2>4. gpuQueue' \in Seq(Submissions)
    <3>1. CASE This.op = "submit"
      <4>1. Submission \in Submissions
            BY <1>2, <3>1, SubmissionType DEF Progress
      <4>2. QED
            BY <1>2, <3>1, <4>1, AppendProperties DEF Progress, TypeOK
    <3>2. QED
          BY <1>2, <3>1 DEF Progress, TypeOK
  <2>5. fence' \in BOOLEAN
        BY <1>2 DEF Progress, TypeOK
  <2>6. QED
        BY <1>2, <2>2, <2>3, <2>4, <2>5 DEF Progress, TypeOK, callVars, itemVars
<1>3. ASSUME Failure
      PROVE  TypeOK'
  <2>1. faulted' \in Seq({"call", "wait", "reset"}) /\ Len(faulted') <= MaxFailures
    <3>1. CASE faulted' = faulted
          BY <3>1 DEF TypeOK
    <3>2. ASSUME NEW name \in {"call", "wait", "reset"}, Fault(name)
          PROVE  faulted' \in Seq({"call", "wait", "reset"}) /\ Len(faulted') <= MaxFailures
          BY <1>0, <3>2, AppendProperties DEF Fault, TypeOK
    <3>3. QED
          BY <1>3, <3>1, <3>2 DEF Failure
  <2>2. /\ locals' = {} /\ own' \subseteq Objects /\ device' \subseteq Objects
        /\ misused' \subseteq Objects /\ step' \in Nat /\ call' \in Nat \ {0}
        BY <1>3 DEF Failure, GiveUp, Change, ReturnError, Lost, TypeOK
  <2>3. /\ batch' = batch /\ next' = next /\ start' = start /\ UNCHANGED itemVars
        /\ UNCHANGED <<sets, gpuVars>>
        /\ \/ busy' = busy /\ result' = result
           \/ busy' = FALSE /\ result' = "error"
        BY <1>3 DEF Failure, GiveUp, ReturnError, callVars
  <2>4. busy /\ item # 0
        BY <1>0, <1>3 DEF Failure, Running, TypeOK, Items
  <2>5. QED
        BY <2>1, <2>2, <2>3, <2>4 DEF TypeOK, itemVars, gpuVars
<1>4. ASSUME Finish
      PROVE  TypeOK'
  <2>1. /\ next \in 1..Len(batch) /\ item + (Len(batch) - next) <= MaxItems
        /\ busy /\ item \in Items /\ Len(batch) \in Nat /\ batch \in Seq(Kinds)
        BY <1>4 DEF Finish, PlaceInv, TypeOK
  <2>2. /\ own' = {} /\ device' \subseteq Objects /\ misused' \subseteq Objects
        /\ UNCHANGED <<batch, start, locals, sets, gpuVars, faulted>>
        BY <1>4 DEF Finish, Change, TypeOK
  <2>3. held' \in Seq(Items)
        BY <1>4, <2>1, AppendProperties DEF Finish, TypeOK
  <2>4. ASSUME next < Len(batch), next' = next + 1, BeginItem(batch[next + 1]),
               UNCHANGED <<busy, result>>
        PROVE  TypeOK'
    <3>1. batch[next + 1] \in Kinds
          BY <2>1, <2>4
    <3>2. item + 1 <= MaxItems
          BY <1>0, <2>1, <2>4 DEF Items
    <3>3. /\ item' = item + 1 /\ item' \in Items /\ kind' \in [Items -> Kinds \cup {"none"}]
          /\ kind'[item'] = batch[next + 1] /\ step' = 1 /\ call' = 1
          BY <2>4, <3>1, <3>2, BeginType
    <3>4. item' \in 0..MaxItems /\ item' # 0 /\ next' \in Nat
          BY <1>0, <2>1, <2>4, <3>3 DEF Items
    <3>5. QED
          BY <2>1, <2>2, <2>3, <2>4, <3>1, <3>3, <3>4 DEF TypeOK, gpuVars
  <2>5. ASSUME busy' = FALSE, result' = "ok", UNCHANGED <<next, item, kind, step, call>>
        PROVE  TypeOK'
    <3>1. item # 0
          BY <1>0, <2>1 DEF Items
    <3>2. QED
          BY <2>1, <2>2, <2>3, <2>5, <3>1 DEF TypeOK, gpuVars
  <2>6. QED
        BY <1>4, <2>4, <2>5 DEF Finish
<1>5. ASSUME GpuFinish
      PROVE  TypeOK'
  <2> DEFINE s == Head(gpuQueue)
  <2>1. s \in Submissions /\ Tail(gpuQueue) \in Seq(Submissions)
        BY <1>5, HeadTailProperties DEF GpuFinish, TypeOK
  <2>2. s.target \in Objects /\ s.target[1] \in Items /\ s.new \in Layouts
          /\ s.fenced \in BOOLEAN
        BY <2>1 DEF Submissions, Objects
  <2>3. layout' \in [Items -> Layouts]
        BY <1>5, <2>2 DEF GpuFinish, TypeOK
  <2>4. written' \subseteq Objects /\ fence' \in BOOLEAN
        BY <1>5, <2>2 DEF GpuFinish, TypeOK
  <2>5. UNCHANGED <<callVars, itemVars, placeVars, device, sets, misused, faulted>>
          /\ gpuQueue' = Tail(gpuQueue)
        BY <1>5 DEF GpuFinish
  <2>6. QED
        BY <2>1, <2>3, <2>4, <2>5 DEF TypeOK, callVars, itemVars, placeVars
<1>6. CASE UNCHANGED vars
      BY <1>6 DEF TypeOK, vars, callVars, itemVars, placeVars, gpuVars
<1>7. QED
      BY <1>1, <1>2, <1>3, <1>4, <1>5, <1>6, NextCases


LEMMA StepsOf ==
  ASSUME NEW k \in Kinds
  PROVE  /\ Len(Program[k]) \in Nat \ {0}
         /\ \A s \in 1..Len(Program[k]) :
              StepFacts(k, s) /\ WellMade(Program[k][s])
                /\ Len(Program[k][s].calls) \in Nat \ {0}
<1>1. KindFacts(k)
      BY Facts
<1>2. SetsAt(k) \in 1..Len(Program[k]) /\ Len(Program[k]) \in Nat
      BY <1>1, Programs DEF KindFacts, Kinds, MeshKinds
<1>3. ASSUME NEW s \in 1..Len(Program[k])
      PROVE  StepFacts(k, s) /\ WellMade(Program[k][s])
               /\ Len(Program[k][s].calls) \in Nat \ {0}
  <2>1. StepFacts(k, s)
        BY <1>1 DEF KindFacts
  <2>2. WellMade(Program[k][s])
        BY <2>1 DEF StepFacts
  <2>3. QED
        BY <2>1, <2>2 DEF WellMade
<1>4. QED
      BY <1>2, <1>3

\* An item has begun.
LEMMA Begun ==
  ASSUME TypeOK, NEW k \in Kinds, item + 1 <= MaxItems, BeginItem(k)
  PROVE  /\ Steps' = Program[k] /\ Current' = Program[k][1]
         /\ Len(Steps') \in Nat \ {0} /\ Len(Current'.calls) \in Nat \ {0}
         /\ Kind' = k
<1>1. kind'[item'] = k /\ step' = 1
      BY BeginType
<1>2. Steps' = Program[k] /\ Current' = Program[k][1] /\ Kind' = k
      BY <1>1 DEF Steps, Current, Kind
<1>3. Len(Program[k]) \in Nat \ {0} /\ 1 \in 1..Len(Program[k])
      BY StepsOf
<1>4. QED
      BY <1>2, <1>3, StepsOf

\* Where the function is after a step of it.
LEMMA PlaceNext ==
  ASSUME TypeOK, PlaceInv, [Next]_vars
  PROVE  PlaceInv'
<1>0. item \in Nat /\ Len(held) \in Nat /\ MaxItems \in Nat /\ start \in Nat
        /\ \A n \in DOMAIN held : held[n] \in Items /\ held[n] <= item /\ kind[held[n]] \in Kinds
      BY UploadAssumption DEF TypeOK, PlaceInv
<1>1. ASSUME NEW b \in Batches, Start(b)
      PROVE  PlaceInv'
  <2>1. b \in Seq(Kinds) /\ b # <<>>
        BY UploadAssumption
  <2>2. b[1] \in Kinds /\ Len(b) \in Nat \ {0} /\ 1 \in 1..Len(b)
        BY <2>1
  <2>3. item + 1 <= MaxItems /\ BeginItem(b[1])
        BY <1>0, <1>1, <2>2 DEF Start
  <2>4. /\ item' = item + 1 /\ kind'[item'] = b[1] /\ step' = 1 /\ call' = 1
        /\ \A i \in Items : i <= item => kind'[i] = kind[i]
        BY <2>2, <2>3, BeginType
  <2>5. Len(Steps') \in Nat \ {0} /\ Len(Current'.calls) \in Nat \ {0}
        BY <2>2, <2>3, Begun
  <2>6. /\ busy' /\ batch' = b /\ next' = 1 /\ start' = Len(held) /\ held' = held
        /\ item + Len(b) <= MaxItems
        BY <1>1 DEF Start
  <2>7. step' \in 1..(Len(Steps') + 1) /\ step' <= Len(Steps')
          /\ call' \in 1..Len(Current'.calls)
        BY <2>4, <2>5
  <2>8. \A n \in DOMAIN held' : held'[n] <= item' /\ kind'[held'[n]] \in Kinds
                                  /\ held'[n] # item'
    <3>1. TAKE n \in DOMAIN held'
    <3>2. held[n] \in Items /\ held[n] <= item /\ kind[held[n]] \in Kinds
          BY <1>0, <2>6
    <3>3. held[n] \in Nat
          BY <3>2 DEF Items
    <3>4. QED
          BY <1>0, <2>4, <2>6, <3>2, <3>3
  <2>9. start' <= Len(held') /\ next' \in 1..Len(batch') /\ kind'[item'] = batch'[next']
          /\ item' + (Len(batch') - next') <= MaxItems
        BY <1>0, <2>2, <2>4, <2>6
  <2>10. QED
        BY <2>6, <2>7, <2>8, <2>9 DEF PlaceInv
<1>2. ASSUME Progress
      PROVE  PlaceInv'
  <2>1. /\ item \in Items /\ Kind \in Kinds /\ Steps = Program[Kind] /\ Len(Steps) \in Nat
        /\ step \in 1..(Len(Steps) + 1) /\ step <= Len(Steps)
        /\ call \in 1..Len(Current.calls) /\ Len(Current.calls) \in Nat
        BY <1>2, Place DEF Progress, Running
  <2>2. /\ UNCHANGED <<busy, batch, next, start, item, kind, held>>
        /\ Steps' = Steps
        BY <1>2 DEF Progress, callVars, itemVars, Steps
  <2>3. /\ step' \in 1..(Len(Steps) + 1)
        /\ call' \in 1..(IF step' <= Len(Steps) THEN Len(Current'.calls) ELSE 1)
    <3>1. CASE call' = call + 1 /\ step' = step /\ call < Len(Current.calls)
      <4>1. Current' = Current
            BY <2>2, <3>1 DEF Current
      <4>2. QED
            BY <2>1, <3>1, <4>1
    <3>2. CASE call' = 1 /\ step' = step + 1
      <4>1. step' \in 1..(Len(Steps) + 1)
            BY <2>1, <3>2
      <4>2. CASE step' <= Len(Steps)
        <5>1. step' \in 1..Len(Program[Kind]) /\ Current' = Program[Kind][step']
              BY <2>1, <2>2, <4>1, <4>2 DEF Current
        <5>2. Len(Current'.calls) \in Nat \ {0}
              BY <2>1, <5>1, StepsOf
        <5>3. QED
              BY <3>2, <4>1, <4>2, <5>2
      <4>3. CASE ~(step' <= Len(Steps))
            BY <3>2, <4>1, <4>3
      <4>4. QED
            BY <4>2, <4>3
    <3>3. QED
          BY <1>2, <3>1, <3>2, AdvanceCases
  <2>4. QED
        BY <2>2, <2>3 DEF PlaceInv
<1>3. ASSUME Failure
      PROVE  PlaceInv'
  <2>1. /\ item \in Items /\ Kind \in Kinds /\ Steps = Program[Kind] /\ Len(Steps) \in Nat
        /\ step \in 1..(Len(Steps) + 1) /\ step <= Len(Steps) /\ busy
        BY <1>3, Place DEF Failure, Running
  <2>2. UNCHANGED <<batch, next, start, item, kind, held>> /\ Steps' = Steps
        BY <1>3 DEF Failure, GiveUp, ReturnError, callVars, itemVars, Steps
  <2>3. CASE busy' = FALSE
        BY <2>2, <2>3 DEF PlaceInv
  <2>4. CASE busy' = busy /\ step' = step + 1 /\ call' = 1
    <3>1. step' \in 1..(Len(Steps) + 1)
          BY <2>1, <2>4
    <3>2. call' \in 1..(IF step' <= Len(Steps) THEN Len(Current'.calls) ELSE 1)
      <4>1. CASE step' <= Len(Steps)
        <5>1. step' \in 1..Len(Program[Kind]) /\ Current' = Program[Kind][step']
              BY <2>1, <2>2, <3>1, <4>1 DEF Current
        <5>2. Len(Current'.calls) \in Nat \ {0}
              BY <2>1, <5>1, StepsOf
        <5>3. QED
              BY <2>4, <4>1, <5>2
      <4>2. QED
            BY <2>4, <4>1
    <3>3. QED
          BY <2>2, <2>4, <3>1, <3>2 DEF PlaceInv
  <2>5. QED
        BY <1>3, <2>3, <2>4 DEF Failure, GiveUp, ReturnError, callVars
<1>4. ASSUME Finish
      PROVE  PlaceInv'
  <2>1. /\ busy /\ next \in 1..Len(batch) /\ item + (Len(batch) - next) <= MaxItems
        /\ item \in Items /\ kind[item] \in Kinds /\ Len(batch) \in Nat /\ batch \in Seq(Kinds)
        BY <1>4 DEF Finish, PlaceInv, TypeOK
  <2>2. /\ held' = Append(held, item) /\ UNCHANGED <<batch, start>>
        BY <1>4 DEF Finish
  <2>3. /\ Len(held') = Len(held) + 1 /\ DOMAIN held' = 1..(Len(held) + 1)
        /\ \A n \in 1..Len(held) : held'[n] = held[n]
        /\ held'[Len(held) + 1] = item /\ DOMAIN held = 1..Len(held)
        BY <2>1, <2>2, AppendProperties DEF TypeOK
  <2>4. \A n \in DOMAIN held' : held'[n] \in Items /\ held'[n] <= item /\ kind[held'[n]] \in Kinds
    <3>1. TAKE n \in DOMAIN held'
    <3>2. CASE n = Len(held) + 1
          BY <1>0, <2>1, <2>3, <3>2
    <3>3. CASE n # Len(held) + 1
          BY <1>0, <2>3, <3>3
    <3>4. QED
          BY <3>2, <3>3
  <2>5. start' <= Len(held')
        BY <1>0, <2>2, <2>3 DEF PlaceInv
  <2>6. CASE next < Len(batch) /\ next' = next + 1 /\ BeginItem(batch[next + 1])
               /\ UNCHANGED <<busy, result>>
    <3>1. batch[next + 1] \in Kinds /\ item + 1 <= MaxItems
          BY <1>0, <2>1, <2>6
    <3>2. /\ item' = item + 1 /\ kind'[item'] = batch[next + 1] /\ step' = 1 /\ call' = 1
          /\ \A i \in Items : i <= item => kind'[i] = kind[i]
          BY <2>6, <3>1, BeginType
    <3>3. Len(Steps') \in Nat \ {0} /\ Len(Current'.calls) \in Nat \ {0}
          BY <2>6, <3>1, Begun
    <3>4. step' \in 1..(Len(Steps') + 1) /\ step' <= Len(Steps')
            /\ call' \in 1..Len(Current'.calls)
          BY <3>2, <3>3
    <3>5. next' \in 1..Len(batch) /\ next' = next + 1
            /\ item' + (Len(batch) - next') <= MaxItems
          BY <1>0, <2>1, <2>6, <3>2
    <3>6. \A n \in DOMAIN held' : held'[n] <= item' /\ kind'[held'[n]] \in Kinds
                                    /\ held'[n] # item'
      <4>1. TAKE n \in DOMAIN held'
      <4>2. held'[n] \in Items /\ held'[n] <= item /\ kind[held'[n]] \in Kinds
            BY <2>4
      <4>3. held'[n] \in Nat
            BY <4>2 DEF Items
      <4>4. QED
            BY <1>0, <3>2, <4>2, <4>3
    <3>7. QED
          BY <2>2, <2>5, <3>2, <3>4, <3>5, <3>6 DEF PlaceInv
  <2>7. CASE busy' = FALSE /\ UNCHANGED <<next, item, kind, step, call>>
        BY <2>4, <2>5, <2>7 DEF PlaceInv
  <2>8. QED
        BY <1>4, <2>6, <2>7 DEF Finish
<1>5. CASE GpuFinish
      BY <1>5 DEF GpuFinish, PlaceInv, callVars, itemVars, placeVars, Steps, Current
<1>6. CASE UNCHANGED vars
      BY <1>6 DEF PlaceInv, vars, callVars, itemVars, placeVars, Steps, Current
<1>7. QED
      BY <1>1, <1>2, <1>3, <1>4, <1>5, <1>6, NextCases

-----------------------------------------------------------------------------
(* What exists.                                                            *)

LEMMA HeldIs ==
  ASSUME TypeOK, PlaceInv
  PROVE  /\ \A i \in Held : i \in Items /\ i <= item /\ kind[i] \in Kinds
         /\ busy => item \notin Held
         /\ busy => \A n : <<item, n>> \notin HeldObjects
<1>1. \A i \in Held : i \in Items /\ i <= item /\ kind[i] \in Kinds
      BY DEF Held, TypeOK, PlaceInv
<1>2. busy => item \notin Held
      BY DEF Held, PlaceInv
<1>3. ASSUME NEW n, <<item, n>> \in HeldObjects
      PROVE  item \in Held
  <2>1. PICK i \in Held : <<item, n>> \in {i} \X Members(kind[i])
        BY <1>3 DEF HeldObjects
  <2>2. QED
        BY <2>1
<1>4. QED
      BY <1>1, <1>2, <1>3

LEMMA HeldStays ==
  ASSUME TypeOK, PlaceInv, held' = held, \A i \in Items : i <= item => kind'[i] = kind[i]
  PROVE  Held' = Held /\ HeldObjects' = HeldObjects
<1>1. Held' = Held
      BY DEF Held
<1>2. \A i \in Held : kind'[i] = kind[i]
      BY HeldIs
<1>3. QED
      BY <1>1, <1>2 DEF HeldObjects

LEMMA HeldGrows ==
  ASSUME TypeOK, PlaceInv, busy, held' = Append(held, item),
         \A i \in Items : i <= item => kind'[i] = kind[i]
  PROVE  /\ Held' = Held \cup {item}
         /\ HeldObjects' = HeldObjects \cup {item} \X Members(Kind)
<1>1. item \in Items /\ held \in Seq(Items)
      BY DEF TypeOK
<1>2. /\ DOMAIN held = 1..Len(held) /\ DOMAIN held' = 1..(Len(held) + 1) /\ Len(held) \in Nat
      /\ \A n \in 1..Len(held) : held'[n] = held[n]
      /\ held'[Len(held) + 1] = item
      BY <1>1, AppendProperties
<1>3. Held' = Held \cup {item}
  <2>1. DOMAIN held' = DOMAIN held \cup {Len(held) + 1}
        BY <1>2
  <2>2. QED
        BY <1>2, <2>1 DEF Held
<1>4. \A i \in Held : kind'[i] = kind[i]
      BY HeldIs
<1>5. kind'[item] = kind[item]
  <2>1. item \in Nat
        BY DEF TypeOK
  <2>2. QED
        BY <1>1, <2>1
<1>6. QED
      BY <1>3, <1>4, <1>5 DEF HeldObjects, Kind

\* The objects of the step, with what the call makes.
LEMMA MakingNow ==
  ASSUME TypeOK, PlaceInv, ObjectInv, Progress
  PROVE  /\ own = {item} \X Kept(Kind, step)
         /\ locals \cup MadeNow = {item} \X Made(Current, call + 1)
         /\ {Object(n) : n \in Current.keeps} = {item} \X Current.keeps
         /\ device = HeldObjects \cup own \cup locals
<1>1. Running /\ busy /\ call \in Nat \ {0} /\ Running
      BY DEF Progress, Running, TypeOK
<1>2. own = {item} \X Kept(Kind, step) /\ locals = {item} \X Made(Current, call)
        /\ device = HeldObjects \cup own \cup locals
      BY <1>1 DEF ObjectInv, Kind
<1>3. Made(Current, call + 1) =
        Made(Current, call) \cup IF This.op \in Making THEN {This.name} ELSE {}
      BY <1>1, MadeGrows DEF This
<1>4. locals \cup MadeNow = {item} \X Made(Current, call + 1)
      BY <1>2, <1>3 DEF MadeNow, Object
<1>5. {Object(n) : n \in Current.keeps} = {item} \X Current.keeps
      BY DEF Object
<1>6. QED
      BY <1>2, <1>4, <1>5

LEMMA ObjectInit == Init => ObjectInv
BY DEF Init, ObjectInv, HeldObjects, Held, Running

LEMMA ObjectNext ==
  ASSUME TypeOK, PlaceInv, ObjectInv, [Next]_vars
  PROVE  ObjectInv'
<1>0. TypeOK' /\ PlaceInv'
      BY TypeNext, PlaceNext
<1>1. ASSUME NEW b \in Batches, Start(b)
      PROVE  ObjectInv'
  <2>1. b[1] \in Kinds /\ Len(b) \in Nat \ {0} /\ item \in Nat /\ MaxItems \in Nat
        BY UploadAssumption DEF TypeOK
  <2>2. item + 1 <= MaxItems /\ BeginItem(b[1])
        BY <1>1, <2>1 DEF Start
  <2>3. /\ \A i \in Items : i <= item => kind'[i] = kind[i]
        /\ kind'[item'] = b[1] /\ step' = 1 /\ call' = 1
        BY <2>1, <2>2, BeginType
  <2>4. ~busy /\ busy' /\ UNCHANGED <<held, locals, own, device>>
        BY <1>1 DEF Start
  <2>5. own = {} /\ locals = {} /\ device = HeldObjects
        BY <2>4 DEF ObjectInv, Running
  <2>6. HeldObjects' = HeldObjects
        BY <2>3, <2>4, HeldStays
  <2>7. Kept(b[1], 1) = {} /\ Made(Current', 1) = {}
    <3>1. 1 \in Nat \ {0}
          OBVIOUS
    <3>2. Made(Current', 1) = {}
          BY <3>1, MadeGrows
    <3>3. QED
          BY <2>1, <3>2, Facts DEF KindFacts
  <2>8. {item'} \X {} = {}
        OBVIOUS
  <2>9. own' = {item'} \X Kept(kind'[item'], step')
        BY <2>3, <2>4, <2>5, <2>7, <2>8
  <2>10. locals' = {item'} \X Made(Current', call') /\ locals' = {}
        BY <2>3, <2>4, <2>5, <2>7, <2>8
  <2>11. device' = HeldObjects' \cup own' \cup locals'
        BY <2>4, <2>5, <2>6
  <2>12. QED
        BY <2>4, <2>9, <2>10, <2>11 DEF ObjectInv
<1>2. ASSUME Progress
      PROVE  ObjectInv'
  <2>1. /\ Kind \in Kinds /\ Steps = Program[Kind] /\ Current = Program[Kind][step]
        /\ call \in 1..Len(Current.calls) /\ Len(Current.calls) \in Nat
        /\ step \in 1..Len(Program[Kind]) /\ WellMade(Current) /\ busy
        BY <1>2, Place DEF Progress, Running
  <2>2. /\ UNCHANGED <<busy, item, kind, held>> /\ Steps' = Steps
        BY <1>2 DEF Progress, callVars, itemVars, Steps
  <2>3. HeldObjects' = HeldObjects
        BY <2>2, HeldStays
  <2> DEFINE all == {item} \X Made(Current, call + 1)
             kept == {item} \X Current.keeps
  <2>4. own = {item} \X Kept(Kind, step) /\ locals \cup MadeNow = all
          /\ {Object(n) : n \in Current.keeps} = kept
          /\ device = HeldObjects \cup own \cup locals
        BY <1>2, MakingNow
  <2>5. CASE /\ call < Len(Current.calls) /\ call' = call + 1 /\ step' = step
             /\ locals' = locals \cup MadeNow /\ own' = own /\ device' = device \cup MadeNow
    <3>1. Current' = Current /\ Running' /\ busy'
          BY <1>2, <2>2, <2>5 DEF Current, Running, Progress
    <3>2. own' = {item'} \X Kept(kind'[item'], step')
          BY <2>2, <2>4, <2>5 DEF Kind
    <3>3. locals' = {item'} \X Made(Current', call')
          BY <2>2, <2>4, <2>5, <3>1
    <3>4. device' = HeldObjects' \cup own' \cup locals'
          BY <2>3, <2>4, <2>5
    <3>5. QED
          BY <3>1, <3>2, <3>3, <3>4 DEF ObjectInv
  <2>6. CASE /\ call = Len(Current.calls) /\ call' = 1 /\ step' = step + 1 /\ locals' = {}
             /\ own' = own \cup ((locals \cup MadeNow) \cap {Object(n) : n \in Current.keeps})
             /\ Change(MadeNow, (locals \cup MadeNow) \ {Object(n) : n \in Current.keeps})
    <3>1. all = {item} \X AllMade(Current) /\ Current.keeps \subseteq AllMade(Current)
          BY <2>1, <2>6 DEF AllMade, Last, WellMade
    <3>2. /\ Kept(Kind, step + 1) = Kept(Kind, step) \cup Current.keeps
          /\ Kept(Kind, step) \cap AllMade(Current) = {}
          BY <2>1, KeptGrows
    <3>3. own' = {item} \X Kept(Kind, step + 1)
          BY <2>4, <2>6, <3>1, <3>2
    <3>4. Made(Current', 1) = {} /\ {item} \X {} = {}
      <4>1. 1 \in Nat \ {0}
            OBVIOUS
      <4>2. QED
            BY <4>1, MadeGrows
    <3>5. device' = HeldObjects \cup own'
      <4>1. device' = (device \cup MadeNow) \ (all \ kept)
            BY <2>4, <2>6 DEF Change
      <4>2. device \cup MadeNow = HeldObjects \cup own \cup all
            BY <2>4
      <4>3. HeldObjects \cap all = {}
            BY <2>1, HeldIs
      <4>4. own \cap all = {}
            BY <2>4, <3>1, <3>2
      <4>5. own' = own \cup (all \cap kept)
            BY <2>4, <2>6
      <4> HIDE DEF all, kept
      <4>6. QED
            BY <4>1, <4>2, <4>3, <4>4, <4>5
    <3>6. own' = {item'} \X Kept(kind'[item'], step')
          BY <2>2, <2>6, <3>3 DEF Kind
    <3>7. locals' = {} /\ {item'} \X Made(Current', call') = {}
          BY <2>2, <2>6, <3>4
    <3>8. device' = HeldObjects' \cup own' \cup locals'
          BY <2>3, <3>5, <3>7
    <3>9. QED
          BY <2>1, <2>2, <3>6, <3>7, <3>8 DEF ObjectInv
  <2>7. QED
        BY <1>2, <2>5, <2>6, AdvanceCases
<1>3. ASSUME Failure
      PROVE  ObjectInv'
  <2>1. /\ Kind \in Kinds /\ Steps = Program[Kind] /\ Current = Program[Kind][step]
        /\ step \in 1..Len(Program[Kind]) /\ WellMade(Current) /\ busy
        BY <1>3, Place DEF Failure, Running
  <2>2. UNCHANGED <<item, kind, held>>
        BY <1>3 DEF Failure, GiveUp, ReturnError, itemVars
  <2>3. HeldObjects' = HeldObjects
        BY <2>2, HeldStays
  <2>4. own = {item} \X Kept(Kind, step) /\ locals = {item} \X Made(Current, call)
          /\ device = HeldObjects \cup own \cup locals
        BY <1>3 DEF ObjectInv, Failure, Running, Kind
  <2>5. HeldObjects \cap (own \cup locals) = {}
        BY <2>1, <2>4, HeldIs
  <2>6. CASE /\ Current.ignored /\ step' = step + 1 /\ call' = 1 /\ locals' = {} /\ own' = own
             /\ device' = (device \cup {}) \ locals /\ busy' = busy
    <3>1. Current.keeps = {}
          BY <2>1, <2>6 DEF WellMade
    <3>2. Kept(Kind, step + 1) = Kept(Kind, step) /\ Kept(Kind, step) \cap AllMade(Current) = {}
          BY <2>1, <3>1, KeptGrows
    <3>3. Made(Current, call) \subseteq AllMade(Current)
      <4>1. call \in 1..Len(Current.calls) /\ Len(Current.calls) \in Nat
            BY <1>3, Place DEF Failure, Running
      <4>2. 1..(call - 1) \subseteq 1..(Last(Current) - 1)
            BY <4>1 DEF Last
      <4>3. QED
            BY <4>2 DEF AllMade, Made
    <3>4. own \cap locals = {}
          BY <2>4, <3>2, <3>3
    <3>5. device' = HeldObjects \cup own
          BY <2>4, <2>5, <2>6, <3>4
    <3>6. own' = {item'} \X Kept(kind'[item'], step')
          BY <2>2, <2>4, <2>6, <3>2 DEF Kind
    <3>7. Made(Current', 1) = {} /\ {item'} \X {} = {}
      <4>1. 1 \in Nat \ {0}
            OBVIOUS
      <4>2. QED
            BY <4>1, MadeGrows
    <3>8. locals' = {} /\ {item'} \X Made(Current', call') = {}
          BY <2>6, <3>7
    <3>9. device' = HeldObjects' \cup own' \cup locals'
          BY <2>3, <2>6, <3>5
    <3>10. QED
          BY <2>1, <2>6, <3>6, <3>8, <3>9 DEF ObjectInv
  <2>7. CASE /\ busy' = FALSE /\ locals' = {} /\ own' = {}
             /\ device' = (device \cup {}) \ Lost
    <3>1. device' = HeldObjects
          BY <2>4, <2>5, <2>7 DEF Lost
    <3>2. QED
          BY <2>3, <2>7, <3>1 DEF ObjectInv, Running
  <2>8. QED
        BY <1>3, <2>6, <2>7 DEF Failure, GiveUp, Change, ReturnError, callVars
<1>4. ASSUME Finish
      PROVE  ObjectInv'
  <2>1. /\ Kind \in Kinds /\ KindFacts(Kind) /\ Steps = Program[Kind] /\ Len(Steps) \in Nat
        /\ step \in 1..(Len(Steps) + 1) /\ busy /\ step > Len(Steps) /\ item \in Items
        BY <1>4, Place DEF Finish
  <2>2. step = Len(Program[Kind]) + 1
        BY <2>1
  <2>3. own = {item} \X (Members(Kind) \cup Shaders) /\ locals = {}
          /\ device = HeldObjects \cup own
    <3>1. Kept(Kind, step) = Members(Kind) \cup Shaders
          BY <2>1, <2>2 DEF KindFacts
    <3>2. ~Running
          BY <2>1, <2>2 DEF Running
    <3>3. QED
          BY <2>1, <3>1, <3>2 DEF ObjectInv, Kind
  <2>4. held' = Append(held, item) /\ own' = {} /\ locals' = locals
          /\ device' = (device \cup {}) \ (own \cap {Object(n) : n \in Shaders})
        BY <1>4 DEF Finish, Change
  <2>5. \A i \in Items : i <= item => kind'[i] = kind[i]
    <3>1. CASE next < Len(batch) /\ BeginItem(batch[next + 1])
      <4>1. batch[next + 1] \in Kinds /\ item + 1 <= MaxItems
        <5>1. next \in 1..Len(batch) /\ item + (Len(batch) - next) <= MaxItems
                /\ batch \in Seq(Kinds) /\ item \in Nat /\ MaxItems \in Nat /\ Len(batch) \in Nat
              BY <2>1, UploadAssumption DEF PlaceInv, TypeOK
        <5>2. QED
              BY <3>1, <5>1
      <4>2. QED
            BY <3>1, <4>1, BeginType
    <3>2. CASE kind' = kind
          BY <3>2
    <3>3. QED
          BY <1>4, <3>1, <3>2 DEF Finish
  <2>6. HeldObjects' = HeldObjects \cup {item} \X Members(Kind)
        BY <2>1, <2>4, <2>5, HeldGrows
  <2>7. device' = HeldObjects'
    <3>1. Members(Kind) \cap Shaders = {}
          BY <2>1 DEF KindFacts
    <3>2. own \cap {Object(n) : n \in Shaders} = {item} \X Shaders
          BY <2>3 DEF Object
    <3>3. HeldObjects \cap ({item} \X Shaders) = {}
          BY <2>1, HeldIs
    <3>4. ({item} \X Members(Kind)) \cap ({item} \X Shaders) = {}
          BY <3>1
    <3>5. own = ({item} \X Members(Kind)) \cup ({item} \X Shaders)
          BY <2>3
    <3>6. QED
          BY <2>3, <2>4, <2>6, <3>2, <3>3, <3>4, <3>5
  <2>8. CASE busy' = FALSE
        BY <2>3, <2>4, <2>7, <2>8 DEF ObjectInv, Running
  <2>9. CASE busy' = busy /\ next < Len(batch) /\ BeginItem(batch[next + 1])
    <3>1. step' = 1 /\ call' = 1
          BY <2>9 DEF BeginItem
    <3>2. kind'[item'] \in Kinds
          BY <1>0, <2>1, <2>9 DEF TypeOK
    <3>3. Kept(kind'[item'], 1) = {} /\ Made(Current', 1) = {} /\ {item'} \X {} = {}
      <4>1. 1 \in Nat \ {0}
            OBVIOUS
      <4>2. QED
            BY <3>2, <4>1, MadeGrows, Facts DEF KindFacts
    <3>4. own' = {item'} \X Kept(kind'[item'], step')
            /\ locals' = {} /\ {item'} \X Made(Current', call') = {}
          BY <2>3, <2>4, <3>1, <3>3
    <3>5. device' = HeldObjects' \cup own' \cup locals'
          BY <2>4, <2>7, <3>4
    <3>6. QED
          BY <2>1, <2>9, <3>4, <3>5 DEF ObjectInv
  <2>10. QED
        BY <1>4, <2>8, <2>9 DEF Finish
<1>5. ASSUME UNCHANGED <<callVars, itemVars, placeVars, device>>
      PROVE  ObjectInv'
      BY <1>5 DEF ObjectInv, HeldObjects, Held, Running, Steps, Current, callVars, itemVars,
                  placeVars
<1>6. QED
      BY <1>1, <1>2, <1>3, <1>4, <1>5, NextCases DEF GpuFinish, vars

-----------------------------------------------------------------------------
(* What the call has made of its argument, and the sets it has taken.      *)

LEMMA BatchInit == Init => BatchInv
<1> SUFFICES ASSUME Init PROVE BatchInv
    OBVIOUS
<1>1. batch = <<>> /\ held = <<>> /\ start = 0 /\ ~busy /\ result = "none"
      BY DEF Init
<1>2. MadeNo = 0 /\ Len(batch) = 0
      BY <1>1 DEF MadeNo
<1>3. QED
      BY <1>1, <1>2 DEF BatchInv

LEMMA BatchNext ==
  ASSUME TypeOK, PlaceInv, BatchInv, [Next]_vars
  PROVE  BatchInv'
<1>0. /\ item \in Nat /\ Len(held) \in Nat /\ MaxItems \in Nat /\ start \in Nat
      /\ start <= Len(held) /\ DOMAIN held = 1..Len(held)
      /\ \A n \in DOMAIN held : held[n] \in Items /\ held[n] <= item
      BY UploadAssumption DEF TypeOK, PlaceInv
<1>1. MadeNo \in Nat
      BY <1>0 DEF MadeNo
<1>2. ASSUME NEW b \in Batches, Start(b)
      PROVE  BatchInv'
  <2>1. b \in Seq(Kinds) /\ b # <<>>
        BY UploadAssumption
  <2>2. busy' /\ batch' = b /\ next' = 1 /\ start' = Len(held) /\ held' = held
        BY <1>2 DEF Start
  <2>3. MadeNo' = 0 /\ Len(batch') \in Nat
        BY <1>0, <2>1, <2>2 DEF MadeNo
  <2>4. QED
        BY <2>2, <2>3 DEF BatchInv
<1>3. ASSUME UNCHANGED <<callVars, itemVars>>
      PROVE  BatchInv'
      BY <1>3 DEF BatchInv, MadeNo, callVars, itemVars
<1>4. ASSUME Failure, ReturnError
      PROVE  BatchInv'
  <2>1. UNCHANGED <<batch, next, start, item, kind, held>> /\ ~busy' /\ result' = "error" /\ busy
        BY <1>4 DEF ReturnError, itemVars, Failure, Running
  <2>2. next \in 1..Len(batch) /\ Len(batch) \in Nat
        BY <2>1 DEF PlaceInv, TypeOK
  <2>3. MadeNo' = MadeNo /\ MadeNo = next - 1
        BY <2>1 DEF MadeNo, BatchInv
  <2>4. QED
        BY <2>1, <2>2, <2>3 DEF BatchInv
<1>5. ASSUME Finish
      PROVE  BatchInv'
  <2>1. /\ busy /\ next \in 1..Len(batch) /\ item + (Len(batch) - next) <= MaxItems
        /\ item \in Items /\ Len(batch) \in Nat /\ batch \in Seq(Kinds)
        /\ kind[item] = batch[next]
        BY <1>5 DEF Finish, PlaceInv, TypeOK
  <2>2. held' = Append(held, item) /\ UNCHANGED <<batch, start>>
        BY <1>5 DEF Finish
  <2>3. /\ Len(held') = Len(held) + 1
        /\ \A n \in 1..Len(held) : held'[n] = held[n]
        /\ held'[Len(held) + 1] = item
        BY <2>1, <2>2, AppendProperties DEF TypeOK
  <2>4. MadeNo = next - 1 /\ MadeNo' = next
        BY <1>0, <2>1, <2>2, <2>3 DEF BatchInv, MadeNo
  <2>5. \A i \in Items : i <= item => kind'[i] = kind[i]
    <3>1. CASE next < Len(batch) /\ BeginItem(batch[next + 1])
      <4>1. batch[next + 1] \in Kinds /\ item + 1 <= MaxItems
            BY <1>0, <2>1, <3>1
      <4>2. QED
            BY <3>1, <4>1, BeginType
    <3>2. CASE kind' = kind
          BY <3>2
    <3>3. QED
          BY <1>5, <3>1, <3>2 DEF Finish
  <2>6. \A n \in 1..MadeNo' : kind'[held'[start' + n]] = batch'[n]
    <3>1. TAKE n \in 1..MadeNo'
    <3>2. CASE n = next
      <4>1. start' + n = Len(held) + 1
            BY <1>0, <2>2, <2>4, <3>2 DEF MadeNo
      <4>2. kind'[item] = kind[item]
            BY <1>0, <2>1, <2>5
      <4>3. QED
            BY <2>1, <2>2, <2>3, <3>2, <4>1, <4>2
    <3>3. CASE n # next
      <4>1. n \in 1..MadeNo
            BY <2>1, <2>4, <3>3
      <4>2. start + n \in 1..Len(held)
            BY <1>0, <4>1 DEF MadeNo
      <4>3. held'[start' + n] = held[start + n] /\ held[start + n] \in Items
              /\ held[start + n] <= item
            BY <1>0, <2>2, <2>3, <4>2
      <4>4. kind[held[start + n]] = batch[n]
            BY <4>1 DEF BatchInv
      <4>5. QED
            BY <2>2, <2>5, <4>3, <4>4
    <3>4. QED
          BY <3>2, <3>3
  <2>7. CASE busy' = FALSE /\ result' = "ok" /\ next = Len(batch)
    <3>1. MadeNo' <= Len(batch') /\ MadeNo' = Len(batch') /\ ~busy' /\ result' # "error"
          BY <2>1, <2>2, <2>4, <2>7
    <3>2. QED
          BY <2>6, <3>1, Zenon DEF BatchInv
  <2>8. CASE busy' = busy /\ next' = next + 1 /\ next < Len(batch)
    <3>1. MadeNo' <= Len(batch') /\ MadeNo' = next' - 1 /\ busy'
          BY <2>1, <2>2, <2>4, <2>8
    <3>2. QED
          BY <2>6, <3>1, Zenon DEF BatchInv
  <2>9. QED
        BY <1>5, <2>7, <2>8 DEF Finish
<1>6. QED
      BY <1>2, <1>3, <1>4, <1>5, NextCases
      DEF Progress, Failure, GiveUp, GpuFinish, vars, callVars, itemVars

LEMMA SetsInit == Init => SetsInv
<1> SUFFICES ASSUME Init PROVE SetsInv
    OBVIOUS
<1>1. held = <<>> /\ faulted = <<>> /\ sets = 0 /\ ~busy
      BY DEF Init
<1>2. Len(held) = 0 /\ Len(faulted) = 0 /\ SetsOfThis = 0
      BY <1>1 DEF SetsOfThis
<1>3. QED
      BY <1>1, <1>2 DEF SetsInv

LEMMA SetsNext ==
  ASSUME TypeOK, PlaceInv, SetsInv, [Next]_vars
  PROVE  SetsInv'
<1>0. /\ Len(held) \in Nat /\ Len(faulted) \in Nat /\ sets \in Nat /\ step \in Nat
      /\ \A k : SetsAt(k) \in Nat /\ SetsAt(k) >= 1
      BY UploadAssumption DEF TypeOK, SetsAt
<1>1. ASSUME NEW b \in Batches, Start(b)
      PROVE  SetsInv'
  <2>1. step' = 1 /\ UNCHANGED <<held, sets, faulted>> /\ ~busy
        BY <1>1 DEF Start, BeginItem
  <2>2. SetsOfThis' = 0 /\ SetsOfThis = 0
        BY <1>0, <2>1 DEF SetsOfThis
  <2>3. QED
        BY <2>1, <2>2 DEF SetsInv
<1>2. ASSUME Progress
      PROVE  SetsInv'
  <2>1. /\ UNCHANGED <<busy, item, kind, held, faulted>> /\ busy
        /\ sets' = IF This.op = "allocate" THEN sets + 1 ELSE sets
        BY <1>2 DEF Progress, callVars, itemVars, Running
  <2>2. /\ StepFacts(Kind, step) /\ Current = Program[Kind][step]
        /\ call \in 1..Len(Current.calls) /\ Len(Current.calls) \in Nat
        BY <1>2, Place DEF Progress, Running
  <2>3. This.op = "allocate" <=> step = SetsAt(Kind) /\ call = Len(Current.calls)
        BY <2>2 DEF StepFacts, This
  <2>4. CASE call < Len(Current.calls) /\ step' = step
    <3>1. SetsOfThis' = SetsOfThis /\ This.op # "allocate"
          BY <2>1, <2>2, <2>3, <2>4 DEF SetsOfThis
    <3>2. QED
          BY <2>1, <3>1 DEF SetsInv
  <2>5. CASE call = Len(Current.calls) /\ step' = step + 1
    <3>1. SetsOfThis' = IF step >= SetsAt(Kind) THEN 1 ELSE 0
          BY <1>0, <2>1, <2>5 DEF SetsOfThis, Kind
    <3>2. SetsOfThis = IF step > SetsAt(Kind) THEN 1 ELSE 0
          BY <2>1 DEF SetsOfThis, Kind
    <3>3. QED
          BY <1>0, <2>1, <2>3, <2>5, <3>1, <3>2 DEF SetsInv
  <2>6. QED
        BY <1>2, <2>4, <2>5, AdvanceCases
<1>3. ASSUME Failure
      PROVE  SetsInv'
  <2>1. /\ UNCHANGED <<item, kind, held, sets>> /\ busy
        BY <1>3 DEF Failure, GiveUp, ReturnError, itemVars, Running
  <2>2. /\ StepFacts(Kind, step) /\ Current = Program[Kind][step]
        /\ call \in 1..Len(Current.calls) /\ Len(Current.calls) \in Nat
        BY <1>3, Place DEF Failure, Running
  <2>3. This.op = "allocate" => step = SetsAt(Kind)
        BY <2>2 DEF StepFacts, This
  <2>4. \/ faulted' = faulted /\ This.op = "allocate"
        \/ Len(faulted') = Len(faulted) + 1
    <3>1. ASSUME NEW name \in {"call", "wait", "reset"}, Fault(name)
          PROVE  Len(faulted') = Len(faulted) + 1
          BY <3>1, AppendProperties DEF Fault, TypeOK
    <3>2. QED
          BY <1>3, <3>1 DEF Failure
  <2>5. CASE busy' = busy /\ step' = step + 1 /\ Current.ignored
    <3>1. step > SetsAt(Kind)
          BY <2>2, <2>5 DEF StepFacts
    <3>2. SetsOfThis = 1 /\ SetsOfThis' = 1
          BY <1>0, <2>1, <2>5, <3>1 DEF SetsOfThis, Kind
    <3>3. QED
          BY <1>0, <2>1, <2>3, <2>4, <3>1, <3>2 DEF SetsInv
  <2>6. CASE busy' = FALSE
    <3>1. SetsOfThis' = 0 /\ SetsOfThis \in {0, 1}
            /\ (step = SetsAt(Kind) => SetsOfThis = 0)
          BY <1>0, <2>6 DEF SetsOfThis, Kind
    <3>2. QED
          BY <1>0, <2>1, <2>3, <2>4, <3>1 DEF SetsInv
  <2>7. QED
        BY <1>3, <2>5, <2>6 DEF Failure, GiveUp, ReturnError, callVars
<1>4. ASSUME Finish
      PROVE  SetsInv'
  <2>1. /\ busy /\ step = Len(Program[Kind]) + 1 /\ SetsAt(Kind) \in 1..Len(Program[Kind])
        /\ UNCHANGED <<sets, faulted>> /\ Len(Program[Kind]) \in Nat
        BY <1>4, Place DEF Finish, KindFacts
  <2>2. SetsOfThis = 1
        BY <2>1 DEF SetsOfThis, Kind
  <2>3. Len(held') = Len(held) + 1
        BY <1>4, <2>1, AppendProperties DEF Finish, TypeOK
  <2>4. SetsOfThis' = 0
    <3>1. ~busy' \/ step' = 1
          BY <1>4 DEF Finish, BeginItem
    <3>2. ~(1 > SetsAt(kind'[item']))
          BY <1>0
    <3>3. QED
          BY <3>1, <3>2 DEF SetsOfThis
  <2>5. QED
        BY <1>0, <2>1, <2>2, <2>3, <2>4 DEF SetsInv
<1>5. ASSUME UNCHANGED <<callVars, itemVars, placeVars, sets, faulted>>
      PROVE  SetsInv'
      BY <1>5 DEF SetsInv, SetsOfThis, callVars, itemVars, placeVars
<1>6. QED
      BY <1>1, <1>2, <1>3, <1>4, <1>5, NextCases DEF GpuFinish, vars

-----------------------------------------------------------------------------
(* The queue and the fence.                                                *)

LEMMA FenceStaysLost ==
  ASSUME TypeOK, [Next]_vars
  PROVE  /\ FenceLost => FenceLost'
         /\ \A name \in {"wait", "reset"} : Fault(name) => FenceLost'
<1>1. ASSUME NEW name \in {"call", "wait", "reset"}, Fault(name)
      PROVE  /\ FenceLost => FenceLost'
             /\ name # "call" => FenceLost'
  <2>1. /\ DOMAIN faulted' = 1..(Len(faulted) + 1) /\ DOMAIN faulted = 1..Len(faulted)
        /\ Len(faulted) \in Nat
        /\ \A n \in 1..Len(faulted) : faulted'[n] = faulted[n]
        /\ faulted'[Len(faulted) + 1] = name
        BY <1>1, AppendProperties DEF Fault, TypeOK
  <2>2. DOMAIN faulted \subseteq DOMAIN faulted' /\ Len(faulted) + 1 \in DOMAIN faulted'
        BY <2>1
  <2>3. QED
        BY <2>1, <2>2 DEF FenceLost
<1>2. ASSUME faulted' = faulted
      PROVE  FenceLost => FenceLost'
      BY <1>2 DEF FenceLost
<1>3. \/ faulted' = faulted
      \/ \E name \in {"call", "wait", "reset"} : Fault(name)
      BY NextCases DEF Start, Progress, Failure, Finish, GpuFinish, vars
<1>4. QED
      BY <1>1, <1>2, <1>3

\* A step does not begin by waiting.
LEMMA NoWaitFirst ==
  ASSUME TypeOK', PlaceInv', busy' => call' = 1
  PROVE  ~At("wait")'
<1> SUFFICES ASSUME busy', step' <= Len(Steps')
             PROVE  This'.op # "wait"
    BY DEF At
<1>1. kind'[item'] \in Kinds /\ Steps' = Program[kind'[item']]
      BY DEF TypeOK, Steps
<1>2. step' \in 1..Len(Program[kind'[item']])
      BY <1>1, StepsOf DEF PlaceInv
<1>3. WellMade(Program[kind'[item']][step'])
      BY <1>1, <1>2, StepsOf
<1>4. This' = Program[kind'[item']][step'].calls[1]
      BY <1>1 DEF This, Current
<1>5. QED
      BY <1>3, <1>4 DEF WellMade, Waits

\* What is in the queue of a function that does not wait.
LEMMA QueueEmpty ==
  ASSUME TypeOK, QueueInv, ~FenceLost
  PROVE  /\ ~At("wait") => gpuQueue = <<>> /\ ~fence /\ InUse = {}
         /\ At("wait") /\ fence => gpuQueue = <<>> /\ InUse = {}
         /\ misused = {}
<1>1. gpuQueue = <<>> => InUse = {}
      BY DEF InUse
<1>2. QED
      BY <1>1 DEF QueueInv

\* The calls of a step, one after the other.
LEMMA WaitNext ==
  ASSUME TypeOK, PlaceInv, Running
  PROVE  /\ This.op = "submit" =>
              call < Len(Current.calls) /\ Current.calls[call + 1].op = "wait"
         /\ This.op # "submit" /\ call < Len(Current.calls) =>
              Current.calls[call + 1].op # "wait"
         /\ At("wait") <=> This.op = "wait"
         /\ call = 1 => This.op # "wait"
<1>1. WellMade(Current) /\ call \in 1..Len(Current.calls)
      BY Place DEF Running
<1>2. QED
      BY <1>1 DEF WellMade, Waits, This, At, Running

LEMMA QueueInit == Init => QueueInv
<1> SUFFICES ASSUME Init PROVE QueueInv
    OBVIOUS
<1>1. gpuQueue = <<>> /\ fence = FALSE /\ misused = {} /\ ~busy
      BY DEF Init
<1>2. QED
      BY <1>1 DEF QueueInv, At

LEMMA QueueNext ==
  ASSUME TypeOK, PlaceInv, QueueInv, [Next]_vars
  PROVE  QueueInv'
<1> SUFFICES ASSUME ~FenceLost'
             PROVE  QueueInv'
    BY DEF QueueInv
<1>0. ~FenceLost /\ TypeOK' /\ PlaceInv' /\ fence \in BOOLEAN
      BY FenceStaysLost, TypeNext, PlaceNext DEF TypeOK
<1>1. ASSUME NEW b \in Batches, Start(b)
      PROVE  QueueInv'
  <2>1. call' = 1 /\ ~busy /\ UNCHANGED <<gpuQueue, fence, misused>>
        BY <1>1 DEF Start, BeginItem, gpuVars
  <2>2. ~At("wait")'
        BY <1>0, <2>1, NoWaitFirst
  <2>3. gpuQueue = <<>> /\ ~fence /\ misused = {}
        BY <1>0, <2>1, QueueEmpty DEF At
  <2>4. QED
        BY <2>1, <2>2, <2>3 DEF QueueInv
<1>2. ASSUME Progress
      PROVE  QueueInv'
  <2>1. Running /\ call \in 1..Len(Current.calls) /\ Len(Current.calls) \in Nat
        BY <1>2, Place DEF Progress, Running
  <2>2. UNCHANGED <<busy, item, kind>> /\ Steps' = Steps
        BY <1>2 DEF Progress, callVars, itemVars, Steps
  <2>3. This.op # "submit" =>
          gpuQueue = <<>> /\ InUse = {} /\ misused = {} /\ gpuQueue' = <<>> /\ ~fence'
        BY <1>0, <1>2, <2>1, QueueEmpty, WaitNext DEF Progress
  <2>4. CASE This.op = "submit"
    <3>1. /\ call' = call + 1 /\ step' = step /\ misused' = misused
          BY <1>2, <2>1, <2>4, AdvanceCases, WaitNext
    <3>2. Current' = Current
          BY <2>2, <3>1 DEF Current
    <3>3. At("wait")'
          BY <2>1, <2>2, <2>4, <3>1, <3>2, WaitNext DEF At, This, Running
    <3>4. gpuQueue = <<>> /\ ~fence /\ misused = {}
          BY <1>0, <2>1, <2>4, QueueEmpty, WaitNext
    <3>5. gpuQueue' = <<Submission>> /\ ~fence'
      <4>1. gpuQueue' = Append(<<>>, Submission) /\ fence' = fence
            BY <1>2, <2>4, <3>4 DEF Progress
      <4>2. QED
            BY <3>4, <4>1
    <3>6. Len(gpuQueue') = 1 /\ gpuQueue'[1] = Submission
          BY <3>5
    <3>7. Current'.calls[call' - 1] = This
          BY <2>1, <3>1, <3>2 DEF This
    <3>8. item' = item
          BY <2>2
    <3>9. /\ Submission.target = <<item, This.name>> /\ Submission.old = This.old
          /\ Submission.reads = {<<item, n>> : n \in This.reads} /\ Submission.fenced = TRUE
          BY DEF Submission, Object
    <3>10. LET before == Current'.calls[call' - 1] IN
             /\ gpuQueue'[1].target = <<item', before.name>>
             /\ gpuQueue'[1].reads = {<<item', n>> : n \in before.reads}
             /\ gpuQueue'[1].old = before.old /\ gpuQueue'[1].fenced
          BY <3>6, <3>7, <3>8, <3>9
    <3>11. misused' = {} /\ fence' = FALSE
          BY <1>2, <2>4, <3>1, <3>4, <3>5 DEF Progress
    <3>12. QED
          BY <3>3, <3>6, <3>10, <3>11, Zenon DEF QueueInv, Object
  <2>5. CASE This.op # "submit" /\ call < Len(Current.calls) /\ call' = call + 1
             /\ step' = step /\ misused' = misused
    <3>1. Current' = Current
          BY <2>2, <2>5 DEF Current
    <3>2. ~At("wait")'
          BY <2>1, <2>5, <3>1, WaitNext DEF At, This
    <3>3. QED
          BY <2>3, <2>5, <3>2 DEF QueueInv
  <2>6. CASE This.op # "submit" /\ call' = 1
             /\ \E destroyed : Change(MadeNow, destroyed)
    <3>1. ~At("wait")'
          BY <1>0, <2>6, NoWaitFirst
    <3>2. misused' = {}
          BY <2>3, <2>6 DEF Change
    <3>3. QED
          BY <2>3, <2>6, <3>1, <3>2 DEF QueueInv
  <2>7. QED
        BY <1>2, <2>4, <2>5, <2>6, AdvanceCases
<1>3. ASSUME Failure
      PROVE  QueueInv'
  <2>1. Running /\ UNCHANGED <<gpuQueue, fence>>
        BY <1>3 DEF Failure, gpuVars
  <2>2. This.op # "wait"
        BY <1>0, <1>3, FenceStaysLost DEF Failure
  <2>3. gpuQueue = <<>> /\ ~fence /\ InUse = {} /\ misused = {}
        BY <1>0, <2>1, <2>2, QueueEmpty, WaitNext
  <2>4. misused' = {}
        BY <1>3, <2>3 DEF Failure, GiveUp, Change
  <2>5. busy' => call' = 1
        BY <1>3 DEF Failure, GiveUp, ReturnError
  <2>6. ~At("wait")'
        BY <1>0, <2>5, NoWaitFirst
  <2>7. QED
        BY <2>1, <2>3, <2>4, <2>6 DEF QueueInv
<1>4. ASSUME Finish
      PROVE  QueueInv'
  <2>1. Len(Steps) \in Nat /\ step \in Nat
        BY <1>4, Place DEF Finish
  <2>2. ~At("wait") /\ UNCHANGED <<gpuQueue, fence>>
        BY <1>4, <2>1 DEF Finish, At, gpuVars
  <2>3. gpuQueue = <<>> /\ ~fence /\ InUse = {} /\ misused = {}
        BY <1>0, <2>2, QueueEmpty
  <2>4. misused' = {}
        BY <1>4, <2>3 DEF Finish, Change
  <2>5. busy' => call' = 1
        BY <1>4 DEF Finish, BeginItem
  <2>6. ~At("wait")'
        BY <1>0, <2>5, NoWaitFirst
  <2>7. QED
        BY <2>2, <2>3, <2>4, <2>6 DEF QueueInv
<1>5. ASSUME GpuFinish
      PROVE  QueueInv'
  <2>1. gpuQueue # <<>> /\ misused' = misused /\ At("wait")' = At("wait")
        BY <1>5 DEF GpuFinish, At, This, Current, Steps, callVars, itemVars, placeVars
  <2>2. At("wait") /\ Len(gpuQueue) = 1 /\ gpuQueue[1].fenced /\ misused = {}
        BY <1>0, <2>1 DEF QueueInv
  <2>3. Head(gpuQueue) = gpuQueue[1] /\ Tail(gpuQueue) = <<>>
    <3>1. Head(gpuQueue) = gpuQueue[1] /\ Tail(gpuQueue) \in Seq(Submissions)
            /\ Len(Tail(gpuQueue)) = 0
          BY <2>1, <2>2, HeadTailProperties DEF TypeOK
    <3>2. QED
          BY <3>1, EmptySeq
  <2>4. gpuQueue' = <<>> /\ fence'
        BY <1>5, <2>2, <2>3 DEF GpuFinish
  <2>5. QED
        BY <2>1, <2>2, <2>4 DEF QueueInv
<1>6. CASE UNCHANGED vars
      BY <1>6 DEF QueueInv, vars, FenceLost, At, This, Current, Steps, Object, callVars,
                  itemVars, placeVars, gpuVars
<1>7. QED
      BY <1>1, <1>2, <1>3, <1>4, <1>5, <1>6, NextCases

-----------------------------------------------------------------------------
(* The layouts of the images.                                              *)

LEMMA QueueTypes ==
  ASSUME TypeOK
  PROVE  /\ Len(gpuQueue) \in Nat /\ DOMAIN gpuQueue = 1..Len(gpuQueue)
         /\ \A p \in DOMAIN gpuQueue : /\ gpuQueue[p] \in Submissions
                                       /\ ItemAt(p) \in Items /\ ItemAt(p) \in Nat
         /\ gpuQueue = <<>> <=> Len(gpuQueue) = 0
<1>1. gpuQueue \in Seq(Submissions)
      BY DEF TypeOK
<1>2. Len(gpuQueue) \in Nat /\ DOMAIN gpuQueue = 1..Len(gpuQueue)
        /\ (gpuQueue = <<>> <=> Len(gpuQueue) = 0)
      BY <1>1, EmptySeq, LenProperties
<1>3. ASSUME NEW p \in DOMAIN gpuQueue
      PROVE  gpuQueue[p] \in Submissions /\ ItemAt(p) \in Items /\ ItemAt(p) \in Nat
  <2>1. gpuQueue[p] \in Submissions
        BY <1>1, <1>2, <1>3
  <2>2. gpuQueue[p].target \in Objects
        BY <2>1 DEF Submissions
  <2>3. QED
        BY <2>1, <2>2 DEF ItemAt, Objects, Items
<1>4. QED
      BY <1>2, <1>3

\* A new item has no submissions yet.
LEMMA LayoutBegun ==
  ASSUME TypeOK, LayoutInv, NEW k \in Kinds, item + 1 <= MaxItems, BeginItem(k),
         UNCHANGED <<gpuQueue, layout>>
  PROVE  LayoutInv'
<1>1. /\ item' = item + 1 /\ item' \in Items /\ kind'[item'] = k /\ step' = 1 /\ call' = 1
      /\ item \in Nat
      BY BeginType DEF TypeOK
<1>2. LayoutAt(k, 1, 1) = "undefined"
      BY Facts DEF KindFacts
<1>3. layout[item'] = "undefined"
      BY <1>1 DEF LayoutInv
<1>4. \A p \in DOMAIN gpuQueue : ItemAt(p) \in Nat /\ ItemAt(p) <= item
      BY QueueTypes DEF LayoutInv
<1>5. \A p : ItemAt(p)' = ItemAt(p)
      BY DEF ItemAt
<1>6. \A p \in DOMAIN gpuQueue' : ItemAt(p)' <= item' /\ ItemAt(p)' # item'
      BY <1>1, <1>4, <1>5
<1>7. \A i \in Items : i > item' => layout'[i] = "undefined"
      BY <1>1 DEF LayoutInv, Items
<1>8. LayoutAt(kind'[item'], step', call') =
        IF gpuQueue' # <<>> /\ ItemAt(Len(gpuQueue))' = item'
        THEN gpuQueue'[Len(gpuQueue')].new ELSE layout'[item']
  <2>1. gpuQueue # <<>> => Len(gpuQueue) \in DOMAIN gpuQueue
        BY QueueTypes
  <2>2. QED
        BY <1>1, <1>2, <1>3, <1>6, <2>1
<1>9. /\ \A p, q \in DOMAIN gpuQueue' : p < q => ItemAt(p)' <= ItemAt(q)'
      /\ \A p \in DOMAIN gpuQueue' :
           gpuQueue'[p].old = IF p > 1 /\ ItemAt(p - 1)' = ItemAt(p)'
                              THEN gpuQueue'[p - 1].new ELSE layout'[ItemAt(p)']
      BY <1>5 DEF LayoutInv
<1>10. QED
      BY <1>6, <1>7, <1>8, <1>9 DEF LayoutInv

\* Nothing changes but the place.
LEMMA LayoutStays ==
  ASSUME TypeOK, LayoutInv, busy, UNCHANGED <<gpuQueue, layout, item, kind>>,
         busy' => LayoutAt(kind[item], step', call') = LayoutAt(kind[item], step, call)
  PROVE  LayoutInv'
BY DEF LayoutInv, ItemAt

LEMMA LayoutInit == Init => LayoutInv
<1> SUFFICES ASSUME Init PROVE LayoutInv
    OBVIOUS
<1>1. gpuQueue = <<>> /\ ~busy /\ layout = [i \in Items |-> "undefined"]
      BY DEF Init
<1>2. DOMAIN gpuQueue = {}
      BY <1>1
<1>3. QED
      BY <1>1, <1>2 DEF LayoutInv

LEMMA LayoutSubmit ==
  ASSUME TypeOK, PlaceInv, LayoutInv, Progress, This.op = "submit"
  PROVE  LayoutInv'
<1>0. PICK n \in Nat : n = Len(gpuQueue)
      BY QueueTypes
<1>1. /\ Running /\ busy /\ item \in Items /\ item \in Nat
      BY DEF Progress, Running, TypeOK
<1>2. /\ call' = call + 1 /\ step' = step
      BY <1>1, AdvanceCases, WaitNext
<1>3. /\ UNCHANGED <<busy, item, kind, layout>> /\ gpuQueue' = Append(gpuQueue, Submission)
      BY DEF Progress, callVars, itemVars
<1>4. This.old = LayoutAt(Kind, step, call) /\ This.new = LayoutAt(Kind, step, call + 1)
  <2>1. StepFacts(Kind, step) /\ call \in 1..Len(Current.calls)
          /\ Current = Program[Kind][step]
        BY <1>1, Place DEF Running
  <2>2. QED
        BY <2>1 DEF StepFacts, This
<1>5. Submission \in Submissions /\ Submission.target[1] = item
        /\ Submission.old = This.old /\ Submission.new = This.new
      BY <1>1, SubmissionType DEF Submission, Object
<1>6. /\ Len(gpuQueue') = n + 1 /\ n \in Nat /\ DOMAIN gpuQueue = 1..n
      /\ DOMAIN gpuQueue' = 1..(n + 1)
      /\ \A p \in 1..n : gpuQueue'[p] = gpuQueue[p]
      /\ gpuQueue'[n + 1] = Submission
      BY <1>0, <1>3, <1>5, AppendProperties, QueueTypes DEF TypeOK
<1>7. \A p \in 1..n : /\ ItemAt(p)' = ItemAt(p) /\ ItemAt(p) \in Nat /\ ItemAt(p) <= item
      BY <1>6, QueueTypes DEF ItemAt, LayoutInv
<1>8. ItemAt(n + 1)' = item
      BY <1>5, <1>6 DEF ItemAt
<1>9. gpuQueue' # <<>> /\ ItemAt(Len(gpuQueue))' = item'
      BY <1>3, <1>6, <1>8, EmptySeq DEF ItemAt
<1>10. \A p, q \in DOMAIN gpuQueue' : p < q => ItemAt(p)' <= ItemAt(q)'
  <2>1. TAKE p, q \in DOMAIN gpuQueue'
  <2>2. HAVE p < q
  <2>3. p \in 1..n
        BY <1>6, <2>2
  <2>4. CASE q = n + 1
        BY <1>1, <1>7, <1>8, <2>3, <2>4
  <2>5. CASE q # n + 1
    <3>1. q \in 1..n
          BY <1>6, <2>5
    <3>2. ItemAt(p) <= ItemAt(q)
          BY <1>6, <2>2, <2>3, <3>1 DEF LayoutInv
    <3>3. QED
          BY <1>7, <2>3, <3>1, <3>2
  <2>6. QED
        BY <2>4, <2>5
<1>11. \A p \in DOMAIN gpuQueue' :
         gpuQueue'[p].old = IF p > 1 /\ ItemAt(p - 1)' = ItemAt(p)'
                            THEN gpuQueue'[p - 1].new ELSE layout'[ItemAt(p)']
  <2>1. TAKE p \in DOMAIN gpuQueue'
  <2>2. CASE p = n + 1
    <3>1. gpuQueue'[p].old = IF gpuQueue # <<>> /\ ItemAt(n) = item
                             THEN gpuQueue[n].new ELSE layout[item]
          BY <1>0, <1>1, <1>4, <1>5, <1>6, <2>2 DEF LayoutInv, Kind
    <3>2. gpuQueue # <<>> <=> p > 1
          BY <1>0, <1>6, <2>2, QueueTypes
    <3>3. p > 1 => n \in 1..n /\ p - 1 = n
          BY <1>6, <2>2
    <3>4. p > 1 => ItemAt(p - 1)' = ItemAt(n) /\ gpuQueue'[p - 1] = gpuQueue[n]
          BY <1>6, <1>7, <3>3
    <3>5. ItemAt(p)' = item /\ layout' = layout
          BY <1>3, <1>8, <2>2
    <3>6. QED
          BY <3>1, <3>2, <3>3, <3>4, <3>5
  <2>3. CASE p # n + 1
    <3>1. p \in 1..n /\ (p > 1 => p - 1 \in 1..n)
          BY <1>6, <2>3
    <3>2. gpuQueue[p].old = IF p > 1 /\ ItemAt(p - 1) = ItemAt(p)
                            THEN gpuQueue[p - 1].new ELSE layout[ItemAt(p)]
          BY <1>6, <3>1 DEF LayoutInv
    <3>3. gpuQueue'[p] = gpuQueue[p] /\ (p > 1 => gpuQueue'[p - 1] = gpuQueue[p - 1])
          BY <1>6, <3>1
    <3>4. ItemAt(p)' = ItemAt(p) /\ (p > 1 => ItemAt(p - 1)' = ItemAt(p - 1))
          BY <1>7, <3>1
    <3>5. QED
          BY <1>3, <3>2, <3>3, <3>4
  <2>4. QED
        BY <2>2, <2>3
<1>12. \A p \in DOMAIN gpuQueue' : ItemAt(p)' <= item'
  <2>1. TAKE p \in DOMAIN gpuQueue'
  <2>2. p \in 1..n \/ p = n + 1
        BY <1>6
  <2>3. QED
        BY <1>1, <1>3, <1>7, <1>8, <2>2
<1>13. LayoutAt(kind'[item'], step', call') = gpuQueue'[Len(gpuQueue')].new
       BY <1>2, <1>3, <1>4, <1>5, <1>6 DEF Kind
<1>14. \A i \in Items : i > item' => layout'[i] = "undefined"
       BY <1>3 DEF LayoutInv
<1>15. QED
       BY <1>9, <1>10, <1>11, <1>12, <1>13, <1>14 DEF LayoutInv

LEMMA LayoutGpu ==
  ASSUME TypeOK, LayoutInv, GpuFinish
  PROVE  LayoutInv'
<1>0. PICK n \in Nat : n = Len(gpuQueue)
      BY QueueTypes
<1> DEFINE s == gpuQueue[1]
           i == ItemAt(1)
<1>1. gpuQueue # <<>> /\ n \in Nat /\ n >= 1 /\ DOMAIN gpuQueue = 1..n /\ 1 \in 1..n
      BY <1>0, QueueTypes DEF GpuFinish
<1>2. /\ DOMAIN gpuQueue' = 1..(n - 1) /\ Len(gpuQueue') = n - 1
      /\ \A p \in 1..(n - 1) : gpuQueue'[p] = gpuQueue[p + 1]
      /\ Head(gpuQueue) = s
  <2>1. gpuQueue \in Seq(Submissions) /\ gpuQueue' = Tail(gpuQueue)
        BY DEF GpuFinish, TypeOK
  <2>2. QED
        BY <1>0, <1>1, <2>1, HeadTailProperties, LenProperties
<1>3. layout' = [layout EXCEPT ![i] = s.new] /\ i \in Items /\ layout \in [Items -> Layouts]
      BY <1>1, <1>2, QueueTypes DEF GpuFinish, ItemAt, TypeOK
<1>4. UNCHANGED <<busy, item, kind, step, call>>
      BY DEF GpuFinish, callVars, itemVars, placeVars
<1>5. \A p \in 1..n : ItemAt(p) \in Items /\ ItemAt(p) \in Nat /\ ItemAt(p) <= item
      BY <1>1, QueueTypes DEF LayoutInv
<1>6. \A p \in 1..(n - 1) : ItemAt(p)' = ItemAt(p + 1) /\ p + 1 \in 1..n
      BY <1>1, <1>2 DEF ItemAt
<1>7. \A p \in 1..n : i <= ItemAt(p)
      BY <1>1, <1>5 DEF LayoutInv
<1>8. \A p \in DOMAIN gpuQueue' : ItemAt(p)' <= item'
      BY <1>2, <1>4, <1>5, <1>6
<1>9. \A p, q \in DOMAIN gpuQueue' : p < q => ItemAt(p)' <= ItemAt(q)'
  <2>1. TAKE p, q \in DOMAIN gpuQueue'
  <2>2. HAVE p < q
  <2>3. p + 1 \in 1..n /\ q + 1 \in 1..n /\ p + 1 < q + 1
        BY <1>1, <1>2, <2>2
  <2>4. ItemAt(p + 1) <= ItemAt(q + 1)
        BY <1>1, <2>3 DEF LayoutInv
  <2>5. QED
        BY <1>2, <1>6, <2>4
<1>10. \A j \in Items : j > item' => layout'[j] = "undefined"
  <2>1. i <= item /\ item \in Nat /\ i \in Nat
        BY <1>1, <1>5 DEF TypeOK
  <2>2. \A j \in Items : j > item => layout[j] = "undefined" /\ j \in Nat
        BY DEF LayoutInv, Items
  <2>3. QED
        BY <1>3, <1>4, <2>1, <2>2
<1>11. \A p \in DOMAIN gpuQueue' :
         gpuQueue'[p].old = IF p > 1 /\ ItemAt(p - 1)' = ItemAt(p)'
                            THEN gpuQueue'[p - 1].new ELSE layout'[ItemAt(p)']
  <2>1. TAKE p \in DOMAIN gpuQueue'
  <2>2. p \in 1..(n - 1) /\ p + 1 \in 1..n /\ p \in 1..n /\ p + 1 > 1 /\ (p + 1) - 1 = p
        BY <1>1, <1>2
  <2>3. gpuQueue[p + 1].old = IF ItemAt(p) = ItemAt(p + 1)
                              THEN gpuQueue[p].new ELSE layout[ItemAt(p + 1)]
        BY <1>1, <2>2 DEF LayoutInv
  <2>4. gpuQueue'[p] = gpuQueue[p + 1] /\ ItemAt(p)' = ItemAt(p + 1)
        BY <1>2, <1>6, <2>2
  <2>5. i <= ItemAt(p) /\ ItemAt(p) <= ItemAt(p + 1) /\ i \in Nat
          /\ ItemAt(p) \in Nat /\ ItemAt(p + 1) \in Nat /\ ItemAt(p + 1) \in Items
        BY <1>1, <1>5, <1>7, <2>2 DEF LayoutInv
  <2>6. ItemAt(p) # ItemAt(p + 1) => layout'[ItemAt(p + 1)] = layout[ItemAt(p + 1)]
        BY <1>3, <2>5
  <2>7. CASE p = 1
    <3>1. layout'[ItemAt(p + 1)] = IF ItemAt(p) = ItemAt(p + 1) THEN s.new
                                   ELSE layout[ItemAt(p + 1)]
          BY <1>3, <2>6, <2>7
    <3>2. QED
          BY <2>3, <2>4, <2>7, <3>1
  <2>8. CASE p # 1
    <3>1. p > 1 /\ p - 1 \in 1..(n - 1) /\ (p - 1) + 1 = p
          BY <1>1, <2>2, <2>8
    <3>2. gpuQueue'[p - 1] = gpuQueue[p] /\ ItemAt(p - 1)' = ItemAt(p)
          BY <1>2, <1>6, <3>1
    <3>3. QED
          BY <2>3, <2>4, <2>6, <3>1, <3>2
  <2>9. QED
        BY <2>7, <2>8
<1>12. ASSUME busy
       PROVE  LayoutAt(kind[item], step, call) =
                IF gpuQueue' # <<>> /\ ItemAt(Len(gpuQueue))' = item
                THEN gpuQueue'[Len(gpuQueue')].new ELSE layout'[item]
  <2>1. LayoutAt(kind[item], step, call) =
          IF ItemAt(n) = item THEN gpuQueue[n].new ELSE layout[item]
        BY <1>0, <1>1, <1>12 DEF LayoutInv
  <2>2. item \in Items
        BY <1>12 DEF TypeOK
  <2>3. gpuQueue' # <<>> <=> n > 1
    <3>1. gpuQueue' \in Seq(Submissions)
          BY <1>1, HeadTailProperties DEF GpuFinish, TypeOK
    <3>2. QED
          BY <1>1, <1>2, <3>1, EmptySeq
  <2>4. CASE n = 1
    <3>1. layout'[item] = IF i = item THEN s.new ELSE layout[item]
          BY <1>3, <2>2
    <3>2. QED
          BY <2>1, <2>3, <2>4, <3>1
  <2>5. CASE n # 1
    <3>1. n - 1 \in 1..(n - 1) /\ (n - 1) + 1 = n /\ n > 1 /\ n \in 1..n
          BY <1>1, <2>5
    <3>2. gpuQueue'[n - 1] = gpuQueue[n] /\ ItemAt(n - 1)' = ItemAt(n)
          BY <1>2, <1>6, <3>1
    <3>3. ItemAt(Len(gpuQueue))' = ItemAt(n)
          BY <1>2, <3>2 DEF ItemAt
    <3>4. ItemAt(n) # item => i # item
      <4>1. i <= ItemAt(n) /\ ItemAt(n) <= item /\ i \in Nat /\ ItemAt(n) \in Nat
              /\ item \in Nat
            BY <1>1, <1>5, <1>7, <3>1 DEF TypeOK
      <4>2. QED
            BY <4>1
    <3>5. i # item => layout'[item] = layout[item]
          BY <1>3, <2>2
    <3>6. QED
          BY <1>2, <2>1, <2>3, <3>1, <3>2, <3>3, <3>4, <3>5
  <2>6. QED
        BY <2>4, <2>5
<1>13. QED
      BY <1>4, <1>8, <1>9, <1>10, <1>11, <1>12 DEF LayoutInv


LEMMA LayoutNext ==
  ASSUME TypeOK, PlaceInv, LayoutInv, [Next]_vars
  PROVE  LayoutInv'
<1>1. ASSUME NEW b \in Batches, Start(b)
      PROVE  LayoutInv'
  <2>1. b[1] \in Kinds /\ Len(b) \in Nat \ {0} /\ item \in Nat /\ MaxItems \in Nat
        BY UploadAssumption DEF TypeOK
  <2>2. item + 1 <= MaxItems /\ BeginItem(b[1]) /\ UNCHANGED <<gpuQueue, layout>>
        BY <1>1, <2>1 DEF Start, gpuVars
  <2>3. QED
        BY <2>1, <2>2, LayoutBegun
<1>2. ASSUME Progress, This.op # "submit"
      PROVE  LayoutInv'
  <2>1. Running /\ busy /\ UNCHANGED <<gpuQueue, layout, item, kind>>
        BY <1>2 DEF Progress, Running, itemVars
  <2>2. StepFacts(Kind, step) /\ call \in 1..Len(Current.calls)
          /\ Current = Program[Kind][step] /\ Len(Current.calls) \in Nat
        BY <2>1, Place DEF Running
  <2>3. LayoutAt(Kind, step, call + 1) = LayoutAt(Kind, step, call)
          /\ LayoutAt(Kind, step, Last(Current)) = LayoutAt(Kind, step + 1, 1)
        BY <1>2, <2>2 DEF StepFacts, This
  <2>4. \/ step' = step /\ call' = call + 1
        \/ step' = step + 1 /\ call' = 1 /\ call + 1 = Last(Current)
        BY <1>2, AdvanceCases DEF Last
  <2>5. LayoutAt(Kind, step', call') = LayoutAt(Kind, step, call)
        BY <2>3, <2>4
  <2>6. QED
        BY <2>1, <2>5, LayoutStays DEF Kind
<1>3. ASSUME Failure
      PROVE  LayoutInv'
  <2>1. busy /\ UNCHANGED <<gpuQueue, layout, item, kind>>
        BY <1>3 DEF Failure, Running, gpuVars, GiveUp, ReturnError, itemVars
  <2>2. StepFacts(Kind, step) /\ Current = Program[Kind][step]
        BY <1>3, Place DEF Failure, Running
  <2>3. ~busy' \/ Current.ignored
        BY <1>3 DEF Failure, GiveUp, ReturnError
  <2>4. busy' => LayoutAt(Kind, step', call') = LayoutAt(Kind, step, call)
        BY <2>2, <2>3 DEF StepFacts, LayoutAt
  <2>5. QED
        BY <2>1, <2>4, LayoutStays DEF Kind
<1>4. ASSUME Finish
      PROVE  LayoutInv'
  <2>1. busy /\ UNCHANGED <<gpuQueue, layout>>
        BY <1>4 DEF Finish, gpuVars
  <2>2. CASE busy' = FALSE /\ UNCHANGED <<item, kind>>
        BY <2>1, <2>2, LayoutStays
  <2>3. CASE next < Len(batch) /\ BeginItem(batch[next + 1])
    <3>1. batch[next + 1] \in Kinds /\ item + 1 <= MaxItems
      <4>1. next \in 1..Len(batch) /\ item + (Len(batch) - next) <= MaxItems
              /\ batch \in Seq(Kinds) /\ item \in Nat /\ MaxItems \in Nat /\ Len(batch) \in Nat
            BY <2>1, UploadAssumption DEF PlaceInv, TypeOK
      <4>2. QED
            BY <2>3, <4>1
    <3>2. QED
          BY <2>1, <2>3, <3>1, LayoutBegun
  <2>4. QED
        BY <1>4, <2>2, <2>3 DEF Finish
<1>5. CASE UNCHANGED vars
      BY <1>5 DEF LayoutInv, ItemAt, vars, callVars, itemVars, placeVars, gpuVars
<1>6. QED
      BY <1>1, <1>2, <1>3, <1>4, <1>5, LayoutSubmit, LayoutGpu, NextCases
-----------------------------------------------------------------------------
(* What was copied to has its data.                                        *)

LEMMA FilledInit == Init => FilledInv
<1> SUFFICES ASSUME Init PROVE FilledInv
    OBVIOUS
<1>1. held = <<>> /\ ~busy
      BY DEF Init
<1>2. Held = {}
      BY <1>1 DEF Held
<1>3. QED
      BY <1>1, <1>2 DEF FilledInv, FilledWhenReturned, Running

\* Items that were returned keep their data and their layout.
LEMMA ReturnedStay ==
  ASSUME TypeOK, PlaceInv, FilledInv, ~FenceLost, held' = held,
         \A i \in Items : i <= item => kind'[i] = kind[i],
         written \subseteq written', layout' = layout
  PROVE  FilledWhenReturned'
<1>1. Held' = Held
      BY DEF Held
<1>2. \A i \in Held : kind'[i] = kind[i]
      BY HeldIs
<1>3. \A i \in Held : /\ {i} \X Filled(kind[i]) \subseteq written
                      /\ kind[i] = "ui" => layout[i] = "shaderReadOnly"
      BY DEF FilledInv, FilledWhenReturned
<1>4. \A i \in Held' : /\ {i} \X Filled(kind'[i]) \subseteq written'
                       /\ kind'[i] = "ui" => layout'[i] = "shaderReadOnly"
      BY <1>1, <1>2, <1>3
<1>5. QED
      BY <1>4, Zenon DEF FilledWhenReturned

LEMMA FilledNext ==
  ASSUME TypeOK, PlaceInv, QueueInv, FilledInv, LayoutInv, [Next]_vars
  PROVE  FilledInv'
<1> SUFFICES ASSUME ~FenceLost'
             PROVE  FilledInv'
    BY DEF FilledInv
<1>0. ~FenceLost /\ TypeOK' /\ PlaceInv'
      BY FenceStaysLost, TypeNext, PlaceNext
\* An item begins with nothing to be filled.
<1>1. ASSUME FilledWhenReturned', busy', step' = 1, call' = 1
      PROVE  FilledInv'
  <2>1. kind'[item'] \in Kinds
        BY <1>0, <1>1 DEF TypeOK
  <2>2. Kept(kind'[item'], step') = {} /\ Copied(Current', call') = {}
    <3>1. 1 \in Nat \ {0}
          OBVIOUS
    <3>2. QED
          BY <1>1, <2>1, <3>1, MadeGrows, Facts DEF KindFacts
  <2>3. {item'} \X (Filled(kind'[item']) \cap {}) = {}
        OBVIOUS
  <2>4. QED
        BY <1>1, <2>2, <2>3 DEF FilledInv
<1>2. ASSUME NEW b \in Batches, Start(b)
      PROVE  FilledInv'
  <2>1. b[1] \in Kinds /\ Len(b) \in Nat \ {0} /\ item \in Nat /\ MaxItems \in Nat
        BY UploadAssumption DEF TypeOK
  <2>2. item + 1 <= MaxItems /\ BeginItem(b[1]) /\ UNCHANGED <<held, layout, written>> /\ busy'
        BY <1>2, <2>1 DEF Start, gpuVars
  <2>3. FilledWhenReturned'
        BY <1>0, <2>1, <2>2, BeginType, ReturnedStay
  <2>4. QED
        BY <1>1, <2>2, <2>3 DEF BeginItem
<1>3. ASSUME Progress
      PROVE  FilledInv'
  <2>1. /\ Kind \in Kinds /\ Steps = Program[Kind] /\ Current = Program[Kind][step]
        /\ call \in 1..Len(Current.calls) /\ Len(Current.calls) \in Nat
        /\ step \in 1..Len(Program[Kind]) /\ busy /\ Running /\ StepFacts(Kind, step)
        BY <1>3, Place DEF Progress, Running
  <2>2. /\ UNCHANGED <<busy, item, kind, held, layout, written>> /\ Steps' = Steps
        BY <1>3 DEF Progress, callVars, itemVars, Steps
  <2>3. FilledWhenReturned'
        BY <1>0, <2>2, ReturnedStay
  <2>4. {item} \X (Filled(Kind) \cap Kept(Kind, step)) \subseteq written
        BY <1>0, <2>1 DEF FilledInv, Kind
  <2>5. \A n \in Copied(Current, call) :
          \/ <<item, n>> \in written
          \/ \E p \in DOMAIN gpuQueue : gpuQueue[p].target = <<item, n>>
                                     /\ gpuQueue[p].reads # {}
        BY <1>0, <2>1 DEF FilledInv, Object
  <2>6. Copied(Current, call + 1) =
          Copied(Current, call) \cup IF This.op = "submit" /\ This.reads # {}
                                     THEN {This.name} ELSE {}
    <3>1. call \in Nat \ {0}
          BY DEF TypeOK
    <3>2. QED
          BY <3>1, MadeGrows DEF This
  <2>7. CASE call < Len(Current.calls) /\ call' = call + 1 /\ step' = step
    <3>1. Current' = Current /\ Running'
          BY <2>1, <2>2, <2>7 DEF Current, Running
    <3>2. CASE This.op = "submit"
      <4>1. gpuQueue' = Append(gpuQueue, Submission) /\ Submission \in Submissions
            BY <1>3, <2>1, <3>2, SubmissionType DEF Progress
      <4>2. /\ DOMAIN gpuQueue' = 1..(Len(gpuQueue) + 1) /\ DOMAIN gpuQueue = 1..Len(gpuQueue)
            /\ Len(gpuQueue) \in Nat
            /\ \A p \in 1..Len(gpuQueue) : gpuQueue'[p] = gpuQueue[p]
            /\ gpuQueue'[Len(gpuQueue) + 1] = Submission
            BY <4>1, AppendProperties DEF TypeOK
      <4>3. Submission.target = <<item, This.name>>
              /\ (This.reads # {} => Submission.reads # {})
            BY DEF Submission, Object
      <4>4. \A n \in Copied(Current, call + 1) :
              \/ <<item, n>> \in written
              \/ \E p \in DOMAIN gpuQueue' : gpuQueue'[p].target = <<item, n>>
                                          /\ gpuQueue'[p].reads # {}
        <5>1. TAKE n \in Copied(Current, call + 1)
        <5>2. CASE n \in Copied(Current, call)
          <6>1. CASE <<item, n>> \in written
                BY <6>1
          <6>2. ASSUME NEW p \in DOMAIN gpuQueue, gpuQueue[p].target = <<item, n>>,
                       gpuQueue[p].reads # {}
                PROVE  \E q \in DOMAIN gpuQueue' : gpuQueue'[q].target = <<item, n>>
                                                /\ gpuQueue'[q].reads # {}
            <7>1. p \in DOMAIN gpuQueue' /\ gpuQueue'[p] = gpuQueue[p]
                  BY <4>2, <6>2
            <7>2. QED
                  BY <6>2, <7>1
          <6>3. QED
                BY <2>5, <5>2, <6>1, <6>2
        <5>3. CASE n = This.name /\ This.reads # {}
          <6>1. Len(gpuQueue) + 1 \in DOMAIN gpuQueue'
                BY <4>2
          <6>2. QED
                BY <4>2, <4>3, <5>3, <6>1
        <5>4. QED
              BY <2>6, <5>2, <5>3
      <4>5. QED
            BY <2>2, <2>3, <2>4, <2>7, <3>1, <4>4 DEF FilledInv, Object, Kind
    <3>3. CASE This.op # "submit"
      <4>1. gpuQueue' = gpuQueue /\ Copied(Current, call + 1) = Copied(Current, call)
            BY <1>3, <2>6, <3>3 DEF Progress
      <4>2. QED
            BY <2>2, <2>3, <2>4, <2>5, <2>7, <3>1, <4>1 DEF FilledInv, Object, Kind
    <3>4. QED
          BY <3>2, <3>3
  <2>8. CASE call = Len(Current.calls) /\ call' = 1 /\ step' = step + 1
    <3>1. This.op # "submit"
          BY <2>1, <2>8, WaitNext
    <3>2. gpuQueue = <<>>
      <4>1. CASE This.op = "wait"
        <5>1. fence
              BY <1>3, <4>1 DEF Progress
        <5>2. QED
              BY <1>0, <2>1, <4>1, <5>1, QueueEmpty, WaitNext
      <4>2. QED
            BY <1>0, <2>1, <4>1, QueueEmpty, WaitNext
    <3>3. \A n \in Copied(Current, call) : <<item, n>> \in written
          BY <2>5, <3>2
    <3>4. AllCopied(Current) = Copied(Current, call)
          BY <2>6, <2>8, <3>1 DEF AllCopied, Last
    <3>5. Filled(Kind) \cap Current.keeps \subseteq AllCopied(Current)
          BY <2>1 DEF StepFacts
    <3>6. Kept(Kind, step + 1) = Kept(Kind, step) \cup Current.keeps
          BY <2>1, KeptGrows
    <3>7. {item} \X (Filled(Kind) \cap Kept(Kind, step + 1)) \subseteq written
          BY <2>4, <3>3, <3>4, <3>5, <3>6
    <3>8. Copied(Current', call') = {}
      <4>1. 1 \in Nat \ {0}
            OBVIOUS
      <4>2. QED
            BY <2>8, <4>1, MadeGrows
    <3>9. QED
          BY <2>2, <2>3, <2>8, <3>7, <3>8 DEF FilledInv, Kind
  <2>9. QED
        BY <1>3, <2>7, <2>8, AdvanceCases
<1>4. ASSUME Failure
      PROVE  FilledInv'
  <2>1. /\ Kind \in Kinds /\ Steps = Program[Kind] /\ Current = Program[Kind][step]
        /\ step \in 1..Len(Program[Kind]) /\ busy /\ WellMade(Current)
        BY <1>4, Place DEF Failure, Running
  <2>2. UNCHANGED <<item, kind, held, layout, written>>
        BY <1>4 DEF Failure, GiveUp, ReturnError, itemVars, gpuVars
  <2>3. FilledWhenReturned'
        BY <1>0, <2>2, ReturnedStay
  <2>4. CASE ~busy'
        BY <2>3, <2>4 DEF FilledInv, Running
  <2>5. CASE Current.ignored /\ step' = step + 1 /\ call' = 1
    <3>1. Current.keeps = {}
          BY <2>1, <2>5 DEF WellMade
    <3>2. Kept(Kind, step + 1) = Kept(Kind, step)
          BY <2>1, <3>1, KeptGrows
    <3>3. {item} \X (Filled(Kind) \cap Kept(Kind, step)) \subseteq written
          BY <1>0, <2>1 DEF FilledInv, Kind
    <3>4. Copied(Current', call') = {}
      <4>1. 1 \in Nat \ {0}
            OBVIOUS
      <4>2. QED
            BY <2>5, <4>1, MadeGrows
    <3>5. QED
          BY <2>2, <2>3, <2>5, <3>2, <3>3, <3>4 DEF FilledInv, Kind
  <2>6. QED
        BY <1>4, <2>4, <2>5 DEF Failure, GiveUp, ReturnError
<1>5. ASSUME Finish
      PROVE  FilledInv'
  <2>1. /\ Kind \in Kinds /\ KindFacts(Kind) /\ Steps = Program[Kind] /\ Len(Steps) \in Nat
        /\ step \in 1..(Len(Steps) + 1) /\ busy /\ step > Len(Steps) /\ item \in Items
        /\ call = 1
        BY <1>5, Place DEF Finish
  <2>2. step = Len(Program[Kind]) + 1
        BY <2>1
  <2>3. held' = Append(held, item) /\ UNCHANGED <<gpuQueue, layout, written>>
        BY <1>5 DEF Finish, gpuVars
  <2>4. \A i \in Items : i <= item => kind'[i] = kind[i]
    <3>1. CASE next < Len(batch) /\ BeginItem(batch[next + 1])
      <4>1. batch[next + 1] \in Kinds /\ item + 1 <= MaxItems
        <5>1. next \in 1..Len(batch) /\ item + (Len(batch) - next) <= MaxItems
                /\ batch \in Seq(Kinds) /\ item \in Nat /\ MaxItems \in Nat /\ Len(batch) \in Nat
              BY <2>1, UploadAssumption DEF PlaceInv, TypeOK
        <5>2. QED
              BY <3>1, <5>1
      <4>2. QED
            BY <3>1, <4>1, BeginType
    <3>2. CASE kind' = kind
          BY <3>2
    <3>3. QED
          BY <1>5, <3>1, <3>2 DEF Finish
  <2>5. Held' = Held \cup {item}
        BY <2>1, <2>3, <2>4, HeldGrows
  <2>6. {item} \X Filled(Kind) \subseteq written
    <3>1. Filled(Kind) \subseteq Kept(Kind, step)
          BY <2>1, <2>2 DEF KindFacts
    <3>2. {item} \X (Filled(Kind) \cap Kept(Kind, step)) \subseteq written
          BY <1>0, <2>1 DEF FilledInv, Kind
    <3>3. QED
          BY <3>1, <3>2
  <2>7. Kind = "ui" => layout[item] = "shaderReadOnly"
    <3>1. gpuQueue = <<>>
      <4>1. ~At("wait")
            BY <2>1 DEF At
      <4>2. QED
            BY <1>0, <4>1, QueueEmpty
    <3>2. layout[item] = LayoutAt(Kind, step, 1)
          BY <2>1, <3>1 DEF LayoutInv, Kind
    <3>3. QED
          BY <2>1, <2>2, <3>2 DEF KindFacts
  <2>8. \A i \in Held : kind'[i] = kind[i]
        BY HeldIs, <2>4
  <2>9. kind'[item] = Kind
    <3>1. item \in Nat
          BY DEF TypeOK
    <3>2. QED
          BY <2>1, <2>4, <3>1 DEF Kind
  <2>10. \A i \in Held : /\ {i} \X Filled(kind[i]) \subseteq written
                         /\ kind[i] = "ui" => layout[i] = "shaderReadOnly"
        BY <1>0 DEF FilledInv, FilledWhenReturned
  <2>11. \A i \in Held' : /\ {i} \X Filled(kind'[i]) \subseteq written'
                          /\ kind'[i] = "ui" => layout'[i] = "shaderReadOnly"
    <3>1. TAKE i \in Held'
    <3>2. CASE i = item
          BY <2>3, <2>6, <2>7, <2>9, <3>2
    <3>3. CASE i \in Held
          BY <2>3, <2>8, <2>10, <3>3
    <3>4. QED
          BY <2>5, <3>2, <3>3
  <2>12. FilledWhenReturned'
         BY <2>11, Zenon DEF FilledWhenReturned
  <2>13. CASE ~busy'
         BY <2>12, <2>13 DEF FilledInv, Running
  <2>14. CASE busy' /\ step' = 1 /\ call' = 1
         BY <1>1, <2>12, <2>14
  <2>15. QED
         BY <1>5, <2>1, <2>13, <2>14 DEF Finish, BeginItem

<1>6. ASSUME GpuFinish
      PROVE  FilledInv'
  <2>1. /\ gpuQueue # <<>> /\ gpuQueue' = Tail(gpuQueue)
        /\ UNCHANGED <<busy, item, kind, held, step, call>>
        BY <1>6 DEF GpuFinish, callVars, itemVars, placeVars
  <2> DEFINE s == gpuQueue[1]
             before == Current.calls[call - 1]
  <2>2. /\ At("wait") /\ Len(gpuQueue) = 1 /\ s.target = <<item, before.name>>
        /\ s.reads = {<<item, n>> : n \in before.reads} /\ s.old = before.old
        BY <1>0, <2>1 DEF QueueInv, Object
  <2>3. Running /\ busy
        BY <2>2 DEF At, Running
  <2>4. /\ Kind \in Kinds /\ Current = Program[Kind][step] /\ step \in 1..Len(Program[Kind])
        /\ call \in 1..Len(Current.calls) /\ Len(Current.calls) \in Nat /\ WellMade(Current)
        /\ item \in Items
        BY <2>3, Place DEF Running
  <2>5. call - 1 \in 1..Len(Current.calls) /\ before.op = "submit" /\ (call - 1) + 1 = call
    <3>1. call # 1 /\ Current.calls[call].op = "wait"
          BY <2>2, <2>3, WaitNext DEF This
    <3>2. call - 1 \in 1..Len(Current.calls) /\ (call - 1) + 1 = call /\ call - 1 < Len(Current.calls)
          BY <2>4, <3>1
    <3>3. QED
          BY <2>4, <3>1, <3>2 DEF WellMade, Waits
  <2>6. Head(gpuQueue) = s /\ DOMAIN gpuQueue = {1}
        BY <2>1, <2>2, QueueTypes DEF TypeOK
  <2>7. layout' = [layout EXCEPT ![item] = s.new]
          /\ written' = IF s.reads # {} THEN written \cup {s.target}
                        ELSE IF s.old = "undefined" THEN written \ {s.target}
                        ELSE written
    <3> DEFINE h == Head(gpuQueue)
    <3>1. layout' = [layout EXCEPT ![h.target[1]] = h.new]
            /\ written' = IF h.reads # {} THEN written \cup {h.target}
                          ELSE IF h.old = "undefined" THEN written \ {h.target}
                          ELSE written
          BY <1>6 DEF GpuFinish
    <3>2. h = s /\ s.target[1] = item
          BY <2>2, <2>6
    <3> HIDE DEF h, s
    <3>3. QED
          BY <3>1, <3>2
  <2>8. Copied(Current, call) =
          Copied(Current, call - 1) \cup IF before.reads # {} THEN {before.name} ELSE {}
    <3>1. call - 1 \in Nat \ {0}
          BY <2>4, <2>5
    <3>2. Copied(Current, (call - 1) + 1) =
            Copied(Current, call - 1) \cup IF before.op = "submit" /\ before.reads # {}
                                           THEN {before.name} ELSE {}
          BY <3>1, MadeGrows
    <3>3. QED
          BY <2>5, <3>2
  <2>9. s.reads # {} <=> before.reads # {}
        BY <2>2
  <2>10. \A n \in Copied(Current, call) :
           <<item, n>> \in written \/ (s.reads # {} /\ n = before.name)
    <3>1. \A n \in Copied(Current, call) :
            \/ <<item, n>> \in written
            \/ \E p \in DOMAIN gpuQueue : gpuQueue[p].target = <<item, n>>
                                       /\ gpuQueue[p].reads # {}
          BY <1>0, <2>3 DEF FilledInv, Object
    <3>2. ASSUME NEW n \in Copied(Current, call), NEW p \in DOMAIN gpuQueue,
                 gpuQueue[p].target = <<item, n>>, gpuQueue[p].reads # {}
          PROVE  s.reads # {} /\ n = before.name
      <4>1. gpuQueue[p] = s
            BY <2>6, <3>2
      <4>2. <<item, n>> = <<item, before.name>>
            BY <2>2, <3>2, <4>1
      <4>3. QED
            BY <3>2, <4>1, <4>2
    <3>3. QED
      <4>1. TAKE n \in Copied(Current, call)
      <4>2. CASE <<item, n>> \in written
            BY <4>2
      <4>3. CASE \E p \in DOMAIN gpuQueue : gpuQueue[p].target = <<item, n>>
                                         /\ gpuQueue[p].reads # {}
        <5>1. PICK p \in DOMAIN gpuQueue : gpuQueue[p].target = <<item, n>>
                                         /\ gpuQueue[p].reads # {}
              BY <4>3
        <5>2. s.reads # {} /\ n = before.name
              BY <3>2, <5>1
        <5>3. QED
              BY <5>2
      <4>4. QED
            BY <3>1, <4>2, <4>3
  <2>11. s.reads = {} /\ s.old = "undefined" => before.name \notin Copied(Current, call)
    <3>1. before.reads = {} /\ before.old = "undefined" =>
            before.name \notin Copied(Current, call - 1)
          BY <2>4, <2>5 DEF WellMade, Discards
    <3>2. QED
          BY <2>2, <2>8, <2>9, <3>1
  <2>12. \A n \in Copied(Current, call) : <<item, n>> \in written'
    <3>1. TAKE n \in Copied(Current, call)
    <3>2. CASE s.reads # {}
          BY <2>2, <2>7, <2>10, <3>2
    <3>3. CASE s.reads = {} /\ s.old = "undefined"
      <4>1. <<item, n>> \in written /\ n # before.name
            BY <2>10, <2>11, <3>3
      <4>2. <<item, n>> # s.target
            BY <2>2, <4>1
      <4>3. QED
            BY <2>7, <3>3, <4>1, <4>2
    <3>4. CASE s.reads = {} /\ s.old # "undefined"
          BY <2>7, <2>10, <3>4
    <3>5. QED
          BY <3>2, <3>3, <3>4
  <2>13. \A o \in written : o # s.target => o \in written'
         BY <2>7
  <2>14. before.name \notin Kept(Kind, step)
    <3>1. before.name \in Made(Current, call - 1)
          BY <2>4, <2>5 DEF WellMade, Discards
    <3>2. Made(Current, call - 1) \subseteq AllMade(Current)
      <4>1. 1..((call - 1) - 1) \subseteq 1..(Last(Current) - 1)
            BY <2>4 DEF Last
      <4>2. QED
            BY <4>1 DEF AllMade, Made
    <3>3. Kept(Kind, step) \cap AllMade(Current) = {}
          BY <2>4, KeptGrows
    <3>4. QED
          BY <3>1, <3>2, <3>3
  <2>15. {item} \X (Filled(Kind) \cap Kept(Kind, step)) \subseteq written'
    <3>1. {item} \X (Filled(Kind) \cap Kept(Kind, step)) \subseteq written
          BY <1>0, <2>3 DEF FilledInv, Kind
    <3>2. s.target \notin {item} \X (Filled(Kind) \cap Kept(Kind, step))
          BY <2>2, <2>14
    <3>3. QED
          BY <2>13, <3>1, <3>2
  <2>16. FilledWhenReturned'
    <3>1. Held' = Held /\ \A i \in Held : kind'[i] = kind[i]
          BY <2>1 DEF Held
    <3>2. \A i \in Held : /\ {i} \X Filled(kind[i]) \subseteq written
                          /\ kind[i] = "ui" => layout[i] = "shaderReadOnly"
          BY <1>0 DEF FilledInv, FilledWhenReturned
    <3>3. \A i \in Held : i # item /\ i \in Items
          BY <2>3, HeldIs
    <3>4. \A i \in Held : layout'[i] = layout[i]
          BY <2>7, <3>3 DEF TypeOK
    <3>5. \A i \in Held : {i} \X Filled(kind[i]) \subseteq written'
      <4>1. TAKE i \in Held
      <4>2. s.target \notin {i} \X Filled(kind[i])
            BY <2>2, <3>3
      <4>3. QED
            BY <2>13, <3>2, <4>2
    <3>6. \A i \in Held' : /\ {i} \X Filled(kind'[i]) \subseteq written'
                           /\ kind'[i] = "ui" => layout'[i] = "shaderReadOnly"
          BY <3>1, <3>2, <3>4, <3>5
    <3>7. QED
          BY <3>6, Zenon DEF FilledWhenReturned
  <2>17. Current' = Current /\ kind'[item'] = Kind
         BY <2>1 DEF Current, Steps, Kind
  <2>18. QED
         BY <2>1, <2>12, <2>15, <2>16, <2>17 DEF FilledInv, Object
<1>7. CASE UNCHANGED vars
  <2>1. FilledWhenReturned'
        BY <1>0, <1>7, ReturnedStay DEF vars, itemVars, gpuVars
  <2>2. QED
        BY <1>0, <1>7, <2>1 DEF FilledInv, Running, Current, Steps, Object, vars, callVars,
                                itemVars, placeVars, gpuVars
<1>8. QED
      BY <1>2, <1>3, <1>4, <1>5, <1>6, <1>7, NextCases
-----------------------------------------------------------------------------
(* The theorems.                                                           *)

\* The invariant is inductive: every call that succeeds or fails, every submission
\* the GPU finishes and every item begun or returned keeps it.
THEOREM Inductive == Spec => []Inv
<1>1. Init => Inv
  <2> SUFFICES ASSUME Init PROVE Inv
      OBVIOUS
  <2>1. PlaceInv
    <3>1. held = <<>> /\ start = 0 /\ ~busy
          BY DEF Init
    <3>2. QED
          BY <3>1 DEF PlaceInv
  <2>2. QED
        BY <2>1, TypeInit, ObjectInit, QueueInit, FilledInit, LayoutInit, BatchInit, SetsInit
        DEF Inv
<1>2. Inv /\ [Next]_vars => Inv'
      BY TypeNext, PlaceNext, ObjectNext, QueueNext, FilledNext, LayoutNext, BatchNext, SetsNext
      DEF Inv
<1>3. QED
      BY <1>1, <1>2, PTL DEF Spec

\* The variables of CreateMeshes and UI::Create have their types: places in the
\* programs, objects of the items begun, and submissions of those objects.
THEOREM TypeCorrect == Spec => []TypeOK
<1>1. Inv => TypeOK
      BY DEF Inv
<1>2. QED
      BY <1>1, Inductive, PTL

\* Meshes and UIs are made completely or not at all, whichever calls of Mesh::Create
\* and UI::Create fail: what exists is what was returned, and what the running
\* function will keep or destroy.
THEOREM NothingLeakedCorrect == Spec => []NothingLeaked
<1>1. Inv => NothingLeaked
      BY DEF Inv, ObjectInv, NothingLeaked, Running
<1>2. QED
      BY <1>1, Inductive, PTL

\* EndOneTimeSubmit waits before the staging buffer and what was copied to can be
\* destroyed, unless a call on the fence itself has failed.
THEOREM CopiesSafeCorrect == Spec => []CopiesSafe
<1>1. Inv => CopiesSafe
      BY DEF Inv, QueueInv, CopiesSafe
<1>2. QED
      BY <1>1, Inductive, PTL

\* What CreateMeshes and UI::Create return has its data, and the font image its
\* layout, even if the upload whose error Mesh::Create ignores has failed.
THEOREM FilledWhenReturnedCorrect == Spec => []FilledWhenReturned
<1>1. Inv => FilledWhenReturned
      BY DEF Inv, FilledInv, FilledWhenReturned
<1>2. QED
      BY <1>1, Inductive, PTL

\* Each copy and transition of Image::CreateFromMemory finds the image in the layout
\* it was recorded for, also after the fence was lost.
THEOREM LayoutsFollowCorrect == Spec => []LayoutsFollow
<1>1. Inv => LayoutsFollow
  <2> SUFFICES ASSUME Inv, gpuQueue # <<>>
               PROVE  layout[Head(gpuQueue).target[1]] = Head(gpuQueue).old
      BY DEF LayoutsFollow
  <2>1. 1 \in DOMAIN gpuQueue /\ Head(gpuQueue) = gpuQueue[1]
        BY QueueTypes DEF Inv, TypeOK
  <2>2. gpuQueue[1].old = layout[ItemAt(1)]
        BY <2>1 DEF Inv, LayoutInv
  <2>3. QED
        BY <2>1, <2>2 DEF ItemAt
<1>2. QED
      BY <1>1, Inductive, PTL

\* CreateMeshes reports no error just if it has made all meshes of the file, and
\* otherwise Meshes() has those before the one that failed.
THEOREM AllOrReportedCorrect == Spec => []AllOrReported
<1>1. Inv => AllOrReported
  <2> SUFFICES ASSUME Inv, ~busy
               PROVE  LET made == [n \in 1..MadeNo |-> kind[held[start + n]]] IN
                        /\ made = SubSeq(batch, 1, Len(made))
                        /\ result = "ok" => Len(made) = Len(batch)
                        /\ result = "error" => Len(made) < Len(batch)
      BY DEF AllOrReported, MadeNo
  <2> DEFINE made == [n \in 1..MadeNo |-> kind[held[start + n]]]
  <2>1. /\ \A n \in 1..MadeNo : kind[held[start + n]] = batch[n]
        /\ MadeNo <= Len(batch)
        /\ result = "ok" => MadeNo = Len(batch)
        /\ result = "error" => MadeNo < Len(batch)
        BY DEF Inv, BatchInv
  <2>2. MadeNo \in Nat /\ batch \in Seq(Kinds) /\ Len(batch) \in Nat
        BY DEF Inv, TypeOK, PlaceInv, MadeNo
  <2>3. \A n \in 1..MadeNo : batch[n] \in Kinds
        BY <2>1, <2>2
  <2>4. made = [n \in 1..MadeNo |-> batch[n]]
        BY <2>1
  <2>5. made \in Seq(Kinds) /\ Len(made) = MadeNo
        BY <2>2, <2>3, <2>4
  <2>6. SubSeq(batch, 1, MadeNo) = [n \in 1..MadeNo |-> batch[n]]
        BY <2>1, <2>2
  <2>7. QED
        BY <2>1, <2>4, <2>5, <2>6
<1>2. QED
      BY <1>1, Inductive, PTL

\* DescriptorSets::Allocate loses sets of the pool only to calls that failed.
THEOREM SetsLostToFailuresCorrect == Spec => []SetsLostToFailures
<1>1. Inv => SetsLostToFailures
  <2> SUFFICES ASSUME Inv PROVE SetsLostToFailures
      OBVIOUS
  <2>1. Len(held) \in Nat /\ sets \in Nat /\ Len(faulted) \in Nat
        BY UploadAssumption DEF Inv, TypeOK
  <2>2. QED
        BY <2>1 DEF Inv, SetsInv, SetsOfThis, SetsLostToFailures
<1>2. QED
      BY <1>1, Inductive, PTL
=============================================================================
