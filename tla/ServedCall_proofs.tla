------------------------- MODULE ServedCall_proofs -------------------------
(***************************************************************************)
(* Proofs about a call from the wire and back, for every message the wire  *)
(* can carry and every number of rounds.                                   *)
(*                                                                         *)
(* First the codec, for any type whose values are of bounded depth: what   *)
(* is read holds nothing the program must not meet, and what is written is *)
(* read back. A part of a message is sound when the wire can carry it and  *)
(* its reader takes it, or when the program can hold it; reading and       *)
(* writing make sound parts of sound parts. Then the types of the request  *)
(* and of the answer, what goes from the one into the other, and the       *)
(* invariant of the call.                                                  *)
(***************************************************************************)
EXTENDS ServedCall, ForecastCall_proofs

\* A set of types that has what its types are made of, at less depth, and whose
\* atoms and members are looked at.
Grammar(T) ==
  \A t \in T :
    /\ t.depth \in Nat
    /\ t.is \in {"atom", "time", "enum", "list", "message"}
    /\ t.is = "atom" => MarksOf(t.as) \subseteq t.unread
    /\ t.is = "enum" => t.members \cap Marks = {}
    /\ t.is = "list" => t.of \in T /\ t.of.depth < t.depth
    /\ t.is = "message" =>
         \A f \in DOMAIN t.fields :
           /\ t.fields[f].type \in T /\ t.fields[f].type.depth < t.depth
           /\ t.fields[f].lack \in {"refused", "none", "never", "default"}
           /\ t.fields[f].lack = "default" =>
                /\ t.fields[f].type.is = "message"
                /\ \A g \in DOMAIN t.fields[f].type.fields :
                     t.fields[f].type.fields[g].lack = "none"

\* What is inside a part belongs to the same view, and is of less depth.
LEMMA InsideFacts ==
  ASSUME NEW T, Grammar(T), NEW view, NEW t \in T, NEW v, NEW q \in Inside(<<view, t, v>>)
  PROVE  q = <<view, q[2], q[3]>> /\ q[2] \in T /\ q[2].depth < t.depth
<1>1. CASE t.is = "list"
  <2>1. PICK x \in Items(v) : q = <<view, t.of, x>>
    BY <1>1 DEF Inside
  <2> QED BY <1>1, <2>1 DEF Grammar
<1>2. CASE t.is = "message"
  <2>1. PICK f \in DOMAIN t.fields : q \in PartsInField(view, t.fields[f], f, v)
    BY <1>2 DEF Inside
  <2>2. PICK x : q = <<view, t.fields[f].type, x>>
    BY <2>1 DEF PartsInField
  <2> QED BY <1>2, <2>2 DEF Grammar
<1>3. CASE t.is \notin {"list", "message"}
  BY <1>3 DEF Inside
<1> QED BY <1>1, <1>2, <1>3

\* Parts, and what is inside those of the depth that comes next.
WithInside(n, d, X) == X \cup UNION {Inside(p) : p \in {q \in X : q[2].depth = n - d + 1}}

\* The function Parts is defined with.
DownFrom(root, n, f) ==
  f = [d \in 0 .. n |->
         IF d = 0 THEN {root}
         ELSE f[d - 1] \cup UNION {Inside(p) : p \in {q \in f[d - 1] : q[2].depth = n - d + 1}}]

LEMMA DownExists ==
  ASSUME NEW root, NEW n \in Nat
  PROVE  \E f : DownFrom(root, n, f)
<1> DEFINE More(d, X) == X \cup UNION {Inside(p) : p \in {q \in X : q[2].depth = n - d + 1}}
           Nxt(f)     == [d \in 0 .. n |-> IF d = 0 THEN {root} ELSE More(d, f[d - 1])]
           UpTo(f, k) == \A i \in 0 .. k : f[i] = Nxt(f)[i]
           Good       == {k \in 0 .. n : \E f : DOMAIN f = 0 .. n /\ f = [i \in 0 .. n |-> f[i]]
                                                /\ UpTo(f, k)}
<1> HIDE DEF More
<1>1. 0 \in Good
  <2> DEFINE g == [i \in 0 .. n |-> {root}]
  <2>1. UpTo(g, 0)
    OBVIOUS
  <2>2. DOMAIN g = 0 .. n /\ g = [i \in 0 .. n |-> g[i]] /\ 0 \in 0 .. n
    OBVIOUS
  <2> QED BY <2>1, <2>2
<1>2. ASSUME NEW k \in 1 .. n, k - 1 \in Good PROVE k \in Good
  <2>1. PICK f : DOMAIN f = 0 .. n /\ UpTo(f, k - 1)
    BY <1>2
  <2>2. ASSUME NEW i \in 0 .. k PROVE Nxt(f)[i] = Nxt(Nxt(f))[i]
    <3>1. CASE i = 0
      BY <3>1
    <3>2. CASE i # 0
      <4>1. i - 1 \in 0 .. k - 1 /\ i \in 0 .. n
        BY <3>2
      <4>2. f[i - 1] = Nxt(f)[i - 1]
        BY <2>1, <4>1
      <4>3. \A h : Nxt(h)[i] = More(i, h[i - 1])
        BY <3>2, <4>1
      <4> HIDE DEF Nxt
      <4> QED BY <4>2, <4>3
    <3> QED BY <3>1, <3>2
  <2>3. UpTo(Nxt(f), k)
    BY <2>2
  <2>4. DOMAIN Nxt(f) = 0 .. n /\ Nxt(f) = [i \in 0 .. n |-> Nxt(f)[i]] /\ k \in 0 .. n
    OBVIOUS
  <2> HIDE DEF Nxt, UpTo
  <2> QED BY <2>3, <2>4
<1>3. n \in Good
  <2>1. n \in 0 .. n
    OBVIOUS
  <2> HIDE DEF Good
  <2> QED BY <1>1, <1>2, <2>1, UpToInduction
<1>4. PICK f : f = [i \in 0 .. n |-> f[i]] /\ UpTo(f, n)
  BY <1>3
<1>5. f = Nxt(f)
  <2>1. \A i \in 0 .. n : f[i] = Nxt(f)[i]
    BY <1>4
  <2> QED BY <1>4, <2>1
<1>6. DownFrom(root, n, f)
  BY <1>5 DEF DownFrom, More
<1> QED BY <1>6

LEMMA PartsAreDown ==
  ASSUME NEW view, NEW type, NEW value, type.depth \in Nat
  PROVE  \E f : DownFrom(<<view, type, value>>, type.depth, f)
                /\ Parts(view, type, value) = f[type.depth]
<1> DEFINE F == CHOOSE f : DownFrom(<<view, type, value>>, type.depth, f)
<1>1. DownFrom(<<view, type, value>>, type.depth, F)
  BY DownExists
<1>2. Parts(view, type, value) = F[type.depth]
  BY DEF Parts, DownFrom
<1> QED BY <1>1, <1>2

\* Its steps.
DownInSteps(root, n, f) ==
  f[0] = {root} /\ \A d \in 1 .. n : f[d] = WithInside(n, d, f[d - 1])

LEMMA DownSteps ==
  ASSUME NEW root, NEW n \in Nat, NEW f, DownFrom(root, n, f)
  PROVE  DownInSteps(root, n, f)
<1> DEFINE More(d, X) == X \cup UNION {Inside(p) : p \in {q \in X : q[2].depth = n - d + 1}}
<1>1. f = [d \in 0 .. n |-> IF d = 0 THEN {root} ELSE More(d, f[d - 1])]
  BY DEF DownFrom
<1>2. \A d \in 0 .. n : f[d] = IF d = 0 THEN {root} ELSE More(d, f[d - 1])
  <2> HIDE DEF More
  <2> QED BY <1>1
<1>3. f[0] = {root}
  <2> HIDE DEF More
  <2>1. 0 \in 0 .. n
    OBVIOUS
  <2> QED BY <1>2, <2>1
<1>4. \A d \in 1 .. n : f[d] = More(d, f[d - 1])
  <2> HIDE DEF More
  <2>1. \A d \in 1 .. n : d \in 0 .. n /\ d # 0
    OBVIOUS
  <2> QED BY <1>2, <2>1
<1> QED BY <1>3, <1>4 DEF WithInside, DownInSteps

\* A value is a part of itself, and what is inside a part is a part.
LEMMA PartsFacts ==
  ASSUME NEW T, Grammar(T), NEW view, NEW type \in T, NEW value
  PROVE  /\ <<view, type, value>> \in Parts(view, type, value)
         /\ \A p \in Parts(view, type, value) :
              /\ p = <<view, p[2], p[3]>> /\ p[2] \in T
              /\ p = <<view, type, value>> \/ p[2].depth < type.depth
              /\ Inside(p) \subseteq Parts(view, type, value)
<1> DEFINE n    == type.depth
           root == <<view, type, value>>
<1>1. n \in Nat /\ root = <<view, root[2], root[3]>> /\ root[2] = type
  BY DEF Grammar
<1>2. PICK f : DownFrom(root, n, f) /\ Parts(view, type, value) = f[n]
  BY <1>1, PartsAreDown
<1> HIDE DEF n, root
<1>3. f[0] = {root} /\ \A d \in 1 .. n : f[d] = WithInside(n, d, f[d - 1])
  <2>1. DownInSteps(root, n, f)
    BY <1>1, <1>2, DownSteps
  <2> QED BY <2>1 DEF DownInSteps
<1>4. \A d \in 1 .. n : f[d] = WithInside(n, d, f[d - 1])
  BY <1>3
<1> DEFINE IsPart(p)  == p = <<view, p[2], p[3]>> /\ p[2] \in T /\ (p = root \/ p[2].depth < n)
           Good       == {d \in 0 .. n : \A p \in f[d] :
                            IsPart(p) /\ (p[2].depth >= n - d + 1 => Inside(p) \subseteq f[d])}
<1>5. IsPart(root) /\ root[2].depth = n
  BY <1>1 DEF n, root
<1>6. \A p : IsPart(p) => /\ p[2].depth \in Nat /\ p[2].depth <= n
                          /\ \A q \in Inside(p) : IsPart(q) /\ q[2].depth < p[2].depth
  <2> SUFFICES ASSUME NEW p, IsPart(p)
               PROVE  /\ p[2].depth \in Nat /\ p[2].depth <= n
                      /\ \A q \in Inside(p) : IsPart(q) /\ q[2].depth < p[2].depth
    OBVIOUS
  <2>1. p[2].depth \in Nat /\ p[2].depth <= n
    BY <1>1, <1>5 DEF Grammar
  <2>2. ASSUME NEW q \in Inside(p)
        PROVE  q = <<view, q[2], q[3]>> /\ q[2] \in T /\ q[2].depth < p[2].depth
    <3>1. q \in Inside(<<view, p[2], p[3]>>)
      OBVIOUS
    <3> QED BY <3>1, InsideFacts
  <2>3. \A q \in Inside(p) : q[2].depth \in Nat
    BY <2>2 DEF Grammar
  <2> QED BY <1>1, <2>1, <2>2, <2>3
<1>7. 0 \in Good
  <2>1. 0 \in 0 .. n
    BY <1>1
  <2>2. \A p \in f[0] : IsPart(p) /\ ~(p[2].depth >= n - 0 + 1)
    BY <1>1, <1>3, <1>5
  <2> QED BY <2>1, <2>2
<1>8. ASSUME NEW d \in 1 .. n, d - 1 \in Good PROVE d \in Good
  <2> DEFINE more == UNION {Inside(p) : p \in {q \in f[d - 1] : q[2].depth = n - d + 1}}
  <2>1. f[d] = f[d - 1] \cup more
    BY <1>4 DEF WithInside
  <2>2. \A p \in f[d - 1] : IsPart(p) /\ (p[2].depth >= n - (d - 1) + 1 => Inside(p) \subseteq f[d - 1])
    BY <1>8
  <2>3. ASSUME NEW q \in more PROVE IsPart(q) /\ q[2].depth < n - d + 1
    <3>1. PICK p \in f[d - 1] : p[2].depth = n - d + 1 /\ q \in Inside(p)
      OBVIOUS
    <3>2. IsPart(p)
      BY <2>2
    <3> HIDE DEF IsPart
    <3> QED BY <1>6, <3>1, <3>2
  <2>4. ASSUME NEW p \in f[d - 1], p[2].depth >= n - d + 1 PROVE Inside(p) \subseteq f[d]
    <3>1. CASE p[2].depth = n - d + 1
      <4>1. Inside(p) \subseteq more
        BY <2>4, <3>1
      <4> HIDE DEF more
      <4> QED BY <2>1, <4>1
    <3>2. CASE p[2].depth # n - d + 1
      <4>1. IsPart(p)
        BY <2>2
      <4>2. p[2].depth \in Nat
        BY <1>6, <4>1
      <4>3. p[2].depth >= n - (d - 1) + 1
        BY <1>1, <2>4, <3>2, <4>2
      <4> HIDE DEF more
      <4> QED BY <2>1, <2>2, <4>3
    <3> QED BY <3>1, <3>2
  <2>5. \A p \in more : IsPart(p) /\ ~(p[2].depth >= n - d + 1)
    <3>1. ASSUME NEW p \in more PROVE IsPart(p) /\ ~(p[2].depth >= n - d + 1)
      <4>1. IsPart(p) /\ p[2].depth < n - d + 1
        BY <2>3
      <4>2. p[2].depth \in Nat
        BY <1>6, <4>1
      <4> HIDE DEF IsPart, more
      <4> QED BY <1>1, <4>1, <4>2
    <3> HIDE DEF IsPart, more
    <3> QED BY <3>1
  <2>6. d \in 0 .. n
    BY <1>1
  <2>7. \A p \in f[d] : IsPart(p) /\ (p[2].depth >= n - d + 1 => Inside(p) \subseteq f[d])
    <3> HIDE DEF IsPart, more
    <3> QED BY <2>1, <2>2, <2>4, <2>5
  <2> QED BY <2>6, <2>7
<1>9. n \in Good
  <2>1. n \in 0 .. n
    BY <1>1
  <2> HIDE DEF Good
  <2> QED BY <1>1, <1>7, <1>8, <2>1, UpToInduction
<1>10. \A p \in f[n] : IsPart(p) /\ (p[2].depth >= 1 => Inside(p) \subseteq f[n])
  <2>1. n - n + 1 = 1
    BY <1>1
  <2> HIDE DEF IsPart
  <2> QED BY <1>9, <2>1
<1>11. ASSUME NEW p \in f[n] PROVE Inside(p) \subseteq f[n]
  <2>1. IsPart(p)
    BY <1>10
  <2>2. CASE p[2].depth >= 1
    BY <1>10, <2>2
  <2>3. CASE ~(p[2].depth >= 1)
    <3>1. ASSUME NEW q \in Inside(p) PROVE FALSE
      <4>1. IsPart(q) /\ q[2].depth < p[2].depth /\ p[2].depth \in Nat
        BY <1>6, <2>1
      <4>2. q[2].depth \in Nat
        BY <1>6, <4>1
      <4> HIDE DEF IsPart
      <4> QED BY <2>3, <4>1, <4>2
    <3> QED BY <3>1
  <2> QED BY <2>2, <2>3
<1>12. root \in f[n]
  <2> DEFINE X == {x \in {f[d] : d \in 0 .. n} : root \in x}
  <2>1. f[0] \in X
    <3>1. 0 \in 0 .. n
      BY <1>1
    <3> QED BY <1>3, <3>1
  <2>2. \A d \in 1 .. n : f[d - 1] \in X => f[d] \in X
    <3> SUFFICES ASSUME NEW d \in 1 .. n, root \in f[d - 1] PROVE f[d] \in X
      OBVIOUS
    <3>1. d \in 0 .. n
      BY <1>1
    <3>2. root \in f[d]
      BY <1>4 DEF WithInside
    <3> QED BY <3>1, <3>2
  <2>3. n \in 0 .. n
    BY <1>1
  <2>4. \A d \in 0 .. n : f[d] \in X
    <3> HIDE DEF X
    <3> QED BY <1>1, <2>1, <2>2, StaysUpTo
  <2> QED BY <2>3, <2>4
<1> QED BY <1>2, <1>10, <1>11, <1>12 DEF n, root

\* There are no other parts.
LEMMA PartsAreLeast ==
  ASSUME NEW T, Grammar(T), NEW view, NEW type \in T, NEW value, NEW C,
         <<view, type, value>> \in C, \A p \in C : Inside(p) \subseteq C
  PROVE  Parts(view, type, value) \subseteq C
<1> DEFINE n    == type.depth
           root == <<view, type, value>>
<1>1. n \in Nat
  BY DEF Grammar
<1>2. PICK f : DownFrom(root, n, f) /\ Parts(view, type, value) = f[n]
  BY <1>1, PartsAreDown
<1> HIDE DEF n, root
<1>3. f[0] = {root} /\ \A d \in 1 .. n : f[d] = WithInside(n, d, f[d - 1])
  <2>1. DownInSteps(root, n, f)
    BY <1>1, <1>2, DownSteps
  <2> QED BY <2>1 DEF DownInSteps
<1>4. \A d \in 1 .. n : f[d] = WithInside(n, d, f[d - 1])
  BY <1>3
<1>5. f[0] \in SUBSET C
  BY <1>3 DEF root
<1>6. \A d \in 1 .. n : f[d - 1] \in SUBSET C => f[d] \in SUBSET C
  BY <1>4 DEF WithInside
<1>7. n \in 0 .. n
  BY <1>1
<1>8. \A d \in 0 .. n : f[d] \in SUBSET C
  BY <1>1, <1>5, <1>6, StaysUpTo
<1> QED BY <1>2, <1>7, <1>8

\* The parts of a value are the value and the parts of what is inside it.
LEMMA PartsUnfold ==
  ASSUME NEW T, Grammar(T), NEW view, NEW type \in T, NEW value
  PROVE  /\ \A q \in Inside(<<view, type, value>>) :
              q[1] = view /\ q[2] \in T /\ Parts(view, q[2], q[3]) \subseteq Parts(view, type, value)
         /\ \A p \in Parts(view, type, value) :
              \/ p = <<view, type, value>>
              \/ \E q \in Inside(<<view, type, value>>) : p \in Parts(view, q[2], q[3])
<1> DEFINE root == <<view, type, value>>
           P    == Parts(view, type, value)
           C    == {root} \cup UNION {Parts(view, q[2], q[3]) : q \in Inside(root)}
<1>1. root \in P /\ Inside(root) \subseteq P /\ \A p \in P : Inside(p) \subseteq P
  BY PartsFacts
<1>2. \A q \in Inside(root) : q = <<view, q[2], q[3]>> /\ q[2] \in T
  BY InsideFacts
<1>3. ASSUME NEW q \in Inside(root) PROVE Parts(view, q[2], q[3]) \subseteq P
  BY <1>1, <1>2, PartsAreLeast
<1>4. P \subseteq C
  <2>1. ASSUME NEW q \in Inside(root)
        PROVE  q \in Parts(view, q[2], q[3])
               /\ \A p \in Parts(view, q[2], q[3]) : Inside(p) \subseteq Parts(view, q[2], q[3])
    <3>1. q = <<view, q[2], q[3]>> /\ q[2] \in T
      BY <1>2
    <3> QED BY <3>1, PartsFacts
  <2>2. \A p \in C : Inside(p) \subseteq C
    BY <2>1
  <2> HIDE DEF C
  <2>3. root \in C
    BY DEF C
  <2> QED BY <2>2, <2>3, PartsAreLeast
<1>5. \A q \in Inside(root) : q[1] = view
  <2>1. ASSUME NEW q \in Inside(root) PROVE q[1] = view
    <3>1. q = <<view, q[2], q[3]>>
      BY <1>2
    <3> QED BY <3>1
  <2> QED BY <2>1
<1> QED BY <1>2, <1>3, <1>4, <1>5

-----------------------------------------------------------------------------
(* Conversion: a value is converted by what its parts are converted to. *)

\* A part as it is when it is converted: read after it has been looked at, and
\* written when it is an object of the program.
Sound(p) ==
  \/ p[1] = "wire" /\ Possible(p[2], p[3]) /\ ReadableItself(p[2], p[3])
  \/ p[1] = "held" /\ Proper(p[2], p[3])

AllSound(view, type, value) == \A p \in Parts(view, type, value) : Sound(p)

\* To convert a part, only what the parts inside it are converted to is needed.
LEMMA ConvertedLocally ==
  ASSUME NEW T, Grammar(T), NEW view, NEW t \in T, NEW v, Sound(<<view, t, v>>),
         NEW g, NEW h, \A q \in Inside(<<view, t, v>>) : g[q] = h[q]
  PROVE  Converted(<<view, t, v>>, g) = Converted(<<view, t, v>>, h)
<1> DEFINE p == <<view, t, v>>
<1>1. CASE t.is \in {"atom", "enum", "time"}
  BY <1>1 DEF Converted
<1>2. CASE t.is = "list"
  <2>1. \A i \in DOMAIN v : <<view, t.of, v[i]>> \in Inside(p)
    BY <1>2 DEF Inside, Items
  <2>2. \A i \in DOMAIN v : g[<<view, t.of, v[i]>>] = h[<<view, t.of, v[i]>>]
    BY <2>1
  <2>3. [i \in DOMAIN v |-> g[<<view, t.of, v[i]>>]] = [i \in DOMAIN v |-> h[<<view, t.of, v[i]>>]]
    BY <2>2
  <2> QED BY <1>2, <2>3 DEF Converted
<1>3. CASE t.is = "message" /\ view = "wire"
  <2>1. ASSUME NEW f \in DOMAIN t.fields, NEW x \in InField(view, t.fields[f], f, v)
        PROVE  g[<<view, t.fields[f].type, x>>] = h[<<view, t.fields[f].type, x>>]
    <3>1. <<view, t.fields[f].type, x>> \in PartsInField(view, t.fields[f], f, v)
      BY DEF PartsInField
    <3>2. <<view, t.fields[f].type, x>> \in Inside(p)
      BY <1>3, <3>1 DEF Inside
    <3> QED BY <3>2
  <2>2. Sound(p) => \A f \in DOMAIN t.fields :
                      t.fields[f].lack \in {"refused", "never"} => f \in DOMAIN v
    BY <1>3 DEF Sound, Possible, ReadableItself
  <2>3. ASSUME NEW f \in DOMAIN t.fields
        PROVE  ReadMessage(t, v, g)[f] = ReadMessage(t, v, h)[f]
    <3>1. t.fields[f].lack \in {"refused", "none", "never", "default"}
      BY <1>3 DEF Grammar
    <3>2. CASE t.fields[f].lack = "none"
      <4>1. f \in DOMAIN v => v[f] \in InField(view, t.fields[f], f, v)
        BY <1>3 DEF InField
      <4> QED BY <1>3, <2>1, <3>2, <4>1 DEF ReadMessage
    <3>3. CASE t.fields[f].lack = "default"
      <4>1. (IF f \in DOMAIN v THEN v[f] ELSE NoFields(t.fields[f].type))
              \in InField(view, t.fields[f], f, v)
        BY <1>3, <3>3 DEF InField
      <4> QED BY <1>3, <2>1, <3>3, <4>1 DEF ReadMessage
    <3>4. CASE t.fields[f].lack \in {"refused", "never"}
      <4>1. v[f] \in InField(view, t.fields[f], f, v)
        BY <1>3, <2>2, <3>4 DEF InField
      <4> QED BY <1>3, <2>1, <3>4, <4>1 DEF ReadMessage
    <3> QED BY <3>1, <3>2, <3>3, <3>4
  <2>4. \A k : /\ ReadMessage(t, v, k) = [f \in DOMAIN t.fields |-> ReadMessage(t, v, k)[f]]
    BY DEF ReadMessage
  <2>5. ReadMessage(t, v, g) = ReadMessage(t, v, h)
    BY <2>3, <2>4
  <2> QED BY <1>3, <2>5 DEF Converted
<1>4. CASE t.is = "message" /\ view # "wire"
  <2>0. view = "held" /\ Proper(t, v)
    BY <1>4 DEF Sound
  <2> DEFINE Of(f) == <<view, t.fields[f].type,
                        IF t.fields[f].lack = "none" THEN v[f][1] ELSE v[f]>>
             D     == {f \in DOMAIN t.fields : IsWritten(t.fields[f], v[f])}
  <2>1. ASSUME NEW f \in D PROVE g[Of(f)] = h[Of(f)]
    <3> DEFINE x == IF t.fields[f].lack = "none" THEN v[f][1] ELSE v[f]
    <3>1. x \in InField(view, t.fields[f], f, v)
      <4>1. CASE t.fields[f].lack = "none"
        <5>1. v[f] = <<v[f][1]>>
          BY <1>4, <2>0, <4>1 DEF Proper, IsWritten
        <5>2. 1 \in DOMAIN v[f]
          BY <5>1
        <5> QED BY <2>0, <4>1, <5>2 DEF InField, Items
      <4>2. CASE t.fields[f].lack # "none"
        BY <2>0, <4>2 DEF InField
      <4> QED BY <4>1, <4>2
    <3>2. <<view, t.fields[f].type, x>> \in PartsInField(view, t.fields[f], f, v)
      BY <3>1 DEF PartsInField
    <3>3. <<view, t.fields[f].type, x>> \in Inside(p)
      BY <1>4, <3>2 DEF Inside
    <3> QED BY <3>3
  <2>2. \A k : WrittenMessage(t, v, k) = [f \in D |-> k[<<"held", t.fields[f].type,
                        IF t.fields[f].lack = "none" THEN v[f][1] ELSE v[f]>>]]
    BY DEF WrittenMessage
  <2>3. WrittenMessage(t, v, g) = WrittenMessage(t, v, h)
    BY <2>0, <2>1, <2>2
  <2> QED BY <1>4, <2>0, <2>3 DEF Converted
<1> QED BY <1>1, <1>2, <1>3, <1>4 DEF Grammar

\* The function Conversion is defined with.
Makes(g, P) == g = [p \in P |-> Converted(p, g)]

Conv(p) == Conversion(p[1], p[2], p[3])

Unfolds(p) == Conv(p) = Converted(p, [q \in Inside(p) |-> Conv(q)])

LEMMA ConversionIsMade ==
  ASSUME NEW view, NEW type, NEW value, NEW h, Makes(h, Parts(view, type, value))
  PROVE  \E g : Makes(g, Parts(view, type, value))
                /\ Conversion(view, type, value) = g[<<view, type, value>>]
<1> DEFINE P == Parts(view, type, value)
           G == CHOOSE g : Makes(g, P)
<1>1. Makes(G, P)
  OBVIOUS
<1>2. Conversion(view, type, value) = G[<<view, type, value>>]
  BY DEF Conversion, Makes
<1> QED BY <1>1, <1>2

\* What Makes gives a part.
LEMMA MadeOf ==
  ASSUME NEW g, NEW P, Makes(g, P), NEW p \in P
  PROVE  g[p] = Converted(p, g)
<1> DEFINE h == [q \in P |-> Converted(q, g)]
<1>1. h[p] = Converted(p, g)
  OBVIOUS
<1>2. g = h
  BY DEF Makes
<1> HIDE DEF h
<1>3. g[p] = h[p]
  BY <1>2
<1> QED BY <1>1, <1>3

\* When the parts of less depth unfold, all that is made of them is their
\* conversion.
LEMMA MadeAgrees ==
  ASSUME NEW T, Grammar(T), NEW view, NEW P,
         \A p \in P : /\ p = <<view, p[2], p[3]>> /\ p[2] \in T /\ Sound(p)
                      /\ Inside(p) \subseteq P,
         NEW n \in Nat, \A p \in P : p[2].depth < n => Unfolds(p),
         NEW g, Makes(g, P)
  PROVE  \A p \in P : p[2].depth < n => g[p] = Conv(p)
<1> DEFINE Agree(p) == g[p] = Conv(p)
           Good     == {d \in 0 .. n : \A p \in P : p[2].depth < d => Agree(p)}
<1>1. \A p \in P : p[2].depth \in Nat
  BY DEF Grammar
<1>2. 0 \in Good
  BY <1>1
<1>3. ASSUME NEW d \in 1 .. n, d - 1 \in Good PROVE d \in Good
  <2>1. ASSUME NEW p \in P, p[2].depth < d PROVE g[p] = Conv(p)
    <3>1. /\ p = <<view, p[2], p[3]>> /\ p[2] \in T /\ Sound(p) /\ Inside(p) \subseteq P
          /\ p[2].depth < n
      BY <1>1, <2>1
    <3>2. \A q \in Inside(p) : q[2].depth < p[2].depth
      <4>1. \A q \in Inside(<<view, p[2], p[3]>>) : q[2].depth < p[2].depth
        BY <3>1, InsideFacts
      <4> QED BY <3>1, <4>1
    <3>3. ASSUME NEW q \in Inside(p) PROVE g[q] = Conv(q)
      <4>1. q \in P /\ q[2].depth < d - 1
        BY <1>1, <2>1, <3>1, <3>2
      <4> QED BY <1>3, <4>1
    <3>4. \A q \in Inside(p) : g[q] = [x \in Inside(p) |-> Conv(x)][q]
      BY <3>3
    <3> DEFINE k == [x \in Inside(p) |-> Conv(x)]
    <3>5. Converted(p, g) = Converted(p, k)
      <4>1. Sound(<<view, p[2], p[3]>>) /\ \A q \in Inside(<<view, p[2], p[3]>>) : g[q] = k[q]
        BY <3>1, <3>4
      <4> HIDE DEF k
      <4>2. Converted(<<view, p[2], p[3]>>, g) = Converted(<<view, p[2], p[3]>>, k)
        BY <3>1, <4>1, ConvertedLocally
      <4> QED BY <3>1, <4>2
    <3>6. Conv(p) = Converted(p, [x \in Inside(p) |-> Conv(x)])
      BY <3>1 DEF Unfolds
    <3>7. g[p] = Converted(p, g)
      BY MadeOf
    <3> QED BY <3>5, <3>6, <3>7
  <2>2. d \in 0 .. n
    OBVIOUS
  <2> QED BY <2>1, <2>2
<1>4. n \in Good
  <2>1. n \in 0 .. n
    OBVIOUS
  <2> HIDE DEF Good
  <2> QED BY <1>2, <1>3, <2>1, UpToInduction
<1> QED BY <1>4

LEMMA UnfoldsNext ==
  ASSUME NEW T, Grammar(T), NEW view, NEW t \in T, NEW v, AllSound(view, t, v),
         \A p \in Parts(view, t, v) : p[2].depth < t.depth => Unfolds(p)
  PROVE  Unfolds(<<view, t, v>>)
<1> DEFINE root == <<view, t, v>>
           P    == Parts(view, t, v)
           K(p) == [q \in Inside(p) |-> Conv(q)]
           G    == [p \in P |-> IF p = root THEN Converted(root, K(root)) ELSE Conv(p)]
<1>1. /\ root \in P /\ root[2] = t /\ t.depth \in Nat
      /\ \A p \in P : /\ p = <<view, p[2], p[3]>> /\ p[2] \in T /\ Sound(p)
                      /\ p = root \/ p[2].depth < t.depth
                      /\ Inside(p) \subseteq P
  BY PartsFacts DEF AllSound, Grammar
<1>2. ASSUME NEW p \in P, NEW g, NEW h, \A q \in Inside(p) : g[q] = h[q]
      PROVE  Converted(p, g) = Converted(p, h)
  <2>1. p = <<view, p[2], p[3]>> /\ p[2] \in T /\ Sound(p)
    BY <1>1
  <2>2. Converted(<<view, p[2], p[3]>>, g) = Converted(<<view, p[2], p[3]>>, h)
    BY <1>2, <2>1, ConvertedLocally
  <2> QED BY <2>1, <2>2
<1>3. ASSUME NEW p \in P, NEW q \in Inside(p) PROVE q \in P /\ q # root /\ q[2].depth < t.depth
  <2>1. p = <<view, p[2], p[3]>> /\ p[2] \in T /\ p[2].depth \in Nat /\ p[2].depth <= t.depth
    BY <1>1 DEF Grammar
  <2>2. q \in P /\ q[2].depth \in Nat
    BY <1>1 DEF Grammar
  <2>3. q[2].depth < p[2].depth
    <3>1. q \in Inside(<<view, p[2], p[3]>>)
      BY <2>1
    <3> QED BY <2>1, <3>1, InsideFacts
  <2> QED BY <1>1, <2>1, <2>2, <2>3
<1>4. ASSUME NEW p \in P PROVE G[p] = Converted(p, G)
  <2>1. \A q \in Inside(p) : G[q] = Conv(q)
    BY <1>3
  <2>2. \A q \in Inside(p) : G[q] = K(p)[q]
    BY <2>1
  <2>3. Converted(p, K(p)) = Converted(p, G)
    <3> DEFINE k == K(p)
    <3>1. \A q \in Inside(p) : k[q] = G[q]
      BY <2>2
    <3> HIDE DEF k, G
    <3>2. Converted(p, k) = Converted(p, G)
      BY <1>2, <3>1
    <3> QED BY <3>2 DEF k
  <2>4. G[p] = Converted(p, K(p))
    <3>1. CASE p = root
      BY <1>1, <3>1
    <3>2. CASE p # root
      <4>1. Unfolds(p)
        BY <1>1, <3>2
      <4>2. Conv(p) = Converted(p, K(p))
        BY <4>1 DEF Unfolds
      <4>3. G[p] = Conv(p)
        BY <3>2
      <4> HIDE DEF G, K
      <4> QED BY <4>2, <4>3
    <3> QED BY <3>1, <3>2
  <2> HIDE DEF G, K
  <2> QED BY <2>3, <2>4
<1>5. Makes(G, P)
  <2>1. G = [p \in P |-> G[p]]
    OBVIOUS
  <2> HIDE DEF G
  <2> QED BY <1>4, <2>1 DEF Makes
<1>6. PICK g : Makes(g, P) /\ Conversion(view, t, v) = g[root]
  <2> HIDE DEF G
  <2> QED BY <1>5, ConversionIsMade
<1>7. \A p \in P : p[2].depth < t.depth => g[p] = Conv(p)
  <2> HIDE DEF P, root
  <2>1. \A p \in P : p[2].depth < t.depth => Unfolds(p)
    BY DEF P
  <2>2. \A p \in P : p = <<view, p[2], p[3]>> /\ p[2] \in T /\ Sound(p) /\ Inside(p) \subseteq P
    BY <1>1
  <2> QED BY <1>1, <1>6, <2>1, <2>2, MadeAgrees
<1>8. Converted(root, g) = Converted(root, K(root))
  <2> DEFINE k == K(root)
  <2>1. \A q \in Inside(root) : g[q] = k[q]
    BY <1>1, <1>3, <1>7
  <2> HIDE DEF k, P, G
  <2>2. Converted(root, g) = Converted(root, k)
    BY <1>1, <1>2, <2>1
  <2> QED BY <2>2 DEF k
<1>9. g[root] = Converted(root, g)
  BY <1>1, <1>6, MadeOf
<1>10. Conv(root) = Conversion(view, t, v)
  BY DEF Conv
<1>11. Conv(root) = Converted(root, K(root))
  <2> HIDE DEF root, K, P, G
  <2> QED BY <1>6, <1>8, <1>9, <1>10
<1> QED BY <1>11 DEF Unfolds

\* All parts inside a sound value are sound.
LEMMA SoundInside ==
  ASSUME NEW T, Grammar(T), NEW view, NEW t \in T, NEW v, AllSound(view, t, v),
         NEW p \in Parts(view, t, v)
  PROVE  p = <<view, p[2], p[3]>> /\ p[2] \in T /\ AllSound(view, p[2], p[3])
<1>0. \A q \in Parts(view, t, v) : /\ q = <<view, q[2], q[3]>> /\ q[2] \in T
                                   /\ q = <<view, t, v>> \/ q[2].depth < t.depth
                                   /\ Inside(q) \subseteq Parts(view, t, v)
  BY PartsFacts
<1>1. p = <<view, p[2], p[3]>> /\ p[2] \in T
      /\ \A q \in Parts(view, t, v) : Inside(q) \subseteq Parts(view, t, v)
  BY <1>0
<1>2. Parts(view, p[2], p[3]) \subseteq Parts(view, t, v)
  <2> DEFINE C == Parts(view, t, v)
  <2>1. <<view, p[2], p[3]>> \in C /\ \A q \in C : Inside(q) \subseteq C
    BY <1>1
  <2> HIDE DEF C
  <2>2. Parts(view, p[2], p[3]) \subseteq C
    BY <1>1, <2>1, PartsAreLeast
  <2> QED BY <2>2 DEF C
<1> QED BY <1>1, <1>2 DEF AllSound

LEMMA ConversionUnfolds ==
  ASSUME NEW T, Grammar(T), NEW view, NEW type \in T, NEW value, AllSound(view, type, value)
  PROVE  Unfolds(<<view, type, value>>)
<1> DEFINE n    == type.depth + 1
           Good == {d \in 0 .. n :
                      \A t \in T : \A v : t.depth < d /\ AllSound(view, t, v) => Unfolds(<<view, t, v>>)}
<1>1. n \in Nat /\ type.depth < n /\ \A t \in T : t.depth \in Nat
  BY DEF Grammar
<1> HIDE DEF n
<1>2. 0 \in Good
  BY <1>1
<1>3. ASSUME NEW d \in 1 .. n, d - 1 \in Good PROVE d \in Good
  <2>1. ASSUME NEW t \in T, NEW v, t.depth < d, AllSound(view, t, v) PROVE Unfolds(<<view, t, v>>)
    <3>1. ASSUME NEW p \in Parts(view, t, v), p[2].depth < t.depth PROVE Unfolds(p)
      <4>1. p = <<view, p[2], p[3]>> /\ p[2] \in T /\ AllSound(view, p[2], p[3])
        BY <2>1, SoundInside
      <4>2. p[2].depth < d - 1
        BY <1>1, <2>1, <3>1, <4>1
      <4>3. Unfolds(<<view, p[2], p[3]>>)
        BY <1>3, <4>1, <4>2
      <4> QED BY <4>1, <4>3
    <3> QED BY <2>1, <3>1, UnfoldsNext
  <2>2. d \in 0 .. n
    BY <1>1
  <2> QED BY <2>1, <2>2
<1>4. n \in Good
  <2>1. n \in 0 .. n
    BY <1>1
  <2> HIDE DEF Good
  <2> QED BY <1>1, <1>2, <1>3, <2>1, UpToInduction
<1> QED BY <1>1, <1>4

-----------------------------------------------------------------------------
(* What is read, and what is written, kind by kind. *)

LEMMA SoundIn ==
  ASSUME NEW T, Grammar(T), NEW view, NEW t \in T, NEW v, AllSound(view, t, v)
  PROVE  /\ Sound(<<view, t, v>>)
         /\ \A q \in Inside(<<view, t, v>>) :
              q = <<view, q[2], q[3]>> /\ q[2] \in T /\ q[2].depth < t.depth /\ AllSound(view, q[2], q[3])
<1>1. /\ <<view, t, v>> \in Parts(view, t, v) /\ Sound(<<view, t, v>>)
      /\ \A p \in Parts(view, t, v) : Inside(p) \subseteq Parts(view, t, v)
  BY PartsFacts DEF AllSound
<1>2. ASSUME NEW q \in Inside(<<view, t, v>>)
      PROVE  q = <<view, q[2], q[3]>> /\ q[2] \in T /\ q[2].depth < t.depth /\ AllSound(view, q[2], q[3])
  <2>1. q \in Parts(view, t, v)
    BY <1>1
  <2> QED BY <2>1, InsideFacts, SoundInside
<1> QED BY <1>1, <1>2

LEMMA ConvLeaf ==
  ASSUME NEW T, Grammar(T), NEW view, NEW t \in T, NEW v, AllSound(view, t, v)
  PROVE  /\ t.is \in {"atom", "enum"} => Conversion(view, t, v) = v
         /\ t.is = "time" => Conversion(view, t, v) = IF view = "wire" THEN Truncated(v) ELSE v
<1> DEFINE k == [q \in Inside(<<view, t, v>>) |-> Conv(q)]
<1>1. Conversion(view, t, v) = Converted(<<view, t, v>>, k)
  BY ConversionUnfolds DEF Unfolds, Conv
<1> QED BY <1>1 DEF Converted

LEMMA ConvList ==
  ASSUME NEW T, Grammar(T), NEW view, NEW t \in T, NEW v, AllSound(view, t, v), t.is = "list"
  PROVE  Conversion(view, t, v) = [i \in DOMAIN v |-> Conversion(view, t.of, v[i])]
<1> DEFINE k == [q \in Inside(<<view, t, v>>) |-> Conv(q)]
<1>1. Conversion(view, t, v) = Converted(<<view, t, v>>, k)
  BY ConversionUnfolds DEF Unfolds, Conv
<1>2. Converted(<<view, t, v>>, k) = [i \in DOMAIN v |-> k[<<view, t.of, v[i]>>]]
  <2> HIDE DEF k
  <2> QED BY DEF Converted
<1>3. \A i \in DOMAIN v : k[<<view, t.of, v[i]>>] = Conversion(view, t.of, v[i])
  BY DEF Inside, Items, Conv
<1> HIDE DEF k
<1> QED BY <1>1, <1>2, <1>3

\* The parts of a field are inside the message.
LEMMA FieldInside ==
  ASSUME NEW view, NEW t, NEW v, t.is = "message",
         NEW f \in DOMAIN t.fields, NEW x \in InField(view, t.fields[f], f, v)
  PROVE  <<view, t.fields[f].type, x>> \in Inside(<<view, t, v>>)
<1>1. <<view, t.fields[f].type, x>> \in PartsInField(view, t.fields[f], f, v)
  BY DEF PartsInField
<1> QED BY <1>1 DEF Inside

\* What the field f is read as.
FieldRead(field, f, w) ==
  CASE field.lack = "none"    -> IF f \in DOMAIN w THEN <<Read(field.type, w[f])>> ELSE <<>>
    [] field.lack = "default" ->
         Read(field.type, IF f \in DOMAIN w THEN w[f] ELSE NoFields(field.type))
    [] OTHER -> Read(field.type, w[f])

LEMMA ConvRead ==
  ASSUME NEW T, Grammar(T), NEW t \in T, NEW w, AllSound("wire", t, w), t.is = "message"
  PROVE  Read(t, w) = [f \in DOMAIN t.fields |-> FieldRead(t.fields[f], f, w)]
<1> DEFINE root == <<"wire", t, w>>
           k    == [q \in Inside(root) |-> Conv(q)]
<1>1. Read(t, w) = Converted(root, k)
  BY ConversionUnfolds DEF Unfolds, Conv, Read
<1>2. Converted(root, k) = ReadMessage(t, w, k)
  <2> HIDE DEF k
  <2> QED BY DEF Converted
<1>3. ASSUME NEW f \in DOMAIN t.fields, NEW x \in InField("wire", t.fields[f], f, w)
      PROVE  k[<<"wire", t.fields[f].type, x>>] = Read(t.fields[f].type, x)
  BY FieldInside DEF Conv, Read
<1>4. \A f \in DOMAIN t.fields :
        t.fields[f].lack \in {"refused", "never"} => f \in DOMAIN w
  <2>1. Sound(root)
    BY SoundIn
  <2> QED BY <2>1 DEF Sound, Possible, ReadableItself
<1>5. ASSUME NEW f \in DOMAIN t.fields
      PROVE  ReadMessage(t, w, k)[f] = FieldRead(t.fields[f], f, w)
  <2> HIDE DEF k, root
  <2>1. t.fields[f].lack \in {"refused", "none", "never", "default"}
    BY DEF Grammar
  <2>2. CASE t.fields[f].lack = "none"
    <3>1. f \in DOMAIN w => w[f] \in InField("wire", t.fields[f], f, w)
      BY DEF InField
    <3> QED BY <1>3, <2>2, <3>1 DEF ReadMessage, FieldRead
  <2>3. CASE t.fields[f].lack = "default"
    <3>1. (IF f \in DOMAIN w THEN w[f] ELSE NoFields(t.fields[f].type))
            \in InField("wire", t.fields[f], f, w)
      BY <2>3 DEF InField
    <3> QED BY <1>3, <2>3, <3>1 DEF ReadMessage, FieldRead
  <2>4. CASE t.fields[f].lack \in {"refused", "never"}
    <3>1. w[f] \in InField("wire", t.fields[f], f, w)
      BY <1>4, <2>4 DEF InField
    <3> QED BY <1>3, <2>4, <3>1 DEF ReadMessage, FieldRead
  <2> QED BY <2>1, <2>2, <2>3, <2>4
<1>6. ReadMessage(t, w, k) = [f \in DOMAIN t.fields |-> ReadMessage(t, w, k)[f]]
  BY DEF ReadMessage
<1> HIDE DEF k, root
<1> QED BY <1>1, <1>2, <1>5, <1>6

\* The fields that are written.
WrittenFields(t, v) == {f \in DOMAIN t.fields : t.fields[f].lack = "none" => v[f] # <<>>}

FieldWritten(field, f, v) == Written(field.type, IF field.lack = "none" THEN v[f][1] ELSE v[f])

LEMMA ConvWritten ==
  ASSUME NEW T, Grammar(T), NEW t \in T, NEW v, AllSound("held", t, v), t.is = "message"
  PROVE  Written(t, v) = [f \in WrittenFields(t, v) |-> FieldWritten(t.fields[f], f, v)]
<1> DEFINE root  == <<"held", t, v>>
           k     == [q \in Inside(root) |-> Conv(q)]
           One(f) == IF t.fields[f].lack = "none" THEN v[f][1] ELSE v[f]
<1>1. Written(t, v) = Converted(root, k)
  BY ConversionUnfolds DEF Unfolds, Conv, Written
<1>2. Converted(root, k) = WrittenMessage(t, v, k)
  <2> HIDE DEF k
  <2> QED BY DEF Converted
<1>3. ASSUME NEW f \in DOMAIN t.fields, NEW x \in InField("held", t.fields[f], f, v)
      PROVE  k[<<"held", t.fields[f].type, x>>] = Written(t.fields[f].type, x)
  BY FieldInside DEF Conv, Written
<1>4. ASSUME NEW f \in WrittenFields(t, v) PROVE One(f) \in InField("held", t.fields[f], f, v)
  <2>1. CASE t.fields[f].lack = "none"
    <3>1. Sound(root)
      BY SoundIn
    <3>2. v[f] = <<v[f][1]>>
      BY <2>1, <3>1 DEF Sound, Proper, WrittenFields
    <3>3. 1 \in DOMAIN v[f]
      BY <3>2
    <3> QED BY <2>1, <3>3 DEF InField, Items
  <2>2. CASE t.fields[f].lack # "none"
    BY <2>2 DEF InField
  <2> QED BY <2>1, <2>2
<1>5. WrittenMessage(t, v, k) = [f \in WrittenFields(t, v) |-> k[<<"held", t.fields[f].type, One(f)>>]]
  <2> HIDE DEF k
  <2> QED BY DEF WrittenMessage, WrittenFields, IsWritten
<1>6. \A f \in WrittenFields(t, v) :
        k[<<"held", t.fields[f].type, One(f)>>] = FieldWritten(t.fields[f], f, v)
  <2>1. ASSUME NEW f \in WrittenFields(t, v)
        PROVE  k[<<"held", t.fields[f].type, One(f)>>] = Written(t.fields[f].type, One(f))
    <3>1. f \in DOMAIN t.fields
      BY DEF WrittenFields
    <3> HIDE DEF k, One
    <3> QED BY <1>3, <1>4, <3>1
  <2> HIDE DEF k
  <2> QED BY <2>1 DEF FieldWritten
<1> HIDE DEF k, root, One
<1> QED BY <1>1, <1>2, <1>5, <1>6

-----------------------------------------------------------------------------
(* What is read is an object of the program, and can be written. *)

LEMMA ListOf ==
  ASSUME NEW s, IsList(s), NEW r, DOMAIN r = DOMAIN s, r = [i \in DOMAIN s |-> r[i]]
  PROVE  IsList(r)
<1>1. Len(s) \in Nat /\ DOMAIN s = 1 .. Len(s)
  BY DEF IsList
<1>2. r = [i \in 1 .. Len(s) |-> r[i]]
  BY <1>1
<1>3. Len(r) = Len(s)
  BY <1>1, <1>2
<1> QED BY <1>1, <1>2, <1>3 DEF IsList

LEMMA ReadProper ==
  ASSUME NEW T, Grammar(T), NEW t \in T, NEW w, AllSound("wire", t, w)
  PROVE  Proper(t, Read(t, w))
<1>0. Sound(<<"wire", t, w>>)
  BY SoundIn
<1>1. Possible(t, w) /\ ReadableItself(t, w)
  BY <1>0 DEF Sound
<1>2. CASE t.is \in {"atom", "enum"}
  <2>1. Read(t, w) = w
    BY <1>2, ConvLeaf DEF Read
  <2> QED BY <1>1, <1>2, <2>1 DEF Proper, Possible, ReadableItself
<1>3. CASE t.is = "time"
  <2>1. Read(t, w) = Truncated(w)
    BY <1>3, ConvLeaf DEF Read
  <2> QED BY <1>1, <1>3, <2>1 DEF Proper, ReadableItself
<1>4. CASE t.is = "list"
  <2> DEFINE r == Read(t, w)
  <2>1. r = [i \in DOMAIN w |-> Conversion("wire", t.of, w[i])]
    BY <1>4, ConvList DEF Read
  <2>2. DOMAIN r = DOMAIN w /\ r = [i \in DOMAIN w |-> r[i]]
    <3> HIDE DEF r
    <3> QED BY <2>1
  <2>3. IsList(r)
    <3> HIDE DEF r
    <3> QED BY <1>1, <1>4, <2>2, ListOf DEF Possible
  <2> QED BY <1>4, <2>3 DEF Proper
<1>5. CASE t.is = "message"
  <2> DEFINE r == Read(t, w)
  <2>1. r = [f \in DOMAIN t.fields |-> FieldRead(t.fields[f], f, w)]
    BY <1>5, ConvRead
  <2> HIDE DEF r
  <2>2. r = [f \in DOMAIN t.fields |-> r[f]]
    BY <2>1
  <2>3. ASSUME NEW f \in DOMAIN t.fields, t.fields[f].lack = "none"
        PROVE  r[f] = <<>> \/ r[f] = <<r[f][1]>>
    <3>1. r[f] = FieldRead(t.fields[f], f, w)
      BY <2>1
    <3>2. r[f] = <<>> \/ r[f] = <<Read(t.fields[f].type, w[f])>>
      BY <2>3, <3>1 DEF FieldRead
    <3> QED BY <3>2
  <2>4. Proper(t, r)
    BY <1>5, <2>2, <2>3 DEF Proper
  <2> QED BY <2>4 DEF r
<1> QED BY <1>2, <1>3, <1>4, <1>5 DEF Grammar

LEMMA ReadInside ==
  ASSUME NEW T, Grammar(T), NEW t \in T, NEW w, AllSound("wire", t, w),
         NEW q \in Inside(<<"held", t, Read(t, w)>>)
  PROVE  \E p \in Inside(<<"wire", t, w>>) : q = <<"held", p[2], Read(p[2], p[3])>>
<1> DEFINE r == Read(t, w)
<1> HIDE DEF r
<1>1. CASE t.is = "list"
  <2>0. Conversion("wire", t, w) = [i \in DOMAIN w |-> Conversion("wire", t.of, w[i])]
    BY <1>1, ConvList
  <2>1. r = [i \in DOMAIN w |-> Read(t.of, w[i])]
    BY <2>0 DEF Read, r
  <2>2. PICK i \in DOMAIN r : q = <<"held", t.of, r[i]>>
    BY <1>1 DEF Inside, Items, r
  <2>3. <<"wire", t.of, w[i]>> \in Inside(<<"wire", t, w>>)
    BY <1>1, <2>1, <2>2 DEF Inside, Items
  <2>4. q = <<"held", t.of, Read(t.of, w[i])>>
    BY <2>1, <2>2
  <2> QED BY <2>3, <2>4
<1>2. CASE t.is = "message"
  <2>1. r = [f \in DOMAIN t.fields |-> FieldRead(t.fields[f], f, w)]
    BY <1>2, ConvRead DEF r
  <2>2. PICK f \in DOMAIN t.fields : q \in PartsInField("held", t.fields[f], f, r)
    BY <1>2 DEF Inside, r
  <2>3. PICK y \in InField("held", t.fields[f], f, r) : q = <<"held", t.fields[f].type, y>>
    BY <2>2 DEF PartsInField
  <2>4. r[f] = FieldRead(t.fields[f], f, w)
    BY <2>1
  <2>5. t.fields[f].lack \in {"refused", "none", "never", "default"}
    BY <1>2 DEF Grammar
  <2>6. \E x \in InField("wire", t.fields[f], f, w) : y = Read(t.fields[f].type, x)
    <3>1. CASE t.fields[f].lack = "none"
      <4>1. y \in Items(r[f])
        BY <3>1 DEF InField
      <4>2. CASE f \in DOMAIN w
        <5>1. r[f] = <<Read(t.fields[f].type, w[f])>>
          BY <2>4, <3>1, <4>2 DEF FieldRead
        <5>2. y = Read(t.fields[f].type, w[f])
          BY <4>1, <5>1 DEF Items
        <5> QED BY <4>2, <5>2 DEF InField
      <4>3. CASE f \notin DOMAIN w
        <5>1. r[f] = <<>>
          BY <2>4, <3>1, <4>3 DEF FieldRead
        <5> QED BY <4>1, <5>1 DEF Items
      <4> QED BY <4>2, <4>3
    <3>2. CASE t.fields[f].lack = "default"
      <4>1. y = Read(t.fields[f].type, IF f \in DOMAIN w THEN w[f] ELSE NoFields(t.fields[f].type))
        BY <2>3, <2>4, <3>2 DEF FieldRead, InField
      <4>2. (IF f \in DOMAIN w THEN w[f] ELSE NoFields(t.fields[f].type))
              \in InField("wire", t.fields[f], f, w)
        BY <3>2 DEF InField
      <4> QED BY <4>1, <4>2
    <3>3. CASE t.fields[f].lack \in {"refused", "never"}
      <4>1. y = Read(t.fields[f].type, w[f])
        BY <2>3, <2>4, <3>3 DEF FieldRead, InField
      <4>2. f \in DOMAIN w
        <5>1. Sound(<<"wire", t, w>>)
          BY SoundIn
        <5> QED BY <1>2, <3>3, <5>1 DEF Sound, Possible, ReadableItself
      <4> QED BY <4>1, <4>2 DEF InField
    <3> QED BY <2>5, <3>1, <3>2, <3>3
  <2>7. PICK x \in InField("wire", t.fields[f], f, w) : y = Read(t.fields[f].type, x)
    BY <2>6
  <2>8. <<"wire", t.fields[f].type, x>> \in Inside(<<"wire", t, w>>)
    BY <1>2, FieldInside
  <2> QED BY <2>3, <2>7, <2>8
<1>3. CASE t.is \notin {"list", "message"}
  BY <1>3 DEF Inside
<1> QED BY <1>1, <1>2, <1>3

LEMMA ReadIsSound ==
  ASSUME NEW T, Grammar(T), NEW type \in T, NEW w, AllSound("wire", type, w)
  PROVE  AllSound("held", type, Read(type, w))
<1> DEFINE W == Parts("wire", type, w)
           C == {<<"held", p[2], Read(p[2], p[3])>> : p \in W}
<1>1. \A p \in W : p = <<"wire", p[2], p[3]>> /\ p[2] \in T /\ AllSound("wire", p[2], p[3])
  BY SoundInside
<1>2. <<"wire", type, w>> \in W
      /\ \A p \in W : /\ p = <<"wire", p[2], p[3]>> /\ p[2] \in T
                      /\ p = <<"wire", type, w>> \/ p[2].depth < type.depth
                      /\ Inside(p) \subseteq W
  BY PartsFacts
<1> HIDE DEF W
<1>3. <<"held", type, Read(type, w)>> \in C
  BY <1>2
<1>4. ASSUME NEW c \in C, NEW q \in Inside(c) PROVE q \in C
  <2>1. PICK p \in W : c = <<"held", p[2], Read(p[2], p[3])>>
    OBVIOUS
  <2>2. PICK x \in Inside(<<"wire", p[2], p[3]>>) : q = <<"held", x[2], Read(x[2], x[3])>>
    BY <1>1, <2>1, ReadInside
  <2>3. x \in W
    BY <1>1, <1>2, <2>2
  <2> QED BY <2>2, <2>3
<1>5. Parts("held", type, Read(type, w)) \subseteq C
  <2> HIDE DEF C
  <2>1. \A p \in C : Inside(p) \subseteq C
    BY <1>4
  <2> QED BY <1>3, <2>1, PartsAreLeast
<1>6. ASSUME NEW c \in C PROVE Sound(c)
  <2>1. PICK p \in W : c = <<"held", p[2], Read(p[2], p[3])>>
    OBVIOUS
  <2>2. Proper(p[2], Read(p[2], p[3]))
    BY <1>1, ReadProper
  <2> QED BY <2>1, <2>2 DEF Sound
<1> QED BY <1>5, <1>6 DEF AllSound

-----------------------------------------------------------------------------
(* What is written can be read, and is read as what it was. *)

LEMMA WrittenPossible ==
  ASSUME NEW T, Grammar(T), NEW t \in T, NEW v, AllSound("held", t, v)
  PROVE  Possible(t, Written(t, v)) /\ ReadableItself(t, Written(t, v))
<1>0. Sound(<<"held", t, v>>)
  BY SoundIn
<1>1. Proper(t, v)
  BY <1>0 DEF Sound
<1>2. CASE t.is \in {"atom", "enum"}
  <2>1. Written(t, v) = v
    BY <1>2, ConvLeaf DEF Written
  <2> QED BY <1>1, <1>2, <2>1 DEF Proper, Possible, ReadableItself
<1>3. CASE t.is = "time"
  <2>1. Written(t, v) = v
    BY <1>3, ConvLeaf DEF Written
  <2> QED BY <1>1, <1>3, <2>1 DEF Proper, Possible, ReadableItself, Truncated, Instants
<1>4. CASE t.is = "list"
  <2> DEFINE r == Written(t, v)
  <2>0. Conversion("held", t, v) = [i \in DOMAIN v |-> Conversion("held", t.of, v[i])]
    BY <1>4, ConvList
  <2>1. r = [i \in DOMAIN v |-> Written(t.of, v[i])]
    BY <2>0 DEF Written
  <2>2. DOMAIN r = DOMAIN v /\ r = [i \in DOMAIN v |-> r[i]]
    <3> HIDE DEF r
    <3> QED BY <2>1
  <2>3. IsList(r)
    <3> HIDE DEF r
    <3> QED BY <1>1, <1>4, <2>2, ListOf DEF Proper
  <2> QED BY <1>4, <2>3 DEF Possible, ReadableItself
<1>5. CASE t.is = "message"
  <2> DEFINE r == Written(t, v)
  <2>1. r = [f \in WrittenFields(t, v) |-> FieldWritten(t.fields[f], f, v)]
    BY <1>5, ConvWritten
  <2> HIDE DEF r
  <2>2. \A f \in DOMAIN t.fields : t.fields[f].lack # "none" => f \in DOMAIN r
    BY <2>1 DEF WrittenFields
  <2>3. Possible(t, r) /\ ReadableItself(t, r)
    BY <1>5, <2>2 DEF Possible, ReadableItself
  <2> QED BY <2>3 DEF r
<1> QED BY <1>2, <1>3, <1>4, <1>5 DEF Grammar

LEMMA WrittenInside ==
  ASSUME NEW T, Grammar(T), NEW t \in T, NEW v, AllSound("held", t, v),
         NEW q \in Inside(<<"wire", t, Written(t, v)>>)
  PROVE  \E p \in Inside(<<"held", t, v>>) : q = <<"wire", p[2], Written(p[2], p[3])>>
<1> DEFINE r == Written(t, v)
<1> HIDE DEF r
<1>1. CASE t.is = "list"
  <2>0. Conversion("held", t, v) = [i \in DOMAIN v |-> Conversion("held", t.of, v[i])]
    BY <1>1, ConvList
  <2>1. r = [i \in DOMAIN v |-> Written(t.of, v[i])]
    BY <2>0 DEF Written, r
  <2>2. PICK i \in DOMAIN r : q = <<"wire", t.of, r[i]>>
    BY <1>1 DEF Inside, Items, r
  <2>3. <<"held", t.of, v[i]>> \in Inside(<<"held", t, v>>)
    BY <1>1, <2>1, <2>2 DEF Inside, Items
  <2>4. q = <<"wire", t.of, Written(t.of, v[i])>>
    BY <2>1, <2>2
  <2> QED BY <2>3, <2>4
<1>2. CASE t.is = "message"
  <2>1. r = [f \in WrittenFields(t, v) |-> FieldWritten(t.fields[f], f, v)]
    BY <1>2, ConvWritten DEF r
  <2>2. PICK f \in DOMAIN t.fields : q \in PartsInField("wire", t.fields[f], f, r)
    BY <1>2 DEF Inside, r
  <2>3. PICK y \in InField("wire", t.fields[f], f, r) : q = <<"wire", t.fields[f].type, y>>
    BY <2>2 DEF PartsInField
  <2>4. f \in WrittenFields(t, v)
    <3>1. CASE t.fields[f].lack = "none"
      <4>1. f \in DOMAIN r
        BY <2>3, <3>1 DEF InField
      <4> QED BY <2>1, <4>1
    <3>2. CASE t.fields[f].lack # "none"
      BY <3>2 DEF WrittenFields
    <3> QED BY <3>1, <3>2
  <2> DEFINE x == IF t.fields[f].lack = "none" THEN v[f][1] ELSE v[f]
  <2>5. y = Written(t.fields[f].type, x)
    <3>1. f \in DOMAIN r /\ r[f] = FieldWritten(t.fields[f], f, v)
      BY <2>1, <2>4
    <3>2. y = r[f]
      BY <2>3, <3>1 DEF InField
    <3> QED BY <3>1, <3>2 DEF FieldWritten
  <2>6. x \in InField("held", t.fields[f], f, v)
    <3>1. CASE t.fields[f].lack = "none"
      <4>1. Sound(<<"held", t, v>>)
        BY SoundIn
      <4>2. v[f] = <<v[f][1]>>
        BY <1>2, <2>4, <3>1, <4>1 DEF Sound, Proper, WrittenFields
      <4>3. 1 \in DOMAIN v[f]
        BY <4>2
      <4> QED BY <3>1, <4>3 DEF InField, Items
    <3>2. CASE t.fields[f].lack # "none"
      BY <3>2 DEF InField
    <3> QED BY <3>1, <3>2
  <2> HIDE DEF x
  <2>7. <<"held", t.fields[f].type, x>> \in Inside(<<"held", t, v>>)
    BY <1>2, <2>6, FieldInside
  <2> QED BY <2>3, <2>5, <2>7
<1>3. CASE t.is \notin {"list", "message"}
  BY <1>3 DEF Inside
<1> QED BY <1>1, <1>2, <1>3

LEMMA WrittenIsSound ==
  ASSUME NEW T, Grammar(T), NEW type \in T, NEW v, AllSound("held", type, v)
  PROVE  AllSound("wire", type, Written(type, v))
<1> DEFINE W == Parts("held", type, v)
           C == {<<"wire", p[2], Written(p[2], p[3])>> : p \in W}
<1>1. \A p \in W : p = <<"held", p[2], p[3]>> /\ p[2] \in T /\ AllSound("held", p[2], p[3])
  BY SoundInside
<1>2. <<"held", type, v>> \in W
      /\ \A p \in W : /\ p = <<"held", p[2], p[3]>> /\ p[2] \in T
                      /\ p = <<"held", type, v>> \/ p[2].depth < type.depth
                      /\ Inside(p) \subseteq W
  BY PartsFacts
<1> HIDE DEF W
<1>3. <<"wire", type, Written(type, v)>> \in C
  BY <1>2
<1>4. ASSUME NEW c \in C, NEW q \in Inside(c) PROVE q \in C
  <2>1. PICK p \in W : c = <<"wire", p[2], Written(p[2], p[3])>>
    OBVIOUS
  <2>2. PICK x \in Inside(<<"held", p[2], p[3]>>) : q = <<"wire", x[2], Written(x[2], x[3])>>
    BY <1>1, <2>1, WrittenInside
  <2>3. x \in W
    BY <1>1, <1>2, <2>2
  <2> QED BY <2>2, <2>3
<1>5. Parts("wire", type, Written(type, v)) \subseteq C
  <2> HIDE DEF C
  <2>1. \A p \in C : Inside(p) \subseteq C
    BY <1>4
  <2> QED BY <1>3, <2>1, PartsAreLeast
<1>6. ASSUME NEW c \in C PROVE Sound(c)
  <2>1. PICK p \in W : c = <<"wire", p[2], Written(p[2], p[3])>>
    OBVIOUS
  <2>2. Possible(p[2], Written(p[2], p[3])) /\ ReadableItself(p[2], Written(p[2], p[3]))
    BY <1>1, WrittenPossible
  <2> QED BY <2>1, <2>2 DEF Sound
<1> QED BY <1>5, <1>6 DEF AllSound

LEMMA ReadBackNext ==
  ASSUME NEW T, Grammar(T), NEW t \in T, NEW v, AllSound("held", t, v),
         \A q \in Inside(<<"held", t, v>>) : Read(q[2], Written(q[2], q[3])) = q[3]
  PROVE  Read(t, Written(t, v)) = v
<1> DEFINE w == Written(t, v)
<1>0. Sound(<<"held", t, v>>)
  BY SoundIn
<1>1. Proper(t, v)
  BY <1>0 DEF Sound
<1>2. AllSound("wire", t, w)
  BY WrittenIsSound
<1>3. CASE t.is \in {"atom", "enum"}
  <2>1. w = v
    BY <1>3, ConvLeaf DEF Written
  <2> HIDE DEF w
  <2>2. Read(t, w) = w
    BY <1>2, <1>3, ConvLeaf DEF Read
  <2> QED BY <2>1, <2>2 DEF w
<1>4. CASE t.is = "time"
  <2>1. w = v
    BY <1>4, ConvLeaf DEF Written
  <2> HIDE DEF w
  <2>2. Read(t, w) = Truncated(w)
    BY <1>2, <1>4, ConvLeaf DEF Read
  <2>3. Truncated(v) = v
    BY <1>1, <1>4 DEF Proper, Truncated, Instants
  <2> QED BY <2>1, <2>2, <2>3 DEF w
<1>5. CASE t.is = "list"
  <2>0. Conversion("held", t, v) = [i \in DOMAIN v |-> Conversion("held", t.of, v[i])]
    BY <1>5, ConvList
  <2>1. w = [i \in DOMAIN v |-> Written(t.of, v[i])]
    BY <2>0 DEF Written
  <2> HIDE DEF w
  <2>2. Conversion("wire", t, w) = [i \in DOMAIN w |-> Conversion("wire", t.of, w[i])]
    BY <1>2, <1>5, ConvList
  <2>3. Read(t, w) = [i \in DOMAIN v |-> Read(t.of, Written(t.of, v[i]))]
    BY <2>1, <2>2 DEF Read
  <2>4. ASSUME NEW i \in DOMAIN v PROVE Read(t.of, Written(t.of, v[i])) = v[i]
    <3>1. <<"held", t.of, v[i]>> \in Inside(<<"held", t, v>>)
      BY <1>5 DEF Inside, Items
    <3> QED BY <3>1
  <2>5. v = [i \in DOMAIN v |-> v[i]]
    BY <1>1, <1>5 DEF Proper, IsList
  <2>6. Read(t, w) = v
    BY <2>3, <2>4, <2>5
  <2> QED BY <2>6 DEF w
<1>6. CASE t.is = "message"
  <2>1. w = [f \in WrittenFields(t, v) |-> FieldWritten(t.fields[f], f, v)]
    BY <1>6, ConvWritten
  <2> HIDE DEF w
  <2>2. Read(t, w) = [f \in DOMAIN t.fields |-> FieldRead(t.fields[f], f, w)]
    BY <1>2, <1>6, ConvRead
  <2>3. ASSUME NEW f \in DOMAIN t.fields, NEW x \in InField("held", t.fields[f], f, v)
        PROVE  Read(t.fields[f].type, Written(t.fields[f].type, x)) = x
    <3>1. <<"held", t.fields[f].type, x>> \in Inside(<<"held", t, v>>)
      BY <1>6, FieldInside
    <3> QED BY <3>1
  <2>4. ASSUME NEW f \in DOMAIN t.fields PROVE FieldRead(t.fields[f], f, w) = v[f]
    <3>0. t.fields[f].lack \in {"refused", "none", "never", "default"}
      BY <1>6 DEF Grammar
    <3>1. CASE t.fields[f].lack = "none" /\ v[f] = <<>>
      <4>1. f \notin DOMAIN w
        BY <2>1, <3>1 DEF WrittenFields
      <4> QED BY <3>1, <4>1 DEF FieldRead
    <3>2. CASE t.fields[f].lack = "none" /\ v[f] # <<>>
      <4>1. v[f] = <<v[f][1]>>
        BY <1>1, <1>6, <3>2 DEF Proper
      <4>2. v[f][1] \in InField("held", t.fields[f], f, v)
        <5>1. 1 \in DOMAIN v[f]
          BY <4>1
        <5> QED BY <3>2, <5>1 DEF InField, Items
      <4>3. f \in DOMAIN w /\ w[f] = Written(t.fields[f].type, v[f][1])
        BY <2>1, <3>2 DEF WrittenFields, FieldWritten
      <4>4. Read(t.fields[f].type, w[f]) = v[f][1]
        BY <2>3, <4>2, <4>3
      <4>5. FieldRead(t.fields[f], f, w) = <<Read(t.fields[f].type, w[f])>>
        BY <3>2, <4>3 DEF FieldRead
      <4> QED BY <4>1, <4>4, <4>5
    <3>3. CASE t.fields[f].lack # "none"
      <4>1. v[f] \in InField("held", t.fields[f], f, v)
        BY <3>3 DEF InField
      <4>2. f \in DOMAIN w /\ w[f] = Written(t.fields[f].type, v[f])
        BY <2>1, <3>3 DEF WrittenFields, FieldWritten
      <4>3. Read(t.fields[f].type, w[f]) = v[f]
        BY <2>3, <4>1, <4>2
      <4>4. FieldRead(t.fields[f], f, w) = Read(t.fields[f].type, w[f])
        BY <3>0, <3>3, <4>2 DEF FieldRead
      <4> QED BY <4>3, <4>4
    <3> QED BY <3>1, <3>2, <3>3
  <2>5. v = [f \in DOMAIN t.fields |-> v[f]]
    BY <1>1, <1>6 DEF Proper
  <2>6. Read(t, w) = v
    BY <2>2, <2>4, <2>5
  <2> QED BY <2>6 DEF w
<1> QED BY <1>3, <1>4, <1>5, <1>6 DEF Grammar

LEMMA ReadBack ==
  ASSUME NEW T, Grammar(T), NEW type \in T, NEW value, AllSound("held", type, value)
  PROVE  Read(type, Written(type, value)) = value
<1> DEFINE n    == type.depth + 1
           Good == {d \in 0 .. n :
                      \A t \in T : \A v : t.depth < d /\ AllSound("held", t, v)
                                            => Read(t, Written(t, v)) = v}
<1>1. n \in Nat /\ type.depth < n /\ \A t \in T : t.depth \in Nat
  BY DEF Grammar
<1> HIDE DEF n
<1>2. 0 \in Good
  BY <1>1
<1>3. ASSUME NEW d \in 1 .. n, d - 1 \in Good PROVE d \in Good
  <2>1. ASSUME NEW t \in T, NEW v, t.depth < d, AllSound("held", t, v) PROVE Read(t, Written(t, v)) = v
    <3>1. ASSUME NEW q \in Inside(<<"held", t, v>>) PROVE Read(q[2], Written(q[2], q[3])) = q[3]
      <4>1. q[2] \in T /\ q[2].depth < t.depth /\ AllSound("held", q[2], q[3])
        BY <2>1, SoundIn
      <4>2. q[2].depth < d - 1
        BY <1>1, <2>1, <4>1
      <4> QED BY <1>3, <4>1, <4>2
    <3> QED BY <2>1, <3>1, ReadBackNext
  <2>2. d \in 0 .. n
    BY <1>1
  <2> QED BY <2>1, <2>2
<1>4. n \in Good
  <2>1. n \in 0 .. n
    BY <1>1
  <2> HIDE DEF Good
  <2> QED BY <1>1, <1>2, <1>3, <2>1, UpToInduction
<1> QED BY <1>1, <1>4

-----------------------------------------------------------------------------
(* The messages of the service are such types. *)

\* Whatever is refused when it is written is refused when it is read.
Strict(T) == \A t \in T : t.is = "atom" => t.unwritten \subseteq t.unread

\* A type of depth n or less, with nothing in it that could be read but not
\* written, when the mode says so.
IsType(t, n, mode) ==
  \E T : Grammar(T) /\ (mode = "strict" => Strict(T)) /\ t \in T /\ t.depth <= n

IsField(field, n, mode) ==
  /\ field.lack \in {"refused", "none", "never", "default"}
  /\ IsType(field.type, n, mode)
  /\ field.lack = "default" =>
       /\ field.type.is = "message"
       /\ \A g \in DOMAIN field.type.fields : field.type.fields[g].lack = "none"

AreFields(fields, n, mode) == \A f \in DOMAIN fields : IsField(fields[f], n, mode)

LEMMA WiderType ==
  ASSUME NEW n \in Nat, NEW m \in Nat, n <= m, NEW mode \in {"strict", "any"}, NEW t, IsType(t, n, mode)
  PROVE  IsType(t, m, mode) /\ IsType(t, m, "any")
<1>1. PICK T : Grammar(T) /\ (mode = "strict" => Strict(T)) /\ t \in T /\ t.depth <= n
  BY DEF IsType
<1>2. t.depth \in Nat
  BY <1>1 DEF Grammar
<1>3. t.depth <= m
  BY <1>1, <1>2
<1> QED BY <1>1, <1>3 DEF IsType

LEMMA AtomType ==
  ASSUME NEW as, NEW unread, NEW unwritten, MarksOf(as) \subseteq unread,
         NEW n \in Nat, NEW mode \in {"strict", "any"}, mode = "strict" => unwritten \subseteq unread
  PROVE  IsType(Atom(as, unread, unwritten), n, mode)
<1> DEFINE t == Atom(as, unread, unwritten)
<1>1. t.is = "atom" /\ t.as = as /\ t.unread = unread /\ t.unwritten = unwritten /\ t.depth = 0
  BY DEF Atom
<1> HIDE DEF t
<1>2. Grammar({t}) /\ (mode = "strict" => Strict({t}))
  <2>0. MarksOf(t.as) \subseteq t.unread
    BY <1>1
  <2>1. Grammar({t})
    <3>1. \A x \in {t} : x.is = "atom" => MarksOf(x.as) \subseteq x.unread
      BY <2>0
    <3>2. \A x \in {t} : x.depth \in Nat /\ x.is = "atom"
      BY <1>1
    <3> QED BY <3>1, <3>2 DEF Grammar
  <2>2. ASSUME mode = "strict" PROVE Strict({t})
    BY <1>1, <2>2 DEF Strict
  <2> QED BY <2>1, <2>2
<1>3. t \in {t} /\ t.depth <= n
  BY <1>1
<1>4. IsType(t, n, mode)
  BY <1>2, <1>3 DEF IsType
<1> QED BY <1>4 DEF t

LEMMA TimeType == ASSUME NEW n \in Nat, NEW mode \in {"strict", "any"} PROVE IsType(Time, n, mode)
<1>1. Time.is = "time" /\ Time.depth = 0
  BY DEF Time
<1>2. Grammar({Time}) /\ (mode = "strict" => Strict({Time}))
  BY <1>1 DEF Grammar, Strict
<1>3. Time \in {Time} /\ Time.depth <= n
  BY <1>1
<1> QED BY <1>2, <1>3 DEF IsType

LEMMA EnumType ==
  ASSUME NEW members, members \cap Marks = {}, NEW n \in Nat, NEW mode \in {"strict", "any"}
  PROVE  IsType(Enum(members), n, mode)
<1> DEFINE t == Enum(members)
<1>1. t.is = "enum" /\ t.members = members /\ t.depth = 0
  BY DEF Enum
<1> HIDE DEF t
<1>2. Grammar({t}) /\ (mode = "strict" => Strict({t}))
  BY <1>1 DEF Grammar, Strict
<1>3. t \in {t} /\ t.depth <= n
  BY <1>1
<1>4. IsType(t, n, mode)
  BY <1>2, <1>3 DEF IsType
<1> QED BY <1>4 DEF t

LEMMA ListType ==
  ASSUME NEW n \in Nat, NEW mode \in {"strict", "any"}, NEW of, IsType(of, n, mode)
  PROVE  IsType(List(of), n + 1, mode)
<1> DEFINE t == List(of)
<1>1. t.is = "list" /\ t.of = of /\ t.depth = of.depth + 1
  BY DEF List
<1> HIDE DEF t
<1>2. PICK T : Grammar(T) /\ (mode = "strict" => Strict(T)) /\ of \in T /\ of.depth <= n
  BY DEF IsType
<1> DEFINE U == T \cup {t}
<1>3. of.depth \in Nat
  BY <1>2 DEF Grammar
<1>4. Grammar(U)
  <2> SUFFICES ASSUME NEW x \in U
               PROVE  /\ x.depth \in Nat
                      /\ x.is \in {"atom", "time", "enum", "list", "message"}
                      /\ x.is = "atom" => MarksOf(x.as) \subseteq x.unread
                      /\ x.is = "enum" => x.members \cap Marks = {}
                      /\ x.is = "list" => x.of \in U /\ x.of.depth < x.depth
                      /\ x.is = "message" =>
                           \A f \in DOMAIN x.fields :
                             /\ x.fields[f].type \in U /\ x.fields[f].type.depth < x.depth
                             /\ x.fields[f].lack \in {"refused", "none", "never", "default"}
                             /\ x.fields[f].lack = "default" =>
                                  /\ x.fields[f].type.is = "message"
                                  /\ \A g \in DOMAIN x.fields[f].type.fields :
                                       x.fields[f].type.fields[g].lack = "none"
    BY DEF Grammar
  <2>1. CASE x \in T
    BY <1>2, <2>1 DEF Grammar
  <2>2. CASE x = t
    BY <1>1, <1>2, <1>3, <2>2
  <2> QED BY <2>1, <2>2
<1>5. mode = "strict" => Strict(U)
  BY <1>1, <1>2 DEF Strict
<1>6. t \in U /\ t.depth <= n + 1
  BY <1>1, <1>2, <1>3
<1>7. IsType(t, n + 1, mode)
  <2> HIDE DEF U
  <2> QED BY <1>4, <1>5, <1>6 DEF IsType
<1> QED BY <1>7 DEF t

LEMMA MaxUpTo ==
  ASSUME NEW n \in Nat, NEW S \in SUBSET (0 .. n), S # {}
  PROVE  Max(S) \in S /\ \A x \in S : x <= Max(S)
<1> DEFINE Good == {k \in 0 .. n : \A X \in SUBSET (0 .. k) : X # {} => \E x \in X : \A y \in X : x >= y}
<1>1. 0 \in Good
  <2>0. 0 .. 0 = {0}
    OBVIOUS
  <2>1. \A X \in SUBSET (0 .. 0) : X # {} => X = {0}
    BY <2>0, Zenon
  <2>2. \E x \in {0} : \A y \in {0} : x >= y
    OBVIOUS
  <2> QED BY <2>1, <2>2
<1>2. ASSUME NEW k \in 1 .. n, k - 1 \in Good PROVE k \in Good
  <2>1. ASSUME NEW X \in SUBSET (0 .. k), X # {} PROVE \E x \in X : \A y \in X : x >= y
    <3>1. CASE k \in X
      BY <3>1
    <3>2. CASE k \notin X
      <4>1. X \in SUBSET (0 .. k - 1)
        BY <3>2
      <4> QED BY <1>2, <2>1, <4>1
    <3> QED BY <3>1, <3>2
  <2> QED BY <2>1
<1>3. n \in Good
  <2>1. n \in 0 .. n
    OBVIOUS
  <2> HIDE DEF Good
  <2> QED BY <1>1, <1>2, <2>1, UpToInduction
<1>4. \E x \in S : \A y \in S : x >= y
  BY <1>3
<1>5. Max(S) \in S /\ \A y \in S : Max(S) >= y
  BY <1>4 DEF Max
<1> QED BY <1>5

LEMMA MessageType ==
  ASSUME NEW n \in Nat, NEW mode \in {"strict", "any"}, NEW fields, AreFields(fields, n, mode)
  PROVE  IsType(Message(fields), n + 1, mode)
<1> DEFINE t    == Message(fields)
           D    == {0} \cup {fields[f].type.depth : f \in DOMAIN fields}
           G(f) == CHOOSE T : /\ Grammar(T) /\ (mode = "strict" => Strict(T))
                              /\ fields[f].type \in T /\ fields[f].type.depth <= n
           U    == (UNION {G(f) : f \in DOMAIN fields}) \cup {t}
<1>1. t.is = "message" /\ t.fields = fields /\ t.depth = 1 + Max(D)
  BY DEF Message
<1>2. ASSUME NEW f \in DOMAIN fields
      PROVE  /\ Grammar(G(f)) /\ (mode = "strict" => Strict(G(f)))
             /\ fields[f].type \in G(f) /\ fields[f].type.depth <= n
             /\ fields[f].type.depth \in Nat
  <2>1. \E T : /\ Grammar(T) /\ (mode = "strict" => Strict(T))
               /\ fields[f].type \in T /\ fields[f].type.depth <= n
    BY DEF AreFields, IsField, IsType
  <2>2. /\ Grammar(G(f)) /\ (mode = "strict" => Strict(G(f)))
        /\ fields[f].type \in G(f) /\ fields[f].type.depth <= n
    BY <2>1
  <2> HIDE DEF G
  <2> QED BY <2>2 DEF Grammar
<1> HIDE DEF t, G
<1>3. Max(D) \in 0 .. n /\ \A x \in D : x <= Max(D)
  <2>1. D \in SUBSET (0 .. n) /\ D # {}
    BY <1>2
  <2> HIDE DEF D
  <2> QED BY <2>1, MaxUpTo
<1>4. t.depth \in Nat /\ t.depth <= n + 1 /\ \A f \in DOMAIN fields : fields[f].type.depth < t.depth
  <2>1. \A f \in DOMAIN fields : fields[f].type.depth \in D
    OBVIOUS
  <2> HIDE DEF D
  <2> QED BY <1>1, <1>2, <1>3, <2>1
<1>5. Grammar(U)
  <2> SUFFICES ASSUME NEW x \in U
               PROVE  /\ x.depth \in Nat
                      /\ x.is \in {"atom", "time", "enum", "list", "message"}
                      /\ x.is = "atom" => MarksOf(x.as) \subseteq x.unread
                      /\ x.is = "enum" => x.members \cap Marks = {}
                      /\ x.is = "list" => x.of \in U /\ x.of.depth < x.depth
                      /\ x.is = "message" =>
                           \A f \in DOMAIN x.fields :
                             /\ x.fields[f].type \in U /\ x.fields[f].type.depth < x.depth
                             /\ x.fields[f].lack \in {"refused", "none", "never", "default"}
                             /\ x.fields[f].lack = "default" =>
                                  /\ x.fields[f].type.is = "message"
                                  /\ \A g \in DOMAIN x.fields[f].type.fields :
                                       x.fields[f].type.fields[g].lack = "none"
    BY DEF Grammar
  <2>1. CASE \E f \in DOMAIN fields : x \in G(f)
    <3>1. PICK f \in DOMAIN fields : x \in G(f)
      BY <2>1
    <3>2. Grammar(G(f)) /\ G(f) \subseteq U
      BY <1>2
    <3> HIDE DEF U
    <3> QED BY <3>1, <3>2 DEF Grammar
  <2>2. CASE x = t
    <3>1. \A f \in DOMAIN fields : fields[f].type \in U
      BY <1>2
    <3> HIDE DEF U
    <3> QED BY <1>1, <1>4, <2>2, <3>1 DEF AreFields, IsField
  <2> QED BY <2>1, <2>2
<1>6. ASSUME mode = "strict" PROVE Strict(U)
  BY <1>1, <1>2, <1>6 DEF Strict
<1>7. t \in U
  OBVIOUS
<1>8. IsType(t, n + 1, mode)
  <2> HIDE DEF U, D
  <2> QED BY <1>4, <1>5, <1>6, <1>7 DEF IsType
<1> QED BY <1>8 DEF t

LEMMA FieldOf ==
  ASSUME NEW n \in Nat, NEW mode \in {"strict", "any"}, NEW t, IsType(t, n, mode)
  PROVE  /\ IsField(Must(t), n, mode) /\ IsField(May(t), n, mode)
         /\ IsField(Plain(t), n, mode) /\ IsField(All(t), n + 1, mode)
<1>1. IsType(List(t), n + 1, mode)
  BY ListType
<1> QED BY <1>1 DEF IsField, Must, May, Plain, All

\* Atoms and members.
LEMMA AtomTypes ==
  ASSUME NEW n \in Nat, NEW mode \in {"strict", "any"}
  PROVE  /\ IsType(Text, n, mode) /\ IsType(Name, n, mode) /\ IsType(EdgeId, n, mode)
         /\ IsType(NodeId, n, mode) /\ IsType(Id("target"), n, mode)
         /\ IsType(Id("version"), n, mode) /\ IsType(Stamp, n, mode)
         /\ IsType(Number, n, mode) /\ IsType(ScalarValue, n, mode)
         /\ IsType(Elapsed, n, mode) /\ IsType(Atom("target", {}, {}), n, mode)
         /\ IsType(Count, n, mode) /\ IsType(Time, n, mode)
         /\ IsType(Reference("edge"), n, "any") /\ IsType(Reference("node"), n, "any")
<1>1. /\ MarksOf("text") = {} /\ MarksOf("edge") = {} /\ MarksOf("node") = {} /\ MarksOf("target") = {}
      /\ MarksOf("version") = {} /\ MarksOf("elapsed") = {} /\ MarksOf("number") = {"NaN"}
      /\ MarksOf("scalar") = {"NaN", "unset"} /\ MarksOf("count") = {}
  BY DEF MarksOf
<1>2. ASSUME NEW as \in {"text", "edge", "node", "target", "version"} PROVE IsType(Id(as), n, mode)
  <2>1. MarksOf(as) \subseteq {""} /\ {""} \subseteq {""}
    BY <1>1
  <2> QED BY <2>1, AtomType DEF Id
<1>3. \A as \in {"edge", "node"} : IsType(Reference(as), n, "any")
  BY <1>1, AtomType DEF Reference
<1>4. IsType(Text, n, mode) /\ IsType(Atom("target", {}, {}), n, mode)
  BY <1>1, AtomType DEF Text
<1>5. IsType(Stamp, n, mode) /\ IsType(Elapsed, n, mode)
  <2>1. MarksOf("text") \subseteq {""} /\ {} \subseteq {""}
    BY <1>1
  <2>2. MarksOf("elapsed") \subseteq {"-1"} /\ {} \subseteq {"-1"}
    BY <1>1
  <2> QED BY <2>1, <2>2, AtomType DEF Stamp, Elapsed
<1>6. IsType(Number, n, mode) /\ IsType(ScalarValue, n, mode) /\ IsType(Count, n, mode)
  BY <1>1, AtomType DEF Number, ScalarValue, Count
<1> QED BY <1>2, <1>3, <1>4, <1>5, <1>6, TimeType DEF Name, EdgeId, NodeId

LEMMA EnumTypes ==
  ASSUME NEW n \in Nat, NEW mode \in {"strict", "any"}
  PROVE  /\ IsType(NodeKind, n, mode) /\ IsType(BoundaryDirection, n, mode)
         /\ IsType(DirectionConstraint, n, mode) /\ IsType(CurrentDirection, n, mode)
         /\ IsType(ObservationType, n, mode) /\ IsType(FlowDirection, n, mode)
         /\ IsType(ConfidenceFlag, n, mode) /\ IsType(StagnationDerivation, n, mode)
         /\ IsType(EventTerm, n, mode) /\ IsType(OptimizationMode, n, mode)
         /\ IsType(QueuedTriggerKind, n, mode) /\ IsType(EventKind, n, mode)
         /\ IsType(RestrictionReason, n, mode) /\ IsType(SolverStatus, n, mode)
         /\ IsType(ImportanceDirection, n, mode) /\ IsType(ProposedDirection, n, mode)
         /\ IsType(DirectionChangeType, n, mode) /\ IsType(RestrictionAction, n, mode)
         /\ IsType(BoundaryAction, n, mode) /\ IsType(Verdict, n, mode) /\ IsType(Mode, n, mode)
         /\ IsType(WarningCode, n, mode) /\ IsType(ObservationState, n, mode)
         /\ IsType(HistoryTier, n, mode) /\ IsType(Judgement, n, mode)
         /\ IsType(TriggerEvidenceSource, n, mode) /\ IsType(FallbackKind, n, mode)
         /\ IsType(StepKind, n, mode) /\ IsType(StepStatus, n, mode)
         /\ IsType(ODResolutionMode, n, mode) /\ IsType(ODResolutionReason, n, mode)
         /\ IsType(FeedbackRestrictionReason, n, mode)
<1>1. /\ IsType(NodeKind, n, mode) /\ IsType(BoundaryDirection, n, mode)
      /\ IsType(DirectionConstraint, n, mode) /\ IsType(CurrentDirection, n, mode)
      /\ IsType(ObservationType, n, mode) /\ IsType(FlowDirection, n, mode)
  BY EnumType DEF Marks, NodeKind, BoundaryDirection, DirectionConstraint, CurrentDirection,
     ObservationType, FlowDirection
<1>2. /\ IsType(ConfidenceFlag, n, mode) /\ IsType(StagnationDerivation, n, mode)
      /\ IsType(EventTerm, n, mode) /\ IsType(OptimizationMode, n, mode)
      /\ IsType(QueuedTriggerKind, n, mode) /\ IsType(EventKind, n, mode)
  BY EnumType DEF Marks, ConfidenceFlag, StagnationDerivation, EventTerm, OptimizationMode,
     QueuedTriggerKind, EventKind
<1>3. /\ IsType(RestrictionReason, n, mode) /\ IsType(SolverStatus, n, mode)
      /\ IsType(ImportanceDirection, n, mode) /\ IsType(ProposedDirection, n, mode)
      /\ IsType(DirectionChangeType, n, mode) /\ IsType(RestrictionAction, n, mode)
  BY EnumType DEF Marks, RestrictionReason, SolverStatus, ImportanceDirection, ProposedDirection,
     DirectionChangeType, RestrictionAction
<1>4. /\ IsType(BoundaryAction, n, mode) /\ IsType(Verdict, n, mode) /\ IsType(Mode, n, mode)
      /\ IsType(WarningCode, n, mode) /\ IsType(ObservationState, n, mode)
      /\ IsType(HistoryTier, n, mode)
  BY EnumType DEF Marks, BoundaryAction, Verdict, Mode, WarningCode, ObservationState, HistoryTier
<1>5. /\ IsType(Judgement, n, mode) /\ IsType(TriggerEvidenceSource, n, mode)
      /\ IsType(FallbackKind, n, mode) /\ IsType(StepKind, n, mode) /\ IsType(StepStatus, n, mode)
      /\ IsType(ODResolutionMode, n, mode)
  BY EnumType DEF Marks, Judgement, TriggerEvidenceSource, FallbackKind, StepKind, StepStatus,
     ODResolutionMode
<1>6. /\ IsType(ODResolutionReason, n, mode) /\ IsType(FeedbackRestrictionReason, n, mode)
  BY EnumType DEF Marks, ODResolutionReason, FeedbackRestrictionReason
<1> QED BY <1>1, <1>2, <1>3, <1>4, <1>5, <1>6

LEMMA MessageOf ==
  ASSUME NEW n \in Nat, NEW mode \in {"strict", "any"}, NEW t, t = Message(t.fields),
         AreFields(t.fields, n, mode),
         NEW m, m = n + 1
  PROVE  IsType(t, m, mode)
BY MessageType

LEMMA BoundaryIsType == IsType(Boundary, 1, "strict")
<1>1. AreFields(Boundary.fields, 0, "strict")
  <2>1. IsField(Must(BoundaryDirection), 0, "strict") /\ IsField(Must(Text), 0, "strict")
    BY AtomTypes, EnumTypes, FieldOf
  <2> QED BY <2>1 DEF AreFields, Boundary, Message
<1>2. Boundary = Message(Boundary.fields)
  BY DEF Boundary, Message
<1> QED BY <1>1, <1>2, MessageOf

LEMMA NodeIsType == IsType(Node, 2, "strict")
<1>1. AreFields(Node.fields, 1, "strict")
  <2>1. /\ IsField(Must(NodeId), 1, "strict") /\ IsField(Must(NodeKind), 1, "strict")
        /\ IsField(Must(Text), 1, "strict") /\ IsField(May(Number), 1, "strict")
        /\ IsField(May(Boundary), 1, "strict")
    BY AtomTypes, EnumTypes, FieldOf, BoundaryIsType
  <2>2. IsField(All(Text), 1, "strict")
    <3>1. IsType(Text, 0, "strict")
      BY AtomTypes
    <3> QED BY <3>1, FieldOf
  <2> QED BY <2>1, <2>2 DEF AreFields, Node, Message
<1>2. Node = Message(Node.fields)
  BY DEF Node, Message
<1> QED BY <1>1, <1>2, MessageOf

LEMMA EdgeIsType == IsType(Edge, 2, "strict")
<1>1. AreFields(Edge.fields, 1, "strict")
  BY AtomTypes, EnumTypes, FieldOf DEF AreFields, Edge, Message
<1>2. Edge = Message(Edge.fields)
  BY DEF Edge, Message
<1> QED BY <1>1, <1>2, MessageOf

LEMMA GraphIsType == IsType(Graph, 4, "strict")
<1>1. AreFields(Graph.fields, 3, "strict")
  BY AtomTypes, FieldOf, EdgeIsType, NodeIsType DEF AreFields, Graph, Message
<1>2. Graph = Message(Graph.fields)
  BY DEF Graph, Message
<1> QED BY <1>1, <1>2, MessageOf

LEMMA ArcFlowIsType == IsType(ArcFlow, 1, "strict")
<1>1. AreFields(ArcFlow.fields, 0, "strict")
  BY AtomTypes, EnumTypes, FieldOf DEF AreFields, ArcFlow, Message
<1>2. ArcFlow = Message(ArcFlow.fields)
  BY DEF ArcFlow, Message
<1> QED BY <1>1, <1>2, MessageOf

LEMMA ArcStagnationIsType == IsType(ArcStagnation, 1, "strict")
<1>1. AreFields(ArcStagnation.fields, 0, "strict")
  BY AtomTypes, EnumTypes, FieldOf DEF AreFields, ArcStagnation, Message
<1>2. ArcStagnation = Message(ArcStagnation.fields)
  BY DEF ArcStagnation, Message
<1> QED BY <1>1, <1>2, MessageOf

LEMMA ArcScalarFlowIsType == IsType(ArcScalarFlow, 1, "strict")
<1>1. AreFields(ArcScalarFlow.fields, 0, "strict")
  BY AtomTypes, EnumTypes, FieldOf DEF AreFields, ArcScalarFlow, Message
<1>2. ArcScalarFlow = Message(ArcScalarFlow.fields)
  BY DEF ArcScalarFlow, Message
<1> QED BY <1>1, <1>2, MessageOf

LEMMA NodeOccupancyIsType == IsType(NodeOccupancy, 1, "strict")
<1>1. AreFields(NodeOccupancy.fields, 0, "strict")
  BY AtomTypes, EnumTypes, FieldOf DEF AreFields, NodeOccupancy, Message
<1>2. NodeOccupancy = Message(NodeOccupancy.fields)
  BY DEF NodeOccupancy, Message
<1> QED BY <1>1, <1>2, MessageOf

LEMMA TurningObservationIsType == IsType(TurningObservation, 1, "any")
<1>1. AreFields(TurningObservation.fields, 0, "any")
  BY AtomTypes, EnumTypes, FieldOf DEF AreFields, TurningObservation, Message
<1>2. TurningObservation = Message(TurningObservation.fields)
  BY DEF TurningObservation, Message
<1> QED BY <1>1, <1>2, MessageOf

LEMMA ObservationsIsType == IsType(Observations, 3, "any")
<1>1. /\ IsType(ArcFlow, 1, "any") /\ IsType(ArcScalarFlow, 1, "any")
      /\ IsType(ArcStagnation, 1, "any") /\ IsType(NodeOccupancy, 1, "any")
  BY ArcFlowIsType, ArcScalarFlowIsType, ArcStagnationIsType, NodeOccupancyIsType, WiderType
<1>2. AreFields(Observations.fields, 2, "any")
  BY AtomTypes, FieldOf, TurningObservationIsType, <1>1 DEF AreFields, Observations, Message
<1>3. Observations = Message(Observations.fields)
  BY DEF Observations, Message
<1> QED BY <1>2, <1>3, MessageOf

LEMMA TimedValueIsType == IsType(TimedValue, 1, "strict")
<1>1. AreFields(TimedValue.fields, 0, "strict")
  BY AtomTypes, FieldOf DEF AreFields, TimedValue, Message
<1>2. TimedValue = Message(TimedValue.fields)
  BY DEF TimedValue, Message
<1> QED BY <1>1, <1>2, MessageOf

LEMMA EdgeFloatIsType == IsType(EdgeFloat, 1, "strict")
<1>1. AreFields(EdgeFloat.fields, 0, "strict")
  BY AtomTypes, FieldOf DEF AreFields, EdgeFloat, Message
<1>2. EdgeFloat = Message(EdgeFloat.fields)
  BY DEF EdgeFloat, Message
<1> QED BY <1>1, <1>2, MessageOf

LEMMA ArcHistoryStatIsType == IsType(ArcHistoryStat, 1, "strict")
<1>1. AreFields(ArcHistoryStat.fields, 0, "strict")
  BY AtomTypes, FieldOf DEF AreFields, ArcHistoryStat, Message, Together, Fields
<1>2. ArcHistoryStat = Message(ArcHistoryStat.fields)
  BY DEF ArcHistoryStat, Message
<1> QED BY <1>1, <1>2, MessageOf

LEMMA DirectionalSeriesIsType == IsType(DirectionalSeries, 3, "strict")
<1>1. AreFields(DirectionalSeries.fields, 2, "strict")
  BY AtomTypes, EnumTypes, FieldOf, TimedValueIsType DEF AreFields, DirectionalSeries, Message
<1>2. DirectionalSeries = Message(DirectionalSeries.fields)
  BY DEF DirectionalSeries, Message
<1> QED BY <1>1, <1>2, MessageOf

LEMMA ArcWindowSeriesIsType == IsType(ArcWindowSeries, 6, "strict")
<1>1. /\ IsType(TimedValue, 4, "strict")
  BY TimedValueIsType, WiderType
<1>2. IsType(Message([series |-> All(DirectionalSeries)]), 5, "strict")
  <2>1. AreFields([series |-> All(DirectionalSeries)], 4, "strict")
    BY FieldOf, DirectionalSeriesIsType DEF AreFields
  <2> QED BY <2>1, MessageType
<1>3. AreFields(ArcWindowSeries.fields, 5, "strict")
  BY AtomTypes, FieldOf, DirectionalSeriesIsType, <1>1, <1>2
  DEF AreFields, ArcWindowSeries, Message
<1>4. ArcWindowSeries = Message(ArcWindowSeries.fields)
  BY DEF ArcWindowSeries, Message
<1> QED BY <1>3, <1>4, MessageOf

LEMMA HistoryDigestIsType == IsType(HistoryDigest, 8, "strict")
<1>1. /\ IsType(ArcHistoryStat, 6, "strict")
  BY ArcHistoryStatIsType, WiderType
<1>2. AreFields(HistoryDigest.fields, 7, "strict")
  BY AtomTypes, FieldOf, ArcWindowSeriesIsType, <1>1 DEF AreFields, HistoryDigest, Message
<1>3. HistoryDigest = Message(HistoryDigest.fields)
  BY DEF HistoryDigest, Message
<1> QED BY <1>2, <1>3, MessageOf

LEMMA QueuedTriggerIsType == IsType(QueuedTrigger, 1, "any")
<1>1. AreFields(QueuedTrigger.fields, 0, "any")
  BY AtomTypes, EnumTypes, FieldOf DEF AreFields, QueuedTrigger, Message
<1>2. QueuedTrigger = Message(QueuedTrigger.fields)
  BY DEF QueuedTrigger, Message
<1> QED BY <1>1, <1>2, MessageOf

LEMMA ArcWatchStateIsType == IsType(ArcWatchState, 1, "strict")
<1>1. /\ IsField(Plain(EdgeId), 0, "strict") /\ IsField(May(Time), 0, "strict")
      /\ IsField(Plain(Text), 0, "strict")
  BY AtomTypes, FieldOf
<1>2. AreFields(ArcWatchState.fields, 0, "strict")
  BY <1>1 DEF AreFields, ArcWatchState, Message, Together, Fields
<1>3. ArcWatchState = Message(ArcWatchState.fields)
  BY DEF ArcWatchState, Message
<1> QED BY <1>2, <1>3, MessageOf

LEMMA WarmupStateIsType == IsType(WarmupState, 1, "strict")
<1>1. AreFields(WarmupState.fields, 0, "strict")
  BY AtomTypes, FieldOf DEF AreFields, WarmupState, Message
<1>2. WarmupState = Message(WarmupState.fields)
  BY DEF WarmupState, Message
<1> QED BY <1>1, <1>2, MessageOf

LEMMA RetriggerEntryIsType == IsType(RetriggerEntry, 1, "strict")
<1>1. AreFields(RetriggerEntry.fields, 0, "strict")
  BY AtomTypes, FieldOf DEF AreFields, RetriggerEntry, Message
<1>2. RetriggerEntry = Message(RetriggerEntry.fields)
  BY DEF RetriggerEntry, Message
<1> QED BY <1>1, <1>2, MessageOf

LEMMA DetectionStateIsType == IsType(DetectionState, 3, "any")
<1>1. /\ IsType(ArcWatchState, 1, "any") /\ IsType(RetriggerEntry, 1, "any")
      /\ IsType(WarmupState, 1, "any")
  BY ArcWatchStateIsType, RetriggerEntryIsType, WarmupStateIsType, WiderType
<1>2. AreFields(DetectionState.fields, 2, "any")
  BY AtomTypes, FieldOf, QueuedTriggerIsType, <1>1 DEF AreFields, DetectionState, Message
<1>3. DetectionState = Message(DetectionState.fields)
  BY DEF DetectionState, Message
<1> QED BY <1>2, <1>3, MessageOf

LEMMA KeyValueIsType == IsType(KeyValue, 1, "strict")
<1>1. AreFields(KeyValue.fields, 0, "strict")
  BY AtomTypes, FieldOf DEF AreFields, KeyValue, Message
<1>2. KeyValue = Message(KeyValue.fields)
  BY DEF KeyValue, Message
<1> QED BY <1>1, <1>2, MessageOf

LEMMA EventIsType == IsType(Event, 4, "strict")
<1>1. IsType(Message([values |-> All(KeyValue)]), 3, "strict")
  <2>1. AreFields([values |-> All(KeyValue)], 2, "strict")
    BY FieldOf, KeyValueIsType DEF AreFields
  <2> QED BY <2>1, MessageType
<1>2. AreFields(Event.fields, 3, "strict")
  BY AtomTypes, EnumTypes, FieldOf, KeyValueIsType, <1>1 DEF AreFields, Event, Message
<1>3. Event = Message(Event.fields)
  BY DEF Event, Message
<1> QED BY <1>2, <1>3, MessageOf

LEMMA TagReferenceIsType == IsType(TagReference, 1, "strict")
<1>1. AreFields(TagReference.fields, 0, "strict")
  BY AtomTypes, FieldOf DEF AreFields, TagReference, Message
<1>2. TagReference = Message(TagReference.fields)
  BY DEF TagReference, Message
<1> QED BY <1>1, <1>2, MessageOf

LEMMA ThresholdSetIsType == IsType(ThresholdSet, 1, "strict")
<1>1. AreFields(ThresholdSet.fields, 0, "strict")
  BY AtomTypes, FieldOf DEF AreFields, ThresholdSet, Message, Fields
<1>2. ThresholdSet = Message(ThresholdSet.fields)
  BY DEF ThresholdSet, Message
<1> QED BY <1>1, <1>2, MessageOf

LEMMA ReferencesIsType == IsType(References, 3, "strict")
<1>1. \A g \in DOMAIN ThresholdSet.fields : ThresholdSet.fields[g].lack = "none"
  BY DEF ThresholdSet, Message, Fields, May
<1>2. ThresholdSet.is = "message"
  BY DEF ThresholdSet, Message
<1>3. IsField(Lax(ThresholdSet), 1, "strict")
  BY <1>1, <1>2, ThresholdSetIsType DEF IsField, Lax
<1>4. IsType(Message([short_term |-> Lax(ThresholdSet), long_term |-> Lax(ThresholdSet)]), 2, "strict")
  <2>1. AreFields([short_term |-> Lax(ThresholdSet), long_term |-> Lax(ThresholdSet)], 1, "strict")
    BY <1>3 DEF AreFields
  <2> QED BY <2>1, MessageType
<1>5. AreFields(References.fields, 2, "strict")
  BY AtomTypes, FieldOf, TagReferenceIsType, <1>4 DEF AreFields, References, Message
<1>6. References = Message(References.fields)
  BY DEF References, Message
<1> QED BY <1>5, <1>6, MessageOf

LEMMA TenantContextIsType == IsType(TenantContext, 1, "strict")
<1>1. AreFields(TenantContext.fields, 0, "strict")
  BY AtomTypes, FieldOf DEF AreFields, TenantContext, Message
<1>2. TenantContext = Message(TenantContext.fields)
  BY DEF TenantContext, Message
<1> QED BY <1>1, <1>2, MessageOf

LEMMA EventContextIsType == IsType(EventContext, 1, "strict")
<1>1. AreFields(EventContext.fields, 0, "strict")
  BY AtomTypes, EnumTypes, FieldOf DEF AreFields, EventContext, Message
<1>2. EventContext = Message(EventContext.fields)
  BY DEF EventContext, Message
<1> QED BY <1>1, <1>2, MessageOf

LEMMA ThroughputWeightsIsType == IsType(ThroughputWeights, 1, "strict")
<1>1. AreFields(ThroughputWeights.fields, 0, "strict")
  BY AtomTypes, FieldOf DEF AreFields, ThroughputWeights, Message, Fields
<1>2. ThroughputWeights = Message(ThroughputWeights.fields)
  BY DEF ThroughputWeights, Message
<1> QED BY <1>1, <1>2, MessageOf

\* Fields of one kind, and fields of two messages joined.
LEMMA JoinedFields ==
  ASSUME NEW n, NEW mode
  PROVE  /\ \A fs, field : IsField(field, n, mode) => AreFields(Fields(fs, field), n, mode)
         /\ \A some, more : AreFields(some, n, mode) /\ AreFields(more, n, mode)
                            => AreFields(Together(some, more), n, mode)
BY DEF AreFields, Fields, Together

LEMMA ResolvedConfigIsType == IsType(ResolvedConfig, 3, "any")
<1> DEFINE lists   == [throughput_target_edges |-> All(Reference("edge")),
                       throughput_max_per_edge |-> All(EdgeFloat),
                       attribute_tag_priority |-> All(Text), shadow_extensions |-> All(Text)]
           modes   == [optimization_mode |-> Must(OptimizationMode),
                       throughput_weights |-> Must(ThroughputWeights)]
           numbers == Together(Fields(ConfigNumbers, Must(Number)),
                               Fields(ConfigPriors, May(Number)))
           counts  == Fields(ConfigCounts \cup ConfigFlags, Must(Text))
           all     == Together(Together(lists, modes), Together(numbers, counts))
<1>1. /\ IsType(EdgeFloat, 1, "any") /\ IsType(ThroughputWeights, 2, "any")
  BY EdgeFloatIsType, ThroughputWeightsIsType, WiderType
<1>2. AreFields(ResolvedConfig.fields, 2, "any")
  <2>1. AreFields(lists, 2, "any")
    <3>1. /\ IsType(Reference("edge"), 1, "any") /\ IsType(Text, 1, "any")
      BY AtomTypes
    <3>2. /\ IsField(All(Reference("edge")), 2, "any") /\ IsField(All(EdgeFloat), 2, "any")
          /\ IsField(All(Text), 2, "any")
      BY <1>1, <3>1, FieldOf
    <3> QED BY <3>2 DEF AreFields
  <2>2. /\ IsField(Must(OptimizationMode), 2, "any") /\ IsField(Must(ThroughputWeights), 2, "any")
        /\ IsField(Must(Number), 2, "any") /\ IsField(May(Number), 2, "any")
        /\ IsField(Must(Text), 2, "any")
    BY <1>1, AtomTypes, EnumTypes, FieldOf
  <2>3. AreFields(modes, 2, "any")
    BY <2>2 DEF AreFields
  <2>4. AreFields(numbers, 2, "any") /\ AreFields(counts, 2, "any")
    BY <2>2, JoinedFields
  <2>5. ResolvedConfig.fields = all
    BY DEF ResolvedConfig, Message
  <2> HIDE DEF lists, modes, numbers, counts
  <2> QED BY <2>1, <2>3, <2>4, <2>5, JoinedFields
<1>3. ResolvedConfig = Message(ResolvedConfig.fields)
  BY DEF ResolvedConfig, Message
<1> QED BY <1>2, <1>3, MessageOf

LEMMA RouteImportanceIsType == IsType(RouteImportance, 1, "strict")
<1>1. AreFields(RouteImportance.fields, 0, "strict")
  BY AtomTypes, EnumTypes, FieldOf DEF AreFields, RouteImportance, Message
<1>2. RouteImportance = Message(RouteImportance.fields)
  BY DEF RouteImportance, Message
<1> QED BY <1>1, <1>2, MessageOf

LEMMA DirectionProposalIsType == IsType(DirectionProposal, 1, "strict")
<1>1. AreFields(DirectionProposal.fields, 0, "strict")
  BY AtomTypes, EnumTypes, FieldOf DEF AreFields, DirectionProposal, Message
<1>2. DirectionProposal = Message(DirectionProposal.fields)
  BY DEF DirectionProposal, Message
<1> QED BY <1>1, <1>2, MessageOf

LEMMA RestrictionProposalIsType == IsType(RestrictionProposal, 1, "strict")
<1>1. AreFields(RestrictionProposal.fields, 0, "strict")
  BY AtomTypes, EnumTypes, FieldOf DEF AreFields, RestrictionProposal, Message
<1>2. RestrictionProposal = Message(RestrictionProposal.fields)
  BY DEF RestrictionProposal, Message
<1> QED BY <1>1, <1>2, MessageOf

LEMMA DetourPathProposalIsType == IsType(DetourPathProposal, 2, "strict")
<1>1. AreFields(DetourPathProposal.fields, 1, "strict")
  BY AtomTypes, FieldOf DEF AreFields, DetourPathProposal, Message
<1>2. DetourPathProposal = Message(DetourPathProposal.fields)
  BY DEF DetourPathProposal, Message
<1> QED BY <1>1, <1>2, MessageOf

LEMMA BoundaryControlIsType == IsType(BoundaryControl, 1, "strict")
<1>1. AreFields(BoundaryControl.fields, 0, "strict")
  BY AtomTypes, EnumTypes, FieldOf DEF AreFields, BoundaryControl, Message
<1>2. BoundaryControl = Message(BoundaryControl.fields)
  BY DEF BoundaryControl, Message
<1> QED BY <1>1, <1>2, MessageOf

LEMMA ObjectiveValuesIsType == IsType(ObjectiveValues, 1, "strict")
<1>1. AreFields(ObjectiveValues.fields, 0, "strict")
  BY AtomTypes, FieldOf DEF AreFields, ObjectiveValues, Message
<1>2. ObjectiveValues = Message(ObjectiveValues.fields)
  BY DEF ObjectiveValues, Message
<1> QED BY <1>1, <1>2, MessageOf

LEMMA OptimizationResultIsType == IsType(OptimizationResult, 4, "strict")
<1>1. /\ IsType(BoundaryControl, 2, "strict") /\ IsType(DirectionProposal, 2, "strict")
      /\ IsType(ObjectiveValues, 3, "strict") /\ IsType(RestrictionProposal, 2, "strict")
      /\ IsType(RouteImportance, 2, "strict")
  BY BoundaryControlIsType, DirectionProposalIsType, ObjectiveValuesIsType,
     RestrictionProposalIsType, RouteImportanceIsType, WiderType
<1>2. AreFields(OptimizationResult.fields, 3, "strict")
  BY AtomTypes, EnumTypes, FieldOf, DetourPathProposalIsType, <1>1
  DEF AreFields, OptimizationResult, Message
<1>3. OptimizationResult = Message(OptimizationResult.fields)
  BY DEF OptimizationResult, Message
<1> QED BY <1>2, <1>3, MessageOf

LEMMA OptimizeRequestIsType == IsType(OptimizeRequest, 9, "any")
<1>1. /\ IsType(DetectionState, 8, "any") /\ IsType(Event, 7, "any")
      /\ IsType(EventContext, 8, "any") /\ IsType(Graph, 8, "any")
      /\ IsType(HistoryDigest, 8, "any") /\ IsType(Observations, 8, "any")
      /\ IsType(OptimizationResult, 8, "any") /\ IsType(References, 8, "any")
      /\ IsType(ResolvedConfig, 8, "any") /\ IsType(TenantContext, 8, "any")
  BY DetectionStateIsType, EventIsType, EventContextIsType, GraphIsType, HistoryDigestIsType,
     ObservationsIsType, OptimizationResultIsType, ReferencesIsType, ResolvedConfigIsType,
     TenantContextIsType, WiderType
<1>2. AreFields(OptimizeRequest.fields, 8, "any")
  BY AtomTypes, FieldOf, <1>1 DEF AreFields, OptimizeRequest, Message
<1>3. OptimizeRequest = Message(OptimizeRequest.fields)
  BY DEF OptimizeRequest, Message
<1> QED BY <1>2, <1>3, MessageOf

LEMMA WarningIsType == IsType(Warning, 3, "strict")
<1>1. AreFields(Warning.fields, 2, "strict")
  BY AtomTypes, EnumTypes, FieldOf, KeyValueIsType DEF AreFields, Warning, Message
<1>2. Warning = Message(Warning.fields)
  BY DEF Warning, Message
<1> QED BY <1>1, <1>2, MessageOf

LEMMA ComputeMetaIsType == IsType(ComputeMeta, 2, "strict")
<1>1. IsType(Message(Fields({"local", "boundary"}, Plain(Text))), 1, "strict")
  <2>1. AreFields(Fields({"local", "boundary"}, Plain(Text)), 0, "strict")
    BY AtomTypes, FieldOf DEF AreFields, Fields
  <2> QED BY <2>1, MessageType
<1>2. AreFields(ComputeMeta.fields, 1, "strict")
  BY AtomTypes, EnumTypes, FieldOf, <1>1 DEF AreFields, ComputeMeta, Message, Together, Fields
<1>3. ComputeMeta = Message(ComputeMeta.fields)
  BY DEF ComputeMeta, Message
<1> QED BY <1>2, <1>3, MessageOf

LEMMA TagObservationIsType == IsType(TagObservation, 1, "strict")
<1>1. AreFields(TagObservation.fields, 0, "strict")
  BY AtomTypes, FieldOf DEF AreFields, TagObservation, Message
<1>2. TagObservation = Message(TagObservation.fields)
  BY DEF TagObservation, Message
<1> QED BY <1>1, <1>2, MessageOf

LEMMA PredictionActualDiffIsType == IsType(PredictionActualDiff, 1, "strict")
<1>1. AreFields(PredictionActualDiff.fields, 0, "strict")
  BY AtomTypes, FieldOf DEF AreFields, PredictionActualDiff, Message, Fields
<1>2. PredictionActualDiff = Message(PredictionActualDiff.fields)
  BY DEF PredictionActualDiff, Message
<1> QED BY <1>1, <1>2, MessageOf

LEMMA ReferenceUsageIsType == IsType(ReferenceUsage, 2, "strict")
<1>1. AreFields(ReferenceUsage.fields, 1, "strict")
  BY AtomTypes, FieldOf DEF AreFields, ReferenceUsage, Message
<1>2. ReferenceUsage = Message(ReferenceUsage.fields)
  BY DEF ReferenceUsage, Message
<1> QED BY <1>1, <1>2, MessageOf

LEMMA QualityMetricsIsType == IsType(QualityMetrics, 1, "strict")
<1>1. AreFields(QualityMetrics.fields, 0, "strict")
  BY AtomTypes, FieldOf DEF AreFields, QualityMetrics, Message, Fields
<1>2. QualityMetrics = Message(QualityMetrics.fields)
  BY DEF QualityMetrics, Message
<1> QED BY <1>1, <1>2, MessageOf

LEMMA DetourMetricsIsType == IsType(DetourMetrics, 1, "strict")
<1>1. AreFields(DetourMetrics.fields, 0, "strict")
  BY AtomTypes, FieldOf DEF AreFields, DetourMetrics, Message
<1>2. DetourMetrics = Message(DetourMetrics.fields)
  BY DEF DetourMetrics, Message
<1> QED BY <1>1, <1>2, MessageOf

LEMMA RestrictionMetricsIsType == IsType(RestrictionMetrics, 3, "strict")
<1>1. IsType(Message([reason |-> Plain(FeedbackRestrictionReason), count |-> Plain(Text)]), 1, "strict")
  <2>1. AreFields([reason |-> Plain(FeedbackRestrictionReason), count |-> Plain(Text)], 0, "strict")
    BY AtomTypes, EnumTypes, FieldOf DEF AreFields
  <2> QED BY <2>1, MessageType
<1>2. AreFields(RestrictionMetrics.fields, 2, "strict")
  BY AtomTypes, EnumTypes, FieldOf, <1>1 DEF AreFields, RestrictionMetrics, Message
<1>3. RestrictionMetrics = Message(RestrictionMetrics.fields)
  BY DEF RestrictionMetrics, Message
<1> QED BY <1>2, <1>3, MessageOf

LEMMA DirectionChangeSummaryIsType == IsType(DirectionChangeSummary, 1, "strict")
<1>1. AreFields(DirectionChangeSummary.fields, 0, "strict")
  BY AtomTypes, FieldOf DEF AreFields, DirectionChangeSummary, Message, Fields
<1>2. DirectionChangeSummary = Message(DirectionChangeSummary.fields)
  BY DEF DirectionChangeSummary, Message
<1> QED BY <1>1, <1>2, MessageOf

LEMMA AbDiffIsType == IsType(AbDiff, 2, "strict")
<1>1. AreFields(AbDiff.fields, 1, "strict")
  BY AtomTypes, FieldOf DEF AreFields, AbDiff, Message, Together, Fields
<1>2. AbDiff = Message(AbDiff.fields)
  BY DEF AbDiff, Message
<1> QED BY <1>1, <1>2, MessageOf

LEMMA NodeDemandIsType == IsType(NodeDemand, 1, "strict")
<1>1. AreFields(NodeDemand.fields, 0, "strict")
  BY AtomTypes, FieldOf DEF AreFields, NodeDemand, Message, Together, Fields
<1>2. NodeDemand = Message(NodeDemand.fields)
  BY DEF NodeDemand, Message
<1> QED BY <1>1, <1>2, MessageOf

LEMMA NodeResolutionIsType == IsType(NodeResolution, 2, "strict")
<1>1. AreFields(NodeResolution.fields, 1, "strict")
  BY AtomTypes, EnumTypes, FieldOf DEF AreFields, NodeResolution, Message
<1>2. NodeResolution = Message(NodeResolution.fields)
  BY DEF NodeResolution, Message
<1> QED BY <1>1, <1>2, MessageOf

LEMMA ForecastSummaryIsType == IsType(ForecastSummary, 4, "strict")
<1>1. /\ IsType(NodeDemand, 2, "strict")
  BY NodeDemandIsType, WiderType
<1>2. AreFields(ForecastSummary.fields, 3, "strict")
  BY AtomTypes, FieldOf, NodeResolutionIsType, <1>1 DEF AreFields, ForecastSummary, Message
<1>3. ForecastSummary = Message(ForecastSummary.fields)
  BY DEF ForecastSummary, Message
<1> QED BY <1>2, <1>3, MessageOf

LEMMA FeedbackValuesIsType == IsType(FeedbackValues, 5, "strict")
<1>1. /\ IsType(AbDiff, 4, "strict") /\ IsType(ComputeMeta, 4, "strict")
      /\ IsType(DetourMetrics, 4, "strict") /\ IsType(DirectionChangeSummary, 4, "strict")
      /\ IsType(ObjectiveValues, 4, "strict") /\ IsType(PredictionActualDiff, 4, "strict")
      /\ IsType(QualityMetrics, 4, "strict") /\ IsType(ReferenceUsage, 4, "strict")
      /\ IsType(RestrictionMetrics, 4, "strict") /\ IsType(TagObservation, 3, "strict")
  BY AbDiffIsType, ComputeMetaIsType, DetourMetricsIsType, DirectionChangeSummaryIsType,
     ObjectiveValuesIsType, PredictionActualDiffIsType, QualityMetricsIsType, ReferenceUsageIsType,
     RestrictionMetricsIsType, TagObservationIsType, WiderType
<1>2. AreFields(FeedbackValues.fields, 4, "strict")
  BY AtomTypes, FieldOf, ForecastSummaryIsType, WarningIsType, <1>1
  DEF AreFields, FeedbackValues, Message
<1>3. FeedbackValues = Message(FeedbackValues.fields)
  BY DEF FeedbackValues, Message
<1> QED BY <1>2, <1>3, MessageOf

LEMMA TriggerEvidenceIsType == IsType(TriggerEvidence, 1, "any")
<1>1. AreFields(TriggerEvidence.fields, 0, "any")
  BY AtomTypes, EnumTypes, FieldOf DEF AreFields, TriggerEvidence, Message
<1>2. TriggerEvidence = Message(TriggerEvidence.fields)
  BY DEF TriggerEvidence, Message
<1> QED BY <1>1, <1>2, MessageOf

LEMMA FallbackRecordIsType == IsType(FallbackRecord, 2, "strict")
<1>1. AreFields(FallbackRecord.fields, 1, "strict")
  BY AtomTypes, EnumTypes, FieldOf DEF AreFields, FallbackRecord, Message
<1>2. FallbackRecord = Message(FallbackRecord.fields)
  BY DEF FallbackRecord, Message
<1> QED BY <1>1, <1>2, MessageOf

LEMMA StepRecordIsType == IsType(StepRecord, 1, "strict")
<1>1. AreFields(StepRecord.fields, 0, "strict")
  BY AtomTypes, EnumTypes, FieldOf DEF AreFields, StepRecord, Message
<1>2. StepRecord = Message(StepRecord.fields)
  BY DEF StepRecord, Message
<1> QED BY <1>1, <1>2, MessageOf

LEMMA ElementStateRecordIsType == IsType(ElementStateRecord, 2, "strict")
<1>1. AreFields(ElementStateRecord.fields, 1, "strict")
  BY AtomTypes, EnumTypes, FieldOf DEF AreFields, ElementStateRecord, Message
<1>2. ElementStateRecord = Message(ElementStateRecord.fields)
  BY DEF ElementStateRecord, Message
<1> QED BY <1>1, <1>2, MessageOf

LEMMA DiagnosticsIsType == IsType(Diagnostics, 5, "any")
<1>1. /\ IsType(ElementStateRecord, 3, "any") /\ IsType(FallbackRecord, 3, "any")
      /\ IsType(StepRecord, 3, "any") /\ IsType(TriggerEvidence, 3, "any")
      /\ IsType(Warning, 3, "any")
  BY ElementStateRecordIsType, FallbackRecordIsType, StepRecordIsType, TriggerEvidenceIsType,
     WarningIsType, WiderType
<1>2. AreFields(Diagnostics.fields, 4, "any")
  BY AtomTypes, EnumTypes, FieldOf, <1>1 DEF AreFields, Diagnostics, Message
<1>3. Diagnostics = Message(Diagnostics.fields)
  BY DEF Diagnostics, Message
<1> QED BY <1>2, <1>3, MessageOf

LEMMA OptimizeResponseIsType == IsType(OptimizeResponse, 6, "any")
<1>1. /\ IsType(DetectionState, 5, "any") /\ IsType(FeedbackValues, 5, "any")
      /\ IsType(OptimizationResult, 5, "any")
  BY DetectionStateIsType, FeedbackValuesIsType, OptimizationResultIsType, WiderType
<1>2. AreFields(OptimizeResponse.fields, 5, "any")
  BY AtomTypes, EnumTypes, FieldOf, DiagnosticsIsType, <1>1
  DEF AreFields, OptimizeResponse, Message
<1>3. OptimizeResponse = Message(OptimizeResponse.fields)
  BY DEF OptimizeResponse, Message
<1> QED BY <1>2, <1>3, MessageOf

-----------------------------------------------------------------------------
(* Field by field. *)

LEMMA SoundFromInside ==
  ASSUME NEW T, Grammar(T), NEW view, NEW t \in T, NEW v, Sound(<<view, t, v>>),
         \A q \in Inside(<<view, t, v>>) : AllSound(view, q[2], q[3])
  PROVE  AllSound(view, t, v)
<1>1. \A p \in Parts(view, t, v) :
        \/ p = <<view, t, v>>
        \/ \E q \in Inside(<<view, t, v>>) : p \in Parts(view, q[2], q[3])
  BY PartsUnfold
<1> QED BY <1>1 DEF AllSound

\* A message is sound when what is in its fields is.
LEMMA MessageIsSound ==
  ASSUME NEW n, NEW t, IsType(t, n, "any"), t.is = "message",
         NEW view, NEW v, Sound(<<view, t, v>>),
         \A f \in DOMAIN t.fields : \A x \in InField(view, t.fields[f], f, v) :
           AllSound(view, t.fields[f].type, x)
  PROVE  AllSound(view, t, v)
<1>1. PICK T : Grammar(T) /\ t \in T
  BY DEF IsType
<1>2. ASSUME NEW q \in Inside(<<view, t, v>>) PROVE AllSound(view, q[2], q[3])
  <2>1. PICK f \in DOMAIN t.fields : q \in PartsInField(view, t.fields[f], f, v)
    BY DEF Inside
  <2>2. PICK x \in InField(view, t.fields[f], f, v) : q = <<view, t.fields[f].type, x>>
    BY <2>1 DEF PartsInField
  <2> QED BY <2>2
<1> QED BY <1>1, <1>2, SoundFromInside

LEMMA FieldIsSound ==
  ASSUME NEW n, NEW t, IsType(t, n, "any"), t.is = "message", NEW view, NEW v, AllSound(view, t, v)
  PROVE  /\ Sound(<<view, t, v>>)
         /\ \A f \in DOMAIN t.fields : \A x \in InField(view, t.fields[f], f, v) :
              AllSound(view, t.fields[f].type, x)
<1>1. PICK T : Grammar(T) /\ t \in T
  BY DEF IsType
<1>2. Sound(<<view, t, v>>)
  BY <1>1, SoundIn
<1>3. ASSUME NEW f \in DOMAIN t.fields, NEW x \in InField(view, t.fields[f], f, v)
      PROVE  AllSound(view, t.fields[f].type, x)
  <2>1. <<view, t.fields[f].type, x>> \in Inside(<<view, t, v>>)
    BY FieldInside
  <2> QED BY <1>1, <2>1, SoundIn
<1> QED BY <1>2, <1>3

LEMMA ListIsSound ==
  ASSUME NEW n, NEW of, IsType(List(of), n, "any"), NEW v, IsList(v),
         \A i \in DOMAIN v : AllSound("held", of, v[i])
  PROVE  AllSound("held", List(of), v)
<1> DEFINE t == List(of)
<1>1. t.is = "list" /\ t.of = of
  BY DEF List
<1>2. PICK T : Grammar(T) /\ t \in T
  BY DEF IsType
<1> HIDE DEF t
<1>3. Sound(<<"held", t, v>>)
  BY <1>1 DEF Sound, Proper
<1>4. \A q \in Inside(<<"held", t, v>>) : AllSound("held", q[2], q[3])
  BY <1>1 DEF Inside, Items
<1>5. AllSound("held", t, v)
  BY <1>2, <1>3, <1>4, SoundFromInside
<1> QED BY <1>5 DEF t

LEMMA ItemIsSound ==
  ASSUME NEW n, NEW of, IsType(List(of), n, "any"), NEW v, AllSound("held", List(of), v)
  PROVE  IsList(v) /\ \A i \in DOMAIN v : AllSound("held", of, v[i])
<1> DEFINE t == List(of)
<1>1. t.is = "list" /\ t.of = of
  BY DEF List
<1>2. PICK T : Grammar(T) /\ t \in T
  BY DEF IsType
<1> HIDE DEF t
<1>3. Sound(<<"held", t, v>>)
      /\ \A q \in Inside(<<"held", t, v>>) :
           q = <<"held", q[2], q[3]>> /\ q[2] \in T /\ q[2].depth < t.depth /\ AllSound("held", q[2], q[3])
  BY <1>2, SoundIn DEF t
<1>4. IsList(v)
  BY <1>1, <1>3 DEF Sound, Proper
<1>5. ASSUME NEW i \in DOMAIN v PROVE AllSound("held", of, v[i])
  <2>1. <<"held", of, v[i]>> \in Inside(<<"held", t, v>>)
    BY <1>1 DEF Inside, Items
  <2> QED BY <1>3, <2>1
<1> QED BY <1>4, <1>5

\* An atom, an instant or a member has no parts.
LEMMA LeafIsSound ==
  ASSUME NEW n, NEW t, IsType(t, n, "any"), t.is \in {"atom", "time", "enum"}, NEW v
  PROVE  AllSound("held", t, v) <=> Proper(t, v)
<1>1. PICK T : Grammar(T) /\ t \in T
  BY DEF IsType
<1>2. Inside(<<"held", t, v>>) = {}
  BY DEF Inside
<1>3. Sound(<<"held", t, v>>) <=> Proper(t, v)
  BY DEF Sound
<1>4. ASSUME AllSound("held", t, v) PROVE Sound(<<"held", t, v>>)
  BY <1>1, <1>4, SoundIn
<1>5. ASSUME Sound(<<"held", t, v>>) PROVE AllSound("held", t, v)
  BY <1>1, <1>2, <1>5, SoundFromInside
<1> QED BY <1>3, <1>4, <1>5

-----------------------------------------------------------------------------
(* What can be written. *)

LEMMA WritableFromInside ==
  ASSUME NEW T, Grammar(T), NEW t \in T, NEW v, WritableItself(t, v),
         \A q \in Inside(<<"held", t, v>>) : Writable(q[2], q[3])
  PROVE  Writable(t, v)
<1>1. \A p \in Parts("held", t, v) :
        \/ p = <<"held", t, v>>
        \/ \E q \in Inside(<<"held", t, v>>) : p \in Parts("held", q[2], q[3])
  BY PartsUnfold
<1> QED BY <1>1 DEF Writable

LEMMA MessageIsWritable ==
  ASSUME NEW n, NEW t, IsType(t, n, "any"), t.is = "message", NEW v,
         \A f \in DOMAIN t.fields : \A x \in InField("held", t.fields[f], f, v) :
           Writable(t.fields[f].type, x)
  PROVE  Writable(t, v)
<1>1. PICK T : Grammar(T) /\ t \in T
  BY DEF IsType
<1>2. ASSUME NEW q \in Inside(<<"held", t, v>>) PROVE Writable(q[2], q[3])
  <2>1. PICK f \in DOMAIN t.fields : q \in PartsInField("held", t.fields[f], f, v)
    BY DEF Inside
  <2>2. PICK x \in InField("held", t.fields[f], f, v) : q = <<"held", t.fields[f].type, x>>
    BY <2>1 DEF PartsInField
  <2> QED BY <2>2
<1>3. WritableItself(t, v)
  BY DEF WritableItself
<1> QED BY <1>1, <1>2, <1>3, WritableFromInside

LEMMA ListIsWritable ==
  ASSUME NEW n, NEW of, IsType(List(of), n, "any"), NEW v,
         \A i \in DOMAIN v : Writable(of, v[i])
  PROVE  Writable(List(of), v)
<1> DEFINE t == List(of)
<1>1. t.is = "list" /\ t.of = of
  BY DEF List
<1>2. PICK T : Grammar(T) /\ t \in T
  BY DEF IsType
<1> HIDE DEF t
<1>3. WritableItself(t, v)
  BY <1>1 DEF WritableItself
<1>4. \A q \in Inside(<<"held", t, v>>) : Writable(q[2], q[3])
  BY <1>1 DEF Inside, Items
<1>5. Writable(t, v)
  BY <1>2, <1>3, <1>4, WritableFromInside
<1> QED BY <1>5 DEF t

\* When a value can be written, so can what is inside it.
LEMMA WritableInside ==
  ASSUME NEW n, NEW t, IsType(t, n, "any"), NEW v, Writable(t, v)
  PROVE  WritableItself(t, v) /\ \A q \in Inside(<<"held", t, v>>) : Writable(q[2], q[3])
<1>1. PICK T : Grammar(T) /\ t \in T
  BY DEF IsType
<1>2. WritableItself(t, v)
  <2>1. <<"held", t, v>> \in Parts("held", t, v)
    BY <1>1, PartsFacts
  <2> QED BY <2>1 DEF Writable
<1>3. ASSUME NEW q \in Inside(<<"held", t, v>>) PROVE Writable(q[2], q[3])
  <2>1. Parts("held", q[2], q[3]) \subseteq Parts("held", t, v)
    BY <1>1, PartsUnfold
  <2> QED BY <2>1 DEF Writable
<1> QED BY <1>2, <1>3

LEMMA WritableOf ==
  ASSUME NEW n, NEW t, IsType(t, n, "any"), t.is = "message", NEW v, Writable(t, v),
         NEW f \in DOMAIN t.fields, t.fields[f].lack # "none"
  PROVE  Writable(t.fields[f].type, v[f])
<1> DEFINE q == <<"held", t.fields[f].type, v[f]>>
<1>1. q \in Inside(<<"held", t, v>>)
  BY DEF Inside, PartsInField, InField
<1>2. Writable(q[2], q[3])
  <2> HIDE DEF q
  <2> QED BY <1>1, WritableInside
<1> QED BY <1>2

LEMMA WritableItems ==
  ASSUME NEW n, NEW of, IsType(List(of), n, "any"), NEW v, Writable(List(of), v), NEW x \in Items(v)
  PROVE  Writable(of, x)
<1> DEFINE q == <<"held", of, x>>
<1>1. q \in Inside(<<"held", List(of), v>>)
  BY DEF Inside, List
<1>2. Writable(q[2], q[3])
  <2> HIDE DEF q
  <2> QED BY <1>1, WritableInside
<1> QED BY <1>2

\* A sound value of a strict type can always be written.
LEMMA StrictIsWritable ==
  ASSUME NEW n, NEW t, IsType(t, n, "strict"), NEW v, AllSound("held", t, v)
  PROVE  Writable(t, v)
<1>1. PICK T : Grammar(T) /\ Strict(T) /\ t \in T
  BY DEF IsType
<1>2. ASSUME NEW p \in Parts("held", t, v) PROVE WritableItself(p[2], p[3])
  <2>1. p = <<"held", p[2], p[3]>> /\ p[2] \in T /\ AllSound("held", p[2], p[3])
    BY <1>1, SoundInside
  <2>2. Sound(<<"held", p[2], p[3]>>)
    BY <1>1, <2>1, SoundIn
  <2>3. Proper(p[2], p[3])
    BY <2>2 DEF Sound
  <2>4. p[2].is \in {"atom", "time", "enum", "list", "message"}
    BY <1>1, <2>1 DEF Grammar
  <2>5. CASE p[2].is = "atom"
    BY <1>1, <2>1, <2>3, <2>5 DEF Strict, Proper, WritableItself
  <2>6. CASE p[2].is \in {"time", "enum"}
    BY <2>3, <2>6 DEF Proper, WritableItself, Instants
  <2>7. CASE p[2].is \in {"list", "message"}
    BY <2>7 DEF WritableItself
  <2> QED BY <2>4, <2>5, <2>6, <2>7
<1> QED BY <1>2 DEF Writable

-----------------------------------------------------------------------------
(* In terms of the messages. *)

(* What has been read is clean, whatever the type: it holds no value that    *)
(* stands for a number that is not finite, a date outside the calendar or a  *)
(* member that does not exist (the _decode_x functions).                     *)
THEOREM ReadIsClean ==
  ASSUME NEW n, NEW t, IsType(t, n, "any"), NEW w, AllSound("wire", t, w)
  PROVE  AllSound("held", t, Read(t, w)) /\ Held(t, Read(t, w)) \cap Marks = {}
<1>1. PICK T : Grammar(T) /\ t \in T
  BY DEF IsType
<1>2. AllSound("held", t, Read(t, w))
  BY <1>1, ReadIsSound
<1>3. ASSUME NEW p \in Parts("held", t, Read(t, w)), p[2].is \in {"atom", "time", "enum"}
      PROVE  p[3] \notin Marks
  <2>1. p = <<"held", p[2], p[3]>> /\ p[2] \in T /\ AllSound("held", p[2], p[3])
    BY <1>1, <1>2, SoundInside
  <2>2. Sound(<<"held", p[2], p[3]>>)
    BY <1>1, <2>1, SoundIn
  <2>3. Proper(p[2], p[3])
    BY <2>2 DEF Sound
  <2>4. CASE p[2].is = "atom"
    BY <1>1, <2>1, <2>3, <2>4 DEF Grammar, Proper
  <2>5. CASE p[2].is = "time"
    BY <2>3, <2>5 DEF Proper, Instants, Marks
  <2>6. CASE p[2].is = "enum"
    BY <1>1, <2>1, <2>3, <2>6 DEF Grammar, Proper
  <2> QED BY <1>3, <2>4, <2>5, <2>6
<1> QED BY <1>2, <1>3 DEF Held

(* What has been written can be read, and comes back as it was, whatever the *)
(* type: each _encode_x function and its _decode_x agree.                    *)
THEOREM WrittenIsReadBack ==
  ASSUME NEW n, NEW t, IsType(t, n, "any"), NEW v, AllSound("held", t, v)
  PROVE  /\ AllSound("wire", t, Written(t, v)) /\ Readable(t, Written(t, v))
         /\ Read(t, Written(t, v)) = v
<1>1. PICK T : Grammar(T) /\ t \in T
  BY DEF IsType
<1>2. AllSound("wire", t, Written(t, v))
  BY <1>1, WrittenIsSound
<1>3. Read(t, Written(t, v)) = v
  BY <1>1, ReadBack
<1>4. Readable(t, Written(t, v))
  <2>1. ASSUME NEW p \in Parts("wire", t, Written(t, v)) PROVE ReadableItself(p[2], p[3])
    <3>1. p = <<"wire", p[2], p[3]>> /\ Sound(p)
      BY <1>1, <1>2, SoundInside DEF AllSound
    <3> QED BY <3>1 DEF Sound
  <2> QED BY <2>1 DEF Readable
<1> QED BY <1>2, <1>3, <1>4

\* A message on the wire that can be there, and read, is sound.
LEMMA ReadableIsSound ==
  ASSUME NEW n, NEW t, IsType(t, n, "any"), NEW w, Readable(t, w),
         \A p \in Parts("wire", t, w) : Possible(p[2], p[3])
  PROVE  AllSound("wire", t, w)
<1>1. PICK T : Grammar(T) /\ t \in T
  BY DEF IsType
<1>2. ASSUME NEW p \in Parts("wire", t, w) PROVE Sound(p)
  <2>1. p = <<"wire", p[2], p[3]>>
    <3>1. \A q \in Parts("wire", t, w) : /\ q = <<"wire", q[2], q[3]>> /\ q[2] \in T
                                         /\ q = <<"wire", t, w>> \/ q[2].depth < t.depth
                                         /\ Inside(q) \subseteq Parts("wire", t, w)
      BY <1>1, PartsFacts
    <3> QED BY <3>1
  <2> QED BY <2>1 DEF Readable, Sound
<1> QED BY <1>2 DEF AllSound

LEMMA SoundIsReadable ==
  ASSUME NEW n, NEW t, IsType(t, n, "any"), NEW w, AllSound("wire", t, w)
  PROVE  Readable(t, w) /\ \A p \in Parts("wire", t, w) : Possible(p[2], p[3])
<1>1. PICK T : Grammar(T) /\ t \in T
  BY DEF IsType
<1>2. ASSUME NEW p \in Parts("wire", t, w) PROVE Possible(p[2], p[3]) /\ ReadableItself(p[2], p[3])
  <2>1. p = <<"wire", p[2], p[3]>>
    BY <1>1, SoundInside
  <2>2. p[1] = "wire" /\ Sound(p)
    BY <2>1 DEF AllSound
  <2> QED BY <2>2 DEF Sound
<1> QED BY <1>2 DEF Readable

-----------------------------------------------------------------------------
(* What the program holds, field by field. *)

HeldField(field, x) ==
  IF field.lack = "none"
  THEN (x = <<>> \/ x = <<x[1]>>) /\ \A i \in DOMAIN x : AllSound("held", field.type, x[i])
  ELSE AllSound("held", field.type, x)

LEMMA HeldMessage ==
  ASSUME NEW n, NEW t, IsType(t, n, "any"), t.is = "message", NEW v
  PROVE  AllSound("held", t, v) <=>
           /\ v = [f \in DOMAIN t.fields |-> v[f]]
           /\ \A f \in DOMAIN t.fields : HeldField(t.fields[f], v[f])
<1>1. Sound(<<"held", t, v>>) <=>
        /\ v = [f \in DOMAIN t.fields |-> v[f]]
        /\ \A f \in DOMAIN t.fields : t.fields[f].lack = "none" => v[f] = <<>> \/ v[f] = <<v[f][1]>>
  BY DEF Sound, Proper
<1>2. ASSUME AllSound("held", t, v)
      PROVE  /\ v = [f \in DOMAIN t.fields |-> v[f]]
             /\ \A f \in DOMAIN t.fields : HeldField(t.fields[f], v[f])
  <2>1. /\ Sound(<<"held", t, v>>)
        /\ \A f \in DOMAIN t.fields : \A x \in InField("held", t.fields[f], f, v) :
             AllSound("held", t.fields[f].type, x)
    BY <1>2, FieldIsSound
  <2>2. ASSUME NEW f \in DOMAIN t.fields PROVE HeldField(t.fields[f], v[f])
    <3>1. CASE t.fields[f].lack = "none"
      <4>1. \A i \in DOMAIN v[f] : v[f][i] \in InField("held", t.fields[f], f, v)
        BY <3>1 DEF InField, Items
      <4> QED BY <1>1, <2>1, <3>1, <4>1 DEF HeldField
    <3>2. CASE t.fields[f].lack # "none"
      <4>1. v[f] \in InField("held", t.fields[f], f, v)
        BY <3>2 DEF InField
      <4> QED BY <2>1, <3>2, <4>1 DEF HeldField
    <3> QED BY <3>1, <3>2
  <2> QED BY <1>1, <2>1, <2>2
<1>3. ASSUME v = [f \in DOMAIN t.fields |-> v[f]],
             \A f \in DOMAIN t.fields : HeldField(t.fields[f], v[f])
      PROVE  AllSound("held", t, v)
  <2>1. Sound(<<"held", t, v>>)
    BY <1>1, <1>3 DEF HeldField
  <2>2. \A f \in DOMAIN t.fields : \A x \in InField("held", t.fields[f], f, v) :
          AllSound("held", t.fields[f].type, x)
    BY <1>3 DEF HeldField, InField, Items
  <2> QED BY <2>1, <2>2, MessageIsSound
<1> QED BY <1>2, <1>3

LEMMA HeldFields ==
  ASSUME NEW t, NEW x
  PROVE  /\ HeldField(Must(t), x) <=> AllSound("held", t, x)
         /\ HeldField(Plain(t), x) <=> AllSound("held", t, x)
         /\ HeldField(All(t), x) <=> AllSound("held", List(t), x)
         /\ HeldField(May(t), x) <=>
              (x = <<>> \/ x = <<x[1]>>) /\ \A i \in DOMAIN x : AllSound("held", t, x[i])
BY DEF HeldField, Must, Plain, All, May

LEMMA HeldLeaf ==
  ASSUME NEW x
  PROVE  /\ AllSound("held", Text, x) <=> x \notin Marks
         /\ AllSound("held", Name, x) <=> x \notin Marks \cup {""}
         /\ AllSound("held", EdgeId, x) <=> x \notin Marks \cup {""}
         /\ AllSound("held", NodeId, x) <=> x \notin Marks \cup {""}
         /\ AllSound("held", Id("target"), x) <=> x \notin Marks \cup {""}
         /\ AllSound("held", Atom("target", {}, {}), x) <=> x \notin Marks
         /\ AllSound("held", Reference("edge"), x) <=> x \notin Marks
         /\ AllSound("held", Reference("node"), x) <=> x \notin Marks
         /\ AllSound("held", Number, x) <=> x \notin Marks
         /\ AllSound("held", Count, x) <=> x \notin Marks
         /\ AllSound("held", Elapsed, x) <=> x \notin Marks \cup {"-1"}
         /\ AllSound("held", Time, x) <=> x \in Instants
<1>1. /\ MarksOf("text") = {} /\ MarksOf("edge") = {} /\ MarksOf("node") = {} /\ MarksOf("target") = {}
      /\ MarksOf("elapsed") = {} /\ MarksOf("number") = {"NaN"} /\ MarksOf("count") = {}
  BY DEF MarksOf
<1>2. /\ IsType(Count, 0, "any")
      /\ IsType(Text, 0, "any") /\ IsType(Name, 0, "any") /\ IsType(EdgeId, 0, "any")
      /\ IsType(NodeId, 0, "any") /\ IsType(Id("target"), 0, "any")
      /\ IsType(Number, 0, "any") /\ IsType(Elapsed, 0, "any")
      /\ IsType(Atom("target", {}, {}), 0, "any") /\ IsType(Time, 0, "any")
      /\ IsType(Reference("edge"), 0, "any") /\ IsType(Reference("node"), 0, "any")
  BY AtomTypes
<1>3. ASSUME NEW as, NEW unread, NEW unwritten, IsType(Atom(as, unread, unwritten), 0, "any")
      PROVE  AllSound("held", Atom(as, unread, unwritten), x)
               <=> x \notin unread \cup (Marks \ MarksOf(as))
  <2> DEFINE t == Atom(as, unread, unwritten)
  <2>1. t.is = "atom" /\ t.as = as /\ t.unread = unread
    BY DEF Atom
  <2> HIDE DEF t
  <2>2. AllSound("held", t, x) <=> Proper(t, x)
    BY <1>3, <2>1, LeafIsSound DEF t
  <2>3. Proper(t, x) <=> x \notin unread \cup (Marks \ MarksOf(as))
    BY <2>1 DEF Proper
  <2> QED BY <2>2, <2>3 DEF t
<1>4. AllSound("held", Time, x) <=> x \in Instants
  <2>1. Time.is = "time"
    BY DEF Time
  <2>2. AllSound("held", Time, x) <=> Proper(Time, x)
    BY <1>2, <2>1, LeafIsSound
  <2> QED BY <2>1, <2>2 DEF Proper
<1>5. AllSound("held", Text, x) <=> x \notin Marks
  BY <1>1, <1>2, <1>3 DEF Text
<1>6. AllSound("held", Atom("target", {}, {}), x) <=> x \notin Marks
  BY <1>1, <1>2, <1>3
<1>7. ASSUME NEW as \in {"text", "edge", "node", "target"}, IsType(Id(as), 0, "any")
      PROVE  AllSound("held", Id(as), x) <=> x \notin Marks \cup {""}
  <2>1. AllSound("held", Id(as), x) <=> x \notin {""} \cup (Marks \ MarksOf(as))
    BY <1>3, <1>7 DEF Id
  <2>2. MarksOf(as) = {}
    BY <1>1
  <2> QED BY <2>1, <2>2
<1>8. ASSUME NEW as \in {"edge", "node"}, IsType(Reference(as), 0, "any")
      PROVE  AllSound("held", Reference(as), x) <=> x \notin Marks
  <2>1. AllSound("held", Reference(as), x) <=> x \notin {} \cup (Marks \ MarksOf(as))
    BY <1>3, <1>8 DEF Reference
  <2>2. MarksOf(as) = {}
    BY <1>1
  <2> QED BY <2>1, <2>2
<1>9. AllSound("held", Number, x) <=> x \notin Marks
  <2>1. AllSound("held", Number, x) <=> x \notin {"NaN"} \cup (Marks \ MarksOf("number"))
    BY <1>2, <1>3 DEF Number
  <2> QED BY <1>1, <2>1 DEF Marks
<1>10. AllSound("held", Elapsed, x) <=> x \notin Marks \cup {"-1"}
  <2>1. AllSound("held", Elapsed, x) <=> x \notin {"-1"} \cup (Marks \ MarksOf("elapsed"))
    BY <1>2, <1>3 DEF Elapsed
  <2> QED BY <1>1, <2>1
<1>11. AllSound("held", Count, x) <=> x \notin Marks
  <2>1. AllSound("held", Count, x) <=> x \notin {"over"} \cup (Marks \ MarksOf("count"))
    BY <1>2, <1>3 DEF Count
  <2> QED BY <1>1, <2>1 DEF Marks
<1> QED BY <1>2, <1>4, <1>5, <1>6, <1>7, <1>8, <1>9, <1>10, <1>11 DEF Name, EdgeId, NodeId

LEMMA HeldMember ==
  ASSUME NEW members, members \cap Marks = {}, NEW x
  PROVE  AllSound("held", Enum(members), x) <=> x \in members
<1> DEFINE t == Enum(members)
<1>1. IsType(t, 0, "any") /\ t.is = "enum" /\ t.members = members
  BY EnumType DEF Enum
<1> HIDE DEF t
<1>2. AllSound("held", t, x) <=> Proper(t, x)
  BY <1>1, LeafIsSound
<1>3. Proper(t, x) <=> x \in members
  BY <1>1 DEF Proper
<1> QED BY <1>2, <1>3 DEF t

-----------------------------------------------------------------------------
(* What goes from a request into its answer. *)

\* The parts of a request that the answer is made of.
LEMMA RequestParts ==
  ASSUME NEW r, AllSound("held", OptimizeRequest, r)
  PROVE  /\ AllSound("held", DetectionState, r.detection_state)
         /\ r.request_id \notin Marks \cup {""}
         /\ r.server_time \in Instants
         /\ AllSound("held", Graph, r.graph) /\ AllSound("held", Observations, r.observations)
         /\ AllSound("held", List(Event), r.events)
<1>1. \A f \in DOMAIN OptimizeRequest.fields : HeldField(OptimizeRequest.fields[f], r[f])
  <2>1. OptimizeRequest.is = "message"
    BY DEF OptimizeRequest, Message
  <2> QED BY <2>1, OptimizeRequestIsType, HeldMessage
<1>2. /\ HeldField(Must(DetectionState), r.detection_state)
      /\ HeldField(Must(Name), r.request_id) /\ HeldField(Must(Time), r.server_time)
      /\ HeldField(Must(Graph), r.graph) /\ HeldField(Must(Observations), r.observations)
      /\ HeldField(All(Event), r.events)
  BY <1>1 DEF OptimizeRequest, Message
<1> QED BY <1>2, HeldFields, HeldLeaf

LEMMA GraphParts ==
  ASSUME NEW g, AllSound("held", Graph, g)
  PROVE  /\ IsList(g.edges) /\ \A i \in DOMAIN g.edges : g.edges[i].edge_id \notin Marks \cup {""}
         /\ IsList(g.nodes) /\ \A i \in DOMAIN g.nodes : g.nodes[i].node_id \notin Marks \cup {""}
<1>1. \A f \in DOMAIN Graph.fields : HeldField(Graph.fields[f], g[f])
  <2>1. Graph.is = "message" /\ IsType(Graph, 4, "any")
    BY GraphIsType, WiderType DEF Graph, Message
  <2> QED BY <2>1, HeldMessage
<1>2. HeldField(All(Node), g.nodes) /\ HeldField(All(Edge), g.edges)
  BY <1>1 DEF Graph, Message
<1>3. AllSound("held", List(Node), g.nodes) /\ AllSound("held", List(Edge), g.edges)
  BY <1>2, HeldFields
<1>4. /\ IsType(Node, 2, "any") /\ IsType(Edge, 2, "any")
      /\ IsType(List(Node), 3, "any") /\ IsType(List(Edge), 3, "any")
  <2>1. IsType(Node, 2, "any") /\ IsType(Edge, 2, "any")
    BY NodeIsType, EdgeIsType, WiderType
  <2> QED BY <2>1, ListType
<1>5. ASSUME NEW e, AllSound("held", Edge, e) PROVE e.edge_id \notin Marks \cup {""}
  <2>1. Edge.is = "message"
    BY DEF Edge, Message
  <2>2. \A f \in DOMAIN Edge.fields : HeldField(Edge.fields[f], e[f])
    BY <1>4, <1>5, <2>1, HeldMessage
  <2>3. HeldField(Must(EdgeId), e.edge_id)
    BY <2>2 DEF Edge, Message
  <2> QED BY <2>3, HeldFields, HeldLeaf
<1>6. ASSUME NEW e, AllSound("held", Node, e) PROVE e.node_id \notin Marks \cup {""}
  <2>1. Node.is = "message"
    BY DEF Node, Message
  <2>2. \A f \in DOMAIN Node.fields : HeldField(Node.fields[f], e[f])
    BY <1>4, <1>6, <2>1, HeldMessage
  <2>3. HeldField(Must(NodeId), e.node_id)
    BY <2>2 DEF Node, Message
  <2> QED BY <2>3, HeldFields, HeldLeaf
<1>7. /\ IsList(g.edges) /\ \A i \in DOMAIN g.edges : AllSound("held", Edge, g.edges[i])
      /\ IsList(g.nodes) /\ \A i \in DOMAIN g.nodes : AllSound("held", Node, g.nodes[i])
  BY <1>3, <1>4, ItemIsSound
<1> QED BY <1>5, <1>6, <1>7

LEMMA SnapshotIsText ==
  ASSUME NEW o, AllSound("held", Observations, o)
  PROVE  HeldField(May(Text), o.snapshot_ref)
<1>1. Observations.is = "message"
  BY DEF Observations, Message
<1>2. \A f \in DOMAIN Observations.fields : HeldField(Observations.fields[f], o[f])
  BY <1>1, ObservationsIsType, HeldMessage
<1> QED BY <1>2 DEF Observations, Message

LEMMA EventTargets ==
  ASSUME NEW list, AllSound("held", List(Event), list)
  PROVE  IsList(list) /\ \A i \in DOMAIN list : list[i].target_id \notin Marks \cup {""}
<1>1. IsType(Event, 4, "any") /\ IsType(List(Event), 5, "any")
  <2>1. IsType(Event, 4, "any")
    BY EventIsType, WiderType
  <2> QED BY <2>1, ListType
<1>2. IsList(list) /\ \A i \in DOMAIN list : AllSound("held", Event, list[i])
  BY <1>1, ItemIsSound
<1>3. ASSUME NEW i \in DOMAIN list PROVE list[i].target_id \notin Marks \cup {""}
  <2>1. Event.is = "message"
    BY DEF Event, Message
  <2>2. \A f \in DOMAIN Event.fields : HeldField(Event.fields[f], list[i][f])
    BY <1>1, <1>2, <2>1, HeldMessage
  <2>3. HeldField(Plain(Id("target")), list[i].target_id)
    BY <2>2 DEF Event, Message
  <2> QED BY <2>3, HeldFields, HeldLeaf
<1> QED BY <1>2, <1>3

-----------------------------------------------------------------------------
(* Lists. *)

LEMMA ListIsSeq ==
  ASSUME NEW s, IsList(s), NEW S, \A i \in DOMAIN s : s[i] \in S
  PROVE  s \in Seq(S) /\ DOMAIN s = 1 .. Len(s)
<1>1. Len(s) \in Nat /\ s = [i \in 1 .. Len(s) |-> s[i]]
  BY DEF IsList
<1>2. DOMAIN s = 1 .. Len(s)
  BY <1>1
<1>3. s \in [1 .. Len(s) -> S]
  BY <1>1, <1>2
<1> QED BY <1>1, <1>2, <1>3

LEMMA SeqIsList ==
  ASSUME NEW S, NEW s \in Seq(S)
  PROVE  IsList(s) /\ \A i \in DOMAIN s : s[i] \in S
BY DEF IsList

LEMMA JoinedLists ==
  ASSUME NEW s, NEW t, IsList(s), IsList(t), NEW S,
         \A i \in DOMAIN s : s[i] \in S, \A i \in DOMAIN t : t[i] \in S
  PROVE  IsList(s \o t) /\ \A i \in DOMAIN (s \o t) : (s \o t)[i] \in S
<1>1. s \in Seq(S) /\ t \in Seq(S)
  BY ListIsSeq
<1>2. s \o t \in Seq(S)
  BY <1>1
<1> QED BY <1>2, SeqIsList

LEMMA MappedList ==
  ASSUME NEW s, IsList(s), NEW t, t = [i \in DOMAIN s |-> t[i]]
  PROVE  IsList(t) /\ DOMAIN t = DOMAIN s
<1>1. DOMAIN t = DOMAIN s
  BY Zenon
<1> QED BY <1>1, ListOf

-----------------------------------------------------------------------------
(* What can be written, field by field. *)

WritableField(field, x) ==
  IF field.lack = "none" THEN \A i \in DOMAIN x : Writable(field.type, x[i])
  ELSE Writable(field.type, x)

LEMMA WritableMessage ==
  ASSUME NEW n, NEW t, IsType(t, n, "any"), t.is = "message", NEW v,
         \A f \in DOMAIN t.fields : WritableField(t.fields[f], v[f])
  PROVE  Writable(t, v)
<1>1. \A f \in DOMAIN t.fields : \A x \in InField("held", t.fields[f], f, v) :
        Writable(t.fields[f].type, x)
  BY DEF InField, Items, WritableField
<1> QED BY <1>1, MessageIsWritable

LEMMA WritableFields ==
  ASSUME NEW n \in Nat, NEW t, IsType(t, n, "strict"), NEW x
  PROVE  /\ HeldField(Must(t), x) => WritableField(Must(t), x)
         /\ HeldField(Plain(t), x) => WritableField(Plain(t), x)
         /\ HeldField(May(t), x) => WritableField(May(t), x)
         /\ HeldField(All(t), x) => WritableField(All(t), x)
<1>1. IsType(List(t), n + 1, "strict")
  BY ListType
<1> QED BY <1>1, StrictIsWritable DEF HeldField, WritableField, Must, Plain, May, All

-----------------------------------------------------------------------------
(* The memory. *)

\* What no reading noticed, and no writing lets pass.
Nameless(t) == <<"">> \in {t.origin_edge_id, t.origin_node_id}

\* Every target of a coherent request names an edge or a node.
AreTargets(warmups) == \A w \in Items(warmups) : IsTarget(w.target_key)

\* The memory, field by field.
LEMMA StateParts ==
  ASSUME NEW s
  PROVE  AllSound("held", DetectionState, s) <=>
           /\ s = [f \in DOMAIN DetectionState.fields |-> s[f]]
           /\ HeldField(May(Time), s.cooldown_until)
           /\ AllSound("held", List(QueuedTrigger), s.trigger_queue)
           /\ AllSound("held", List(ArcWatchState), s.arc_watch_states)
           /\ AllSound("held", List(WarmupState), s.warmup_states)
           /\ AllSound("held", List(RetriggerEntry), s.arc_retrigger_counts)
           /\ AllSound("held", Text, s.consecutive_skip_count)
<1> DEFINE fields == [cooldown_until |-> May(Time), trigger_queue |-> All(QueuedTrigger),
             arc_watch_states |-> All(ArcWatchState), warmup_states |-> All(WarmupState),
             arc_retrigger_counts |-> All(RetriggerEntry), consecutive_skip_count |-> Plain(Text)]
<1>1. DetectionState.is = "message" /\ DetectionState.fields = fields
  BY DEF DetectionState, Message
<1>2. AllSound("held", DetectionState, s) <=>
        /\ s = [f \in DOMAIN DetectionState.fields |-> s[f]]
        /\ \A f \in DOMAIN DetectionState.fields : HeldField(DetectionState.fields[f], s[f])
  BY <1>1, DetectionStateIsType, HeldMessage
<1>3. (\A f \in DOMAIN fields : HeldField(fields[f], s[f])) <=>
        /\ HeldField(May(Time), s.cooldown_until)
        /\ HeldField(All(QueuedTrigger), s.trigger_queue)
        /\ HeldField(All(ArcWatchState), s.arc_watch_states)
        /\ HeldField(All(WarmupState), s.warmup_states)
        /\ HeldField(All(RetriggerEntry), s.arc_retrigger_counts)
        /\ HeldField(Plain(Text), s.consecutive_skip_count)
  OBVIOUS
<1>4. /\ HeldField(All(QueuedTrigger), s.trigger_queue)
           <=> AllSound("held", List(QueuedTrigger), s.trigger_queue)
      /\ HeldField(All(ArcWatchState), s.arc_watch_states)
           <=> AllSound("held", List(ArcWatchState), s.arc_watch_states)
      /\ HeldField(All(WarmupState), s.warmup_states)
           <=> AllSound("held", List(WarmupState), s.warmup_states)
      /\ HeldField(All(RetriggerEntry), s.arc_retrigger_counts)
           <=> AllSound("held", List(RetriggerEntry), s.arc_retrigger_counts)
      /\ HeldField(Plain(Text), s.consecutive_skip_count)
           <=> AllSound("held", Text, s.consecutive_skip_count)
  BY HeldFields
<1> HIDE DEF fields
<1> QED BY <1>1, <1>2, <1>3, <1>4

-----------------------------------------------------------------------------
(* Sets made into lists. *)

LEMMA ListOfSet ==
  ASSUME NEW S, IsFiniteSet(S)
  PROVE  IsList(SetToSeq(S)) /\ \A i \in DOMAIN SetToSeq(S) : SetToSeq(S)[i] \in S
<1> DEFINE n == Cardinality(S)
<1>1. n \in Nat /\ ExistsBijection(1 .. n, S)
  BY FS_CardinalityType
<1>2. \E f \in [1 .. n -> S] : IsInjective(f)
  BY <1>1 DEF ExistsBijection, Bijection, Injection
<1>3. SetToSeq(S) \in [1 .. n -> S]
  BY <1>2 DEF SetToSeq
<1> HIDE DEF n
<1>4. SetToSeq(S) \in Seq(S)
  BY <1>1, <1>3
<1> QED BY <1>4, SeqIsList

LEMMA ImageIsFinite ==
  ASSUME NEW S, IsFiniteSet(S), NEW f
  PROVE  IsFiniteSet({f[x] : x \in S})
<1> DEFINE T == {f[x] : x \in S}
           g == [x \in S |-> f[x]]
<1>1. g \in Surjection(S, T)
  BY DEF Surjection
<1> HIDE DEF g, T
<1>2. IsFiniteSet(T)
  BY <1>1, FS_Surjection
<1> QED BY <1>2 DEF T

LEMMA ItemsAreFinite ==
  ASSUME NEW s, IsList(s)
  PROVE  IsFiniteSet(Items(s)) /\ \A x \in Items(s) : \E i \in DOMAIN s : x = s[i]
<1>1. Len(s) \in Nat /\ DOMAIN s = 1 .. Len(s)
  BY DEF IsList
<1>2. IsFiniteSet(DOMAIN s)
  BY <1>1, FS_Interval
<1> QED BY <1>2, ImageIsFinite DEF Items

\* What a search through a list finds is in the list.
LEMMA FoundInList ==
  ASSUME NEW list, IsList(list), NEW places \in SUBSET DOMAIN list, NEW key
  PROVE  /\ LastOf(list, places, key) \subseteq Items(list)
         /\ FirstOf(list, places, key) \subseteq Items(list)
         /\ IsFiniteSet(LastOf(list, places, key))
<1>1. /\ LastOf(list, places, key) \subseteq Items(list)
      /\ FirstOf(list, places, key) \subseteq Items(list)
  BY DEF LastOf, FirstOf, Items
<1> QED BY <1>1, ItemsAreFinite, FS_Subset

-----------------------------------------------------------------------------
(* What a cycle remembers. A score can overflow and a count can outgrow its   *)
(* bits; but for these, what is remembered is sound.                          *)

\* A request that was accepted, and what the later steps may find in it.
Accepted(r) == AllSound("held", OptimizeRequest, r) /\ Coherent(r)

FoundIsSound(found) ==
  /\ IsFiniteSet(found.fired) /\ IsFiniteSet(found.watched)
  /\ \A f \in found.fired : f.kind \in {"HIGH_STAGNATION", "PUNCTURE"} /\ f.score \notin Marks \ {"NaN"}
  /\ \A w \in found.watched : AllSound("held", ArcWatchState, w)

TriggerFields == {"kind", "first_fired_at", "last_fired_at", "accumulated_score", "origin_edge_id",
                  "origin_node_id", "snapshot_ref"}

NearTrigger(t) ==
  /\ t = [f \in TriggerFields |-> t[f]]
  /\ t.kind \in QueuedTriggerKind.members
  /\ t.first_fired_at \in Instants /\ t.last_fired_at \in Instants
  /\ t.accumulated_score \notin Marks \ {"NaN"}
  /\ HeldField(May(Reference("edge")), t.origin_edge_id)
  /\ HeldField(May(Reference("node")), t.origin_node_id)
  /\ HeldField(May(Text), t.snapshot_ref)

CountFields == {"edge_id", "count", "quiet_cycles", "last_fired_at"}

NearCount(c) ==
  /\ c = [f \in CountFields |-> c[f]]
  /\ c.edge_id \notin Marks \cup {""} /\ c.count \notin Marks \ {"over"}
  /\ c.quiet_cycles \notin Marks /\ HeldField(May(Time), c.last_fired_at)

NamelessBefore(r) == \E t \in Items(r.detection_state.trigger_queue) : Nameless(t)
MaxBefore(r) == \E c \in Items(r.detection_state.arc_retrigger_counts) : c.count = "max"

NearQueue(q, r) ==
  IsList(q) /\ \A i \in DOMAIN q : NearTrigger(q[i]) /\ (Nameless(q[i]) => NamelessBefore(r))

NearCounts(c) == IsList(c) /\ \A i \in DOMAIN c : NearCount(c[i])

Overflown(q) == \E t \in Items(q) : t.accumulated_score = "NaN"
Outgrown(c)  == \E x \in Items(c) : x.count = "over"

StateFields == {"cooldown_until", "trigger_queue", "arc_watch_states", "warmup_states",
                "arc_retrigger_counts", "consecutive_skip_count"}

NearMemory(m, r) ==
  /\ m = [f \in StateFields |-> m[f]]
  /\ HeldField(May(Time), m.cooldown_until)
  /\ NearQueue(m.trigger_queue, r)
  /\ AllSound("held", List(ArcWatchState), m.arc_watch_states)
  /\ AllSound("held", List(WarmupState), m.warmup_states) /\ AreTargets(m.warmup_states)
  /\ NearCounts(m.arc_retrigger_counts)
  /\ m.consecutive_skip_count \notin Marks

\* What a cycle is about: edges or nodes of the graph, or of the queue.
AreOrigins(ids, r) ==
  IsFiniteSet(ids) /\ \A id \in ids : id \notin Marks /\ (id = "" => NamelessBefore(r))

LEMMA TriggerParts ==
  ASSUME NEW t
  PROVE  AllSound("held", QueuedTrigger, t) <=> NearTrigger(t) /\ t.accumulated_score # "NaN"
<1> DEFINE fields == [kind |-> Plain(QueuedTriggerKind), first_fired_at |-> Must(Time),
             last_fired_at |-> Must(Time), accumulated_score |-> Plain(Number),
             origin_edge_id |-> May(Reference("edge")), origin_node_id |-> May(Reference("node")),
             snapshot_ref |-> May(Text)]
<1>1. /\ QueuedTrigger.is = "message" /\ QueuedTrigger.fields = fields
      /\ DOMAIN QueuedTrigger.fields = TriggerFields
  BY DEF QueuedTrigger, Message, TriggerFields
<1>2. AllSound("held", QueuedTrigger, t) <=>
        /\ t = [f \in TriggerFields |-> t[f]]
        /\ \A f \in TriggerFields : HeldField(QueuedTrigger.fields[f], t[f])
  BY <1>1, QueuedTriggerIsType, HeldMessage
<1>3. (\A f \in TriggerFields : HeldField(fields[f], t[f])) <=>
        /\ HeldField(Plain(QueuedTriggerKind), t.kind) /\ HeldField(Must(Time), t.first_fired_at)
        /\ HeldField(Must(Time), t.last_fired_at) /\ HeldField(Plain(Number), t.accumulated_score)
        /\ HeldField(May(Reference("edge")), t.origin_edge_id)
        /\ HeldField(May(Reference("node")), t.origin_node_id)
        /\ HeldField(May(Text), t.snapshot_ref)
  BY DEF TriggerFields
<1>4. /\ HeldField(Must(Time), t.first_fired_at) <=> t.first_fired_at \in Instants
      /\ HeldField(Must(Time), t.last_fired_at) <=> t.last_fired_at \in Instants
      /\ HeldField(Plain(Number), t.accumulated_score) <=> t.accumulated_score \notin Marks
  BY HeldFields, HeldLeaf
<1>5. HeldField(Plain(QueuedTriggerKind), t.kind) <=> t.kind \in QueuedTriggerKind.members
  <2>1. QueuedTriggerKind.members \cap Marks = {}
        /\ QueuedTriggerKind = Enum(QueuedTriggerKind.members)
    BY DEF QueuedTriggerKind, Enum, Marks
  <2>2. AllSound("held", QueuedTriggerKind, t.kind) <=> t.kind \in QueuedTriggerKind.members
    BY <2>1, HeldMember
  <2> QED BY <2>2, HeldFields
<1>6. "NaN" \in Marks
  BY DEF Marks
<1> HIDE DEF fields
<1> QED BY <1>1, <1>2, <1>3, <1>4, <1>5, <1>6 DEF NearTrigger

LEMMA CountParts ==
  ASSUME NEW c
  PROVE  AllSound("held", RetriggerEntry, c) <=> NearCount(c) /\ c.count # "over"
<1> DEFINE fields == [edge_id |-> Plain(EdgeId), count |-> Plain(Count),
                      quiet_cycles |-> Plain(Text), last_fired_at |-> May(Time)]
<1>1. /\ RetriggerEntry.is = "message" /\ RetriggerEntry.fields = fields
      /\ DOMAIN RetriggerEntry.fields = CountFields
  BY DEF RetriggerEntry, Message, CountFields
<1>2. IsType(RetriggerEntry, 1, "any")
  BY RetriggerEntryIsType, WiderType
<1>3. AllSound("held", RetriggerEntry, c) <=>
        /\ c = [f \in CountFields |-> c[f]]
        /\ \A f \in CountFields : HeldField(RetriggerEntry.fields[f], c[f])
  BY <1>1, <1>2, HeldMessage
<1>4. (\A f \in CountFields : HeldField(fields[f], c[f])) <=>
        /\ HeldField(Plain(EdgeId), c.edge_id) /\ HeldField(Plain(Count), c.count)
        /\ HeldField(Plain(Text), c.quiet_cycles) /\ HeldField(May(Time), c.last_fired_at)
  BY DEF CountFields
<1>5. /\ HeldField(Plain(EdgeId), c.edge_id) <=> c.edge_id \notin Marks \cup {""}
      /\ HeldField(Plain(Count), c.count) <=> c.count \notin Marks
      /\ HeldField(Plain(Text), c.quiet_cycles) <=> c.quiet_cycles \notin Marks
  BY HeldFields, HeldLeaf
<1>6. "over" \in Marks
  BY DEF Marks
<1> HIDE DEF fields
<1> QED BY <1>1, <1>3, <1>4, <1>5, <1>6 DEF NearCount

\* A memory in which nothing has overflown or outgrown its bits is sound.
LEMMA NearIsSound ==
  ASSUME NEW r, NEW m, NearMemory(m, r), ~Overflown(m.trigger_queue), ~Outgrown(m.arc_retrigger_counts)
  PROVE  AllSound("held", DetectionState, m)
<1>1. IsType(List(QueuedTrigger), 2, "any") /\ IsType(List(RetriggerEntry), 2, "any")
  <2>1. IsType(RetriggerEntry, 1, "any")
    BY RetriggerEntryIsType, WiderType
  <2> QED BY <2>1, QueuedTriggerIsType, ListType
<1>2. AllSound("held", List(QueuedTrigger), m.trigger_queue)
  <2>1. \A i \in DOMAIN m.trigger_queue : AllSound("held", QueuedTrigger, m.trigger_queue[i])
    BY TriggerParts DEF NearMemory, NearQueue, Overflown, Items
  <2> QED BY <1>1, <2>1, ListIsSound DEF NearMemory, NearQueue
<1>3. AllSound("held", List(RetriggerEntry), m.arc_retrigger_counts)
  <2>1. \A i \in DOMAIN m.arc_retrigger_counts :
          AllSound("held", RetriggerEntry, m.arc_retrigger_counts[i])
    BY CountParts DEF NearMemory, NearCounts, Outgrown, Items
  <2> QED BY <1>1, <2>1, ListIsSound DEF NearMemory, NearCounts
<1>4. AllSound("held", Text, m.consecutive_skip_count)
  BY HeldLeaf DEF NearMemory
<1>5. DOMAIN DetectionState.fields = StateFields
  BY DEF DetectionState, Message, StateFields
<1> QED BY <1>2, <1>3, <1>4, <1>5, StateParts DEF NearMemory

\* The memory of a request.
LEMMA MemoryBefore ==
  ASSUME NEW r, Accepted(r)
  PROVE  LET s == r.detection_state
         IN  /\ NearMemory(s, r)
             /\ ~Overflown(s.trigger_queue) /\ ~Outgrown(s.arc_retrigger_counts)
<1> DEFINE s == r.detection_state
<1>1. AllSound("held", DetectionState, s) /\ AreTargets(s.warmup_states)
  BY RequestParts DEF Accepted, Coherent, AreTargets
<1>2. IsType(List(QueuedTrigger), 2, "any") /\ IsType(List(RetriggerEntry), 2, "any")
  <2>1. IsType(RetriggerEntry, 1, "any")
    BY RetriggerEntryIsType, WiderType
  <2> QED BY <2>1, QueuedTriggerIsType, ListType
<1>3. DOMAIN DetectionState.fields = StateFields
  BY DEF DetectionState, Message, StateFields
<1> HIDE DEF s
<1>4. /\ s = [f \in StateFields |-> s[f]]
      /\ HeldField(May(Time), s.cooldown_until)
      /\ AllSound("held", List(QueuedTrigger), s.trigger_queue)
      /\ AllSound("held", List(ArcWatchState), s.arc_watch_states)
      /\ AllSound("held", List(WarmupState), s.warmup_states)
      /\ AllSound("held", List(RetriggerEntry), s.arc_retrigger_counts)
      /\ s.consecutive_skip_count \notin Marks
  BY <1>1, <1>3, StateParts, HeldLeaf
<1>5. /\ IsList(s.trigger_queue)
      /\ \A i \in DOMAIN s.trigger_queue :
           NearTrigger(s.trigger_queue[i]) /\ s.trigger_queue[i].accumulated_score # "NaN"
  BY <1>2, <1>4, ItemIsSound, TriggerParts
<1>6. /\ IsList(s.arc_retrigger_counts)
      /\ \A i \in DOMAIN s.arc_retrigger_counts :
           NearCount(s.arc_retrigger_counts[i]) /\ s.arc_retrigger_counts[i].count # "over"
  BY <1>2, <1>4, ItemIsSound, CountParts
<1>7. NearQueue(s.trigger_queue, r)
  BY <1>5 DEF NearQueue, NamelessBefore, Items, s
<1>8. ~Overflown(s.trigger_queue) /\ ~Outgrown(s.arc_retrigger_counts)
  BY <1>5, <1>6 DEF Overflown, Outgrown, Items
<1> QED BY <1>1, <1>4, <1>6, <1>7, <1>8 DEF NearMemory, NearCounts, s

\* A memory with one of its fields changed.
LEMMA NearWith ==
  ASSUME NEW r, NEW m, NearMemory(m, r), NEW g \in StateFields, NEW x, NEW n, n = [m EXCEPT ![g] = x],
         g = "cooldown_until" => HeldField(May(Time), x),
         g = "trigger_queue" => NearQueue(x, r),
         g = "arc_watch_states" => AllSound("held", List(ArcWatchState), x),
         g = "warmup_states" => AllSound("held", List(WarmupState), x) /\ AreTargets(x),
         g = "arc_retrigger_counts" => NearCounts(x),
         g = "consecutive_skip_count" => x \notin Marks
  PROVE  NearMemory(n, r) /\ n[g] = x /\ \A f \in StateFields : f # g => n[f] = m[f]
<1>1. m = [f \in StateFields |-> m[f]]
  BY DEF NearMemory
<1>2. DOMAIN m = StateFields
  <2> DEFINE k == [f \in StateFields |-> m[f]]
  <2>1. DOMAIN k = StateFields
    OBVIOUS
  <2> HIDE DEF k
  <2>2. m = k
    BY <1>1 DEF k
  <2> QED BY <2>1, <2>2
<1>3. n = [f \in StateFields |-> IF f = g THEN x ELSE m[f]]
  BY <1>2
<1>4. \A f \in StateFields : n[f] = IF f = g THEN x ELSE m[f]
  BY <1>3
<1>5. n = [f \in StateFields |-> n[f]]
  BY <1>3, <1>4
<1>6. n[g] = x /\ \A f \in StateFields : f # g => n[f] = m[f]
  BY <1>4
<1>7. /\ n.cooldown_until = IF g = "cooldown_until" THEN x ELSE m.cooldown_until
      /\ n.trigger_queue = IF g = "trigger_queue" THEN x ELSE m.trigger_queue
      /\ n.arc_watch_states = IF g = "arc_watch_states" THEN x ELSE m.arc_watch_states
      /\ n.warmup_states = IF g = "warmup_states" THEN x ELSE m.warmup_states
      /\ n.arc_retrigger_counts = IF g = "arc_retrigger_counts" THEN x ELSE m.arc_retrigger_counts
      /\ n.consecutive_skip_count = IF g = "consecutive_skip_count" THEN x ELSE m.consecutive_skip_count
  BY <1>4 DEF StateFields
<1>8. NearMemory(n, r)
  BY <1>5, <1>7 DEF NearMemory
<1> QED BY <1>6, <1>8

\* What a request names.
LEMMA EventsOf ==
  ASSUME NEW r, Accepted(r)
  PROVE  /\ IsList(r.events) /\ IsFiniteSet(Items(r.events))
         /\ \A e \in Items(r.events) : e.target_id \notin Marks \cup {""} /\ IsTarget(e.target_id)
         /\ r.server_time \in Instants /\ HeldField(May(Text), r.observations.snapshot_ref)
         /\ HeldField(May(Time), <<r.server_time>>)
<1>1. /\ AllSound("held", List(Event), r.events) /\ r.server_time \in Instants
      /\ AllSound("held", Observations, r.observations)
  BY RequestParts DEF Accepted
<1>2. IsList(r.events) /\ \A i \in DOMAIN r.events : r.events[i].target_id \notin Marks \cup {""}
  BY <1>1, EventTargets
<1>3. \A e \in Items(r.events) : IsTarget(e.target_id)
  BY DEF Accepted, Coherent
<1>4. HeldField(May(Time), <<r.server_time>>)
  <2>1. AllSound("held", Time, r.server_time)
    BY <1>1, HeldLeaf
  <2>2. \A i \in DOMAIN <<r.server_time>> : <<r.server_time>>[i] = r.server_time
    OBVIOUS
  <2> QED BY <2>1, <2>2, HeldFields
<1> QED BY <1>1, <1>2, <1>3, <1>4, ItemsAreFinite, SnapshotIsText

\* The edges and nodes of the graph, and those the flags are about.
LEMMA GraphIds ==
  ASSUME NEW r, Accepted(r)
  PROVE  /\ \A e \in Items(r.graph.edges) : e.edge_id \notin Marks \cup {""}
         /\ \A n \in Items(r.graph.nodes) : n.node_id \notin Marks \cup {""}
         /\ \A e \in OpenEdges(r) : e \notin Marks \cup {""}
         /\ AreOrigins(EdgesIn(Flagged(r)), r) /\ AreOrigins(NodesIn(Flagged(r)), r)
<1>1. AllSound("held", Graph, r.graph)
  BY RequestParts DEF Accepted
<1>2. /\ \A e \in Items(r.graph.edges) : e.edge_id \notin Marks \cup {""}
      /\ \A n \in Items(r.graph.nodes) : n.node_id \notin Marks \cup {""}
  BY <1>1, GraphParts DEF Items
<1>3. \A e \in OpenEdges(r) : e \notin Marks \cup {""}
  BY <1>2 DEF OpenEdges
<1> DEFINE up    == {x \in Items(r.events) : x.kind \in {"DANGER_FLAG_UP"}}
           flags == Flagged(r)
<1>4. IsFiniteSet(flags)
  <2>1. IsFiniteSet(Items(r.events)) /\ up \in SUBSET Items(r.events)
    BY EventsOf
  <2>2. IsFiniteSet(up)
    <3> HIDE DEF up
    <3> QED BY <2>1, FS_Subset
  <2> DEFINE f == [e \in up |-> e.target_id]
  <2>3. flags = {f[e] : e \in up}
    BY DEF Flagged, About
  <2> HIDE DEF f, up
  <2> QED BY <2>2, <2>3, ImageIsFinite
<1>5. ASSUME NEW k \in flags
      PROVE  /\ Kind(k) = "edge:" => Subject(k) \in {e.edge_id : e \in Items(r.graph.edges)}
             /\ Kind(k) = "node:" => Subject(k) \in {n.node_id : n \in Items(r.graph.nodes)}
  <2>1. PICK e \in Items(r.events) : e.kind = "DANGER_FLAG_UP" /\ k = e.target_id
    BY DEF Flagged, About
  <2> QED BY <2>1 DEF Accepted, Coherent
<1> HIDE DEF flags
<1>6. ASSUME NEW prefix
      PROVE  IsFiniteSet({Subject(k) : k \in {x \in flags : Kind(x) = prefix}})
  <2> DEFINE some == {x \in flags : Kind(x) = prefix}
             f    == [k \in some |-> Subject(k)]
  <2>1. IsFiniteSet(some)
    BY <1>4, FS_Subset
  <2>2. {Subject(k) : k \in some} = {f[k] : k \in some}
    OBVIOUS
  <2> HIDE DEF some, f
  <2>3. IsFiniteSet({f[k] : k \in some})
    BY <2>1, ImageIsFinite
  <2> QED BY <2>2, <2>3 DEF some
<1>7. AreOrigins(EdgesIn(flags), r)
  <2>1. \A id \in EdgesIn(flags) : id \notin Marks \cup {""}
    BY <1>2, <1>5 DEF EdgesIn
  <2> QED BY <1>6, <2>1 DEF AreOrigins, EdgesIn
<1>8. AreOrigins(NodesIn(flags), r)
  <2>1. \A id \in NodesIn(flags) : id \notin Marks \cup {""}
    BY <1>2, <1>5 DEF NodesIn
  <2> QED BY <1>6, <2>1 DEF AreOrigins, NodesIn
<1> QED BY <1>2, <1>3, <1>7, <1>8 DEF flags

\* Warm-ups are of targets.
LEMMA WarmupsAreSound ==
  ASSUME NEW r, Accepted(r)
  PROVE  AllSound("held", List(WarmupState), Warmups(r)) /\ AreTargets(Warmups(r))
<1> DEFINE list    == r.detection_state.warmup_states
           kinds   == StartsWarmup \cup {"DISABLE"}
           places  == {i \in DOMAIN r.events : r.events[i].kind \in kinds}
           old     == LastOf(list, DOMAIN list, "target_key")
           last    == LastOf(r.events, places, "target_id")
           until   == Later(r.server_time, r.config.warmup_duration_min)
           started == {x \in last : x.kind \in StartsWarmup}
           Warm(e) == [target_key |-> e.target_id, until |-> until]
           begun   == {Warm(e) : e \in started}
           entries == {w \in old : \A e \in last : e.target_id # w.target_key} \cup begun
           Good(w) == AllSound("held", WarmupState, w) /\ IsTarget(w.target_key)
<1>1. IsType(List(WarmupState), 2, "any") /\ IsType(WarmupState, 1, "any")
  <2>1. IsType(WarmupState, 1, "any")
    BY WarmupStateIsType, WiderType
  <2> QED BY <2>1, ListType
<1>2. AllSound("held", List(WarmupState), list) /\ AreTargets(list)
  BY MemoryBefore DEF NearMemory
<1>3. IsList(list) /\ \A w \in Items(list) : Good(w)
  BY <1>1, <1>2, ItemIsSound DEF AreTargets, Items
<1>4. old \subseteq Items(list) /\ IsFiniteSet(old)
  <2> HIDE DEF list
  <2> QED BY <1>3, FoundInList
<1>5. last \subseteq Items(r.events) /\ IsFiniteSet(last)
  BY EventsOf, FoundInList
<1>6. until \in Instants
  BY EventsOf DEF Later, Instants
<1> HIDE DEF list, old, last, until
<1>7. ASSUME NEW e \in started PROVE Good(Warm(e))
  <2>1. e.target_id \notin Marks \cup {""} /\ IsTarget(e.target_id)
    BY <1>5, EventsOf
  <2>2. WarmupState.is = "message"
    BY DEF WarmupState, Message
  <2>3. HeldField(Plain(Atom("target", {}, {})), e.target_id) /\ HeldField(Must(Time), until)
    BY <1>6, <2>1, HeldFields, HeldLeaf
  <2> DEFINE v == Warm(e)
  <2>4. v = [f \in DOMAIN WarmupState.fields |-> v[f]]
    BY DEF WarmupState, Message
  <2>5. \A f \in DOMAIN WarmupState.fields : HeldField(WarmupState.fields[f], v[f])
    BY <2>3 DEF WarmupState, Message
  <2>6. v.target_key = e.target_id
    OBVIOUS
  <2>7. AllSound("held", WarmupState, v)
    <3> HIDE DEF v
    <3> QED BY <1>1, <2>2, <2>4, <2>5, HeldMessage
  <2> QED BY <2>1, <2>6, <2>7
<1>8. IsFiniteSet(begun)
  <2>1. IsFiniteSet(started)
    BY <1>5, FS_Subset
  <2> DEFINE f == [e \in started |-> Warm(e)]
  <2>2. begun = {f[e] : e \in started}
    OBVIOUS
  <2> HIDE DEF f, begun, started, Warm
  <2> QED BY <2>1, <2>2, ImageIsFinite
<1>9. IsFiniteSet(entries) /\ \A w \in entries : Good(w)
  <2>1. \A w \in begun : Good(w)
    BY <1>7
  <2>2. IsFiniteSet({w \in old : \A e \in last : e.target_id # w.target_key})
    BY <1>4, FS_Subset
  <2>3. IsFiniteSet(entries)
    <3> HIDE DEF begun
    <3> QED BY <1>8, <2>2, FS_Union
  <2> HIDE DEF begun, Good
  <2> QED BY <1>3, <1>4, <2>1, <2>3
<1>10. Warmups(r) = list \/ Warmups(r) = SetToSeq(entries)
  BY DEF Warmups, list, old, last, until
<1> HIDE DEF entries
<1>11. IsList(Warmups(r)) /\ \A i \in DOMAIN Warmups(r) : Good(Warmups(r)[i])
  <2>1. /\ IsList(SetToSeq(entries))
        /\ \A i \in DOMAIN SetToSeq(entries) : SetToSeq(entries)[i] \in entries
    BY <1>9, ListOfSet
  <2>2. \A i \in DOMAIN list : Good(list[i])
    BY <1>3 DEF Items
  <2> HIDE DEF Good
  <2> QED BY <1>3, <1>9, <1>10, <2>1, <2>2
<1> QED BY <1>1, <1>11, ListIsSound DEF AreTargets, Items

LEMMA ZeroedIsNear ==
  ASSUME NEW c, NearCount(c)
  PROVE  NearCount(ZeroCount(c)) /\ ZeroCount(c).count = "0"
<1>1. "0" \notin Marks
  BY DEF Marks
<1> QED BY <1>1 DEF NearCount, ZeroCount, CountFields

LEMMA FlagsDownAreNear ==
  ASSUME NEW r, Accepted(r)
  PROVE  /\ NearCounts(FlagsDown(r)) /\ ~Outgrown(FlagsDown(r))
         /\ \A c \in Items(FlagsDown(r)) : c.count = "max" => MaxBefore(r)
<1> DEFINE list == r.detection_state.arc_retrigger_counts
           after == FlagsDown(r)
<1>1. NearCounts(list) /\ ~Outgrown(list)
  BY MemoryBefore DEF NearMemory
<1>2. after = [i \in DOMAIN list |-> after[i]]
  BY DEF FlagsDown
<1>3. \A i \in DOMAIN list : after[i] = list[i] \/ after[i] = ZeroCount(list[i])
  BY DEF FlagsDown
<1>4. \A i \in DOMAIN list : list[i].count = "max" => MaxBefore(r)
  BY DEF MaxBefore, Items
<1> HIDE DEF list, after
<1>5. IsList(after) /\ DOMAIN after = DOMAIN list
  BY <1>1, <1>2, MappedList DEF NearCounts
<1>6. ASSUME NEW i \in DOMAIN list
      PROVE  /\ NearCount(after[i]) /\ after[i].count # "over"
             /\ after[i].count = "max" => MaxBefore(r)
  <2>1. NearCount(list[i]) /\ list[i].count # "over"
    BY <1>1 DEF NearCounts, Outgrown, Items
  <2>2. NearCount(ZeroCount(list[i])) /\ ZeroCount(list[i]).count = "0"
    BY <2>1, ZeroedIsNear
  <2> QED BY <1>3, <1>4, <2>1, <2>2
<1> QED BY <1>5, <1>6 DEF NearCounts, Outgrown, Items, after

LEMMA AfterEventsIsNear ==
  ASSUME NEW r, Accepted(r)
  PROVE  LET s == AfterEvents(r)
         IN  /\ NearMemory(s, r) /\ s.trigger_queue = r.detection_state.trigger_queue
             /\ ~Overflown(s.trigger_queue) /\ ~Outgrown(s.arc_retrigger_counts)
             /\ \A c \in Items(s.arc_retrigger_counts) : c.count = "max" => MaxBefore(r)
<1> DEFINE s == r.detection_state
           t == AfterEvents(r)
<1>1. NearMemory(s, r) /\ ~Overflown(s.trigger_queue)
  BY MemoryBefore
<1>2. /\ NearCounts(FlagsDown(r)) /\ ~Outgrown(FlagsDown(r))
      /\ \A c \in Items(FlagsDown(r)) : c.count = "max" => MaxBefore(r)
  BY FlagsDownAreNear
<1>3. AllSound("held", List(WarmupState), Warmups(r)) /\ AreTargets(Warmups(r))
  BY WarmupsAreSound
<1>4. DOMAIN s = StateFields
  <2> DEFINE k == [f \in StateFields |-> s[f]]
  <2>1. DOMAIN k = StateFields
    OBVIOUS
  <2> HIDE DEF k
  <2>2. s = k
    BY <1>1 DEF NearMemory, k
  <2> QED BY <2>1, <2>2
<1>5. /\ t = [f \in StateFields |-> t[f]]
      /\ t.warmup_states = Warmups(r) /\ t.arc_retrigger_counts = FlagsDown(r)
      /\ t.cooldown_until \in {s.cooldown_until, <<>>}
      /\ t.trigger_queue = s.trigger_queue /\ t.arc_watch_states = s.arc_watch_states
      /\ t.consecutive_skip_count = s.consecutive_skip_count
  BY <1>4 DEF AfterEvents, StateFields
<1>6. HeldField(May(Time), <<>>)
  BY HeldFields
<1> HIDE DEF s, t
<1>7. NearMemory(t, r)
  BY <1>1, <1>2, <1>3, <1>5, <1>6 DEF NearMemory
<1> QED BY <1>1, <1>2, <1>5, <1>7 DEF s, t

LEMMA AfterReadingsIsNear ==
  ASSUME NEW r, NEW s, NearMemory(s, r), NEW found, FoundIsSound(found)
  PROVE  LET t == AfterReadings(r, s, found)
         IN  /\ NearMemory(t, r) /\ t.trigger_queue = s.trigger_queue
             /\ t.arc_retrigger_counts = s.arc_retrigger_counts
<1> DEFINE kept == {w \in found.watched : w.edge_id \in Judged(r, s)}
<1>1. IsFiniteSet(kept) /\ \A w \in kept : AllSound("held", ArcWatchState, w)
  BY FS_Subset DEF FoundIsSound
<1> DEFINE list == SetToSeq(kept)
<1>3. AllSound("held", List(ArcWatchState), list)
  <2>1. IsType(List(ArcWatchState), 2, "any")
    <3>1. IsType(ArcWatchState, 1, "any")
      BY ArcWatchStateIsType, WiderType
    <3> QED BY <3>1, ListType
  <2>2. IsList(list) /\ \A i \in DOMAIN list : AllSound("held", ArcWatchState, list[i])
    <3> HIDE DEF kept
    <3> QED BY <1>1, ListOfSet
  <2> HIDE DEF list
  <2> QED BY <2>1, <2>2, ListIsSound
<1> DEFINE t == [s EXCEPT !.arc_watch_states = list]
<1>4. AfterReadings(r, s, found) = t
  BY DEF AfterReadings
<1> HIDE DEF list
<1>5. NearMemory(t, r) /\ \A f \in StateFields : f # "arc_watch_states" => t[f] = s[f]
  BY <1>3, NearWith DEF StateFields
<1> HIDE DEF t
<1> QED BY <1>4, <1>5 DEF StateFields

\* The passages whose triggers fire are on the graph.
LEMMA FiringIsSound ==
  ASSUME NEW r, Accepted(r), NEW s, NEW found, FoundIsSound(found)
  PROVE  /\ IsFiniteSet(Firing(r, s, found))
         /\ \A f \in Firing(r, s, found) : /\ f.kind \in {"HIGH_STAGNATION", "PUNCTURE"}
                                           /\ f.score \notin Marks \ {"NaN"}
                                           /\ f.edge \notin Marks \cup {""}
<1>1. IsFiniteSet(Firing(r, s, found))
  BY FS_Subset DEF Firing, FoundIsSound
<1>2. \A f \in Firing(r, s, found) : f.edge \in OpenEdges(r)
  BY DEF Firing, Judged
<1> QED BY <1>1, <1>2, GraphIds DEF Firing, FoundIsSound

LEMMA EntryIsNear ==
  ASSUME NEW r, Accepted(r), NEW kind \in QueuedTriggerKind.members, NEW edge, NEW node, NEW score,
         score \notin Marks \ {"NaN"},
         HeldField(May(Reference("edge")), edge), HeldField(May(Reference("node")), node)
  PROVE  LET t == Entry(r, kind, edge, node, score)
         IN  /\ NearTrigger(t) /\ t.accumulated_score = score
             /\ Nameless(t) <=> <<"">> \in {edge, node}
<1>1. r.server_time \in Instants /\ HeldField(May(Text), r.observations.snapshot_ref)
  BY EventsOf
<1> DEFINE t == Entry(r, kind, edge, node, score)
<1>2. /\ t = [f \in TriggerFields |-> t[f]]
      /\ t.kind = kind /\ t.first_fired_at = r.server_time /\ t.last_fired_at = r.server_time
      /\ t.accumulated_score = score /\ t.origin_edge_id = edge /\ t.origin_node_id = node
      /\ t.snapshot_ref = r.observations.snapshot_ref
  BY DEF Entry, TriggerFields
<1> HIDE DEF t
<1> QED BY <1>1, <1>2 DEF NearTrigger, Nameless, t

LEMMA OneOrigin ==
  ASSUME NEW as \in {"edge", "node"}, NEW id, id \notin Marks
  PROVE  HeldField(May(Reference(as)), <<id>>) /\ HeldField(May(Reference(as)), <<>>)
<1> DEFINE t == Reference(as)
<1>1. AllSound("held", t, id)
  BY HeldLeaf
<1> HIDE DEF t
<1>2. HeldField(May(t), <<id>>) /\ HeldField(May(t), <<>>)
  BY <1>1 DEF HeldField, May
<1> QED BY <1>2 DEF t

LEMMA EntriesAreFinite ==
  ASSUME NEW r, NEW S, IsFiniteSet(S)
  PROVE  IsFiniteSet({Entry(r, f.kind, <<f.edge>>, <<>>, f.score) : f \in S})
<1> DEFINE g == [f \in S |-> Entry(r, f.kind, <<f.edge>>, <<>>, f.score)]
<1>1. {Entry(r, f.kind, <<f.edge>>, <<>>, f.score) : f \in S} = {g[f] : f \in S}
  OBVIOUS
<1>2. IsFiniteSet({g[f] : f \in S})
  <2> HIDE DEF g
  <2> QED BY ImageIsFinite
<1> HIDE DEF g
<1> QED BY <1>1, <1>2

LEMMA MergedIsNear ==
  ASSUME NEW r, Accepted(r), NEW queue, NearQueue(queue, r), NEW fired, IsFiniteSet(fired),
         \A f \in fired : /\ f.kind \in {"HIGH_STAGNATION", "PUNCTURE"}
                          /\ f.score \notin Marks \ {"NaN"} /\ f.edge \notin Marks \cup {""}
  PROVE  NearQueue(Merged(r, queue, fired), r)
<1> DEFINE Takes(i, f) == /\ SameRoute(queue[i], f)
                          /\ \A k \in 1 .. (i - 1) : ~SameRoute(queue[k], f)
           Fed(i) == [queue[i] EXCEPT !.last_fired_at = r.server_time,
                                      !.accumulated_score = (CHOOSE f \in fired : Takes(i, f)).score,
                                      !.snapshot_ref = r.observations.snapshot_ref]
           fresh == {f \in fired : \A i \in DOMAIN queue : ~SameRoute(queue[i], f)}
           Made(f) == Entry(r, f.kind, <<f.edge>>, <<>>, f.score)
           made  == {Made(f) : f \in fresh}
           fed   == [i \in DOMAIN queue |-> IF \E f \in fired : Takes(i, f) THEN Fed(i) ELSE queue[i]]
           Good(t) == NearTrigger(t) /\ (Nameless(t) => NamelessBefore(r))
<1>1. Merged(r, queue, fired) = fed \o SetToSeq(made)
  BY DEF Merged
<1>2. r.server_time \in Instants /\ HeldField(May(Text), r.observations.snapshot_ref)
  BY EventsOf
<1>3. ASSUME NEW i \in DOMAIN queue PROVE Good(fed[i])
  <2>1. Good(queue[i])
    BY DEF NearQueue
  <2>2. ASSUME NEW f \in fired, Takes(i, f) PROVE Good(Fed(i))
    <3> DEFINE g == CHOOSE x \in fired : Takes(i, x)
               q == queue[i]
    <3>1. g \in fired
      <4> HIDE DEF Takes
      <4> QED BY <2>2
    <3>2. g.score \notin Marks \ {"NaN"}
      <4> HIDE DEF g
      <4> QED BY <3>1
    <3> DEFINE t == [q EXCEPT !.last_fired_at = r.server_time, !.accumulated_score = g.score,
                              !.snapshot_ref = r.observations.snapshot_ref]
    <3>3. Fed(i) = t
      OBVIOUS
    <3>4. q = [x \in TriggerFields |-> q[x]]
      BY <2>1 DEF NearTrigger
    <3> HIDE DEF g, q, Fed, Takes
    <3>5. /\ t = [x \in TriggerFields |-> t[x]]
          /\ t.kind = q.kind /\ t.first_fired_at = q.first_fired_at
          /\ t.last_fired_at = r.server_time /\ t.accumulated_score = g.score
          /\ t.origin_edge_id = q.origin_edge_id /\ t.origin_node_id = q.origin_node_id
          /\ t.snapshot_ref = r.observations.snapshot_ref
      BY <3>4 DEF TriggerFields
    <3>6. Good(q)
      BY <2>1 DEF q
    <3> HIDE DEF t
    <3>7. NearTrigger(t) /\ (Nameless(t) => Nameless(q))
      BY <1>2, <3>2, <3>5, <3>6 DEF NearTrigger, Nameless
    <3> QED BY <3>3, <3>6, <3>7
  <2>3. fed[i] = IF \E f \in fired : Takes(i, f) THEN Fed(i) ELSE queue[i]
    OBVIOUS
  <2> HIDE DEF Takes, Fed, fed, Good
  <2> QED BY <2>1, <2>2, <2>3
<1>4. IsList(fed) /\ DOMAIN fed = DOMAIN queue
  <2>1. fed = [i \in DOMAIN queue |-> fed[i]]
    OBVIOUS
  <2> HIDE DEF fed
  <2> QED BY <2>1, MappedList DEF NearQueue
<1>5. ASSUME NEW f \in fresh PROVE Good(Made(f))
  <2>1. /\ f.kind \in QueuedTriggerKind.members /\ f.score \notin Marks \ {"NaN"}
        /\ f.edge \notin Marks \cup {""}
    BY DEF QueuedTriggerKind, Enum
  <2>2. HeldField(May(Reference("edge")), <<f.edge>>) /\ HeldField(May(Reference("node")), <<>>)
    BY <2>1, OneOrigin
  <2>3. <<"">> \notin {<<f.edge>>, <<>>}
    BY <2>1
  <2> QED BY <2>1, <2>2, <2>3, EntryIsNear
<1>6. IsFiniteSet(made) /\ \A t \in made : Good(t)
  <2>1. IsFiniteSet(fresh)
    BY FS_Subset
  <2>2. \A t \in made : Good(t)
    BY <1>5
  <2>3. IsFiniteSet(made)
    <3> HIDE DEF fresh
    <3> QED BY <2>1, EntriesAreFinite
  <2> HIDE DEF made, fresh, Good, Made
  <2> QED BY <2>2, <2>3
<1>7. NearQueue(fed \o SetToSeq(made), r)
  <2> DEFINE S == {t \in {fed[i] : i \in DOMAIN fed} \cup made : Good(t)}
  <2>1. IsList(SetToSeq(made)) /\ \A i \in DOMAIN SetToSeq(made) : SetToSeq(made)[i] \in made
    <3> HIDE DEF made
    <3> QED BY <1>6, ListOfSet
  <2> HIDE DEF fed, made, Good
  <2>2. /\ \A i \in DOMAIN fed : fed[i] \in S
        /\ \A i \in DOMAIN SetToSeq(made) : SetToSeq(made)[i] \in S
    BY <1>3, <1>4, <1>6, <2>1
  <2> DEFINE s == SetToSeq(made)
  <2> HIDE DEF S, s
  <2>3. IsList(fed \o s) /\ \A i \in DOMAIN (fed \o s) : (fed \o s)[i] \in S
    BY <1>4, <2>1, <2>2, JoinedLists DEF s
  <2>4. \A i \in DOMAIN (fed \o s) : Good((fed \o s)[i])
    BY <2>3 DEF S
  <2> QED BY <2>3, <2>4 DEF NearQueue, Good, s
<1> QED BY <1>1, <1>7

\* What the waiting triggers are about.
LEMMA WaitingOrigins ==
  ASSUME NEW r, NEW queue, NearQueue(queue, r)
  PROVE  /\ AreOrigins(UNION {Items(t.origin_edge_id) : t \in Items(queue)}, r)
         /\ AreOrigins(UNION {Items(t.origin_node_id) : t \in Items(queue)}, r)
<1>1. IsList(queue)
  BY DEF NearQueue
<1>2. ASSUME NEW as \in {"edge", "node"}, NEW of,
             \A t \in Items(queue) : HeldField(May(Reference(as)), t[of]),
             \A t \in Items(queue) : t[of] = <<"">> => NamelessBefore(r)
      PROVE  AreOrigins(UNION {Items(t[of]) : t \in Items(queue)}, r)
  <2> DEFINE named == {t \in Items(queue) : t[of] # <<>>}
             f     == [t \in named |-> t[of][1]]
             ids   == UNION {Items(t[of]) : t \in Items(queue)}
  <2>1. \A t \in Items(queue) : Items(t[of]) = IF t[of] = <<>> THEN {} ELSE {t[of][1]}
    <3>1. ASSUME NEW t \in Items(queue)
          PROVE  Items(t[of]) = IF t[of] = <<>> THEN {} ELSE {t[of][1]}
      <4>1. t[of] = <<>> \/ t[of] = <<t[of][1]>>
        BY <1>2, HeldFields
      <4>2. DOMAIN <<>> = {} /\ DOMAIN <<t[of][1]>> = {1}
        OBVIOUS
      <4> QED BY <4>1, <4>2 DEF Items
    <3> QED BY <3>1
  <2>2. ids = {f[t] : t \in named}
    <3>1. \A t \in named : t \in Items(queue) /\ Items(t[of]) = {f[t]}
      BY <2>1
    <3>2. \A t \in Items(queue) : t \in named \/ Items(t[of]) = {}
      BY <2>1
    <3> HIDE DEF named, f
    <3> QED BY <3>1, <3>2
  <2>3. IsFiniteSet(named)
    BY <1>1, ItemsAreFinite, FS_Subset
  <2>4. ASSUME NEW t \in named
        PROVE  f[t] \notin Marks /\ (f[t] = "" => NamelessBefore(r))
    <3>1. t[of] = <<f[t]>> /\ 1 \in DOMAIN t[of]
      <4>1. t[of] = <<t[of][1]>>
        BY <1>2, HeldFields
      <4> QED BY <4>1
    <3>2. AllSound("held", Reference(as), f[t])
      BY <1>2, <3>1, HeldFields
    <3>3. f[t] \notin Marks
      BY <3>2, HeldLeaf
    <3> QED BY <1>2, <3>1, <3>3
  <2>5. IsFiniteSet({f[t] : t \in named})
    <3> HIDE DEF f, named
    <3> QED BY <2>3, ImageIsFinite
  <2> HIDE DEF f, named, ids
  <2>6. AreOrigins(ids, r)
    BY <2>2, <2>4, <2>5 DEF AreOrigins
  <2> QED BY <2>6 DEF ids
<1>3. \A t \in Items(queue) :
        /\ HeldField(May(Reference("edge")), t.origin_edge_id)
        /\ HeldField(May(Reference("node")), t.origin_node_id)
        /\ Nameless(t) => NamelessBefore(r)
  BY DEF NearQueue, NearTrigger, Items
<1>4. AreOrigins(UNION {Items(t.origin_edge_id) : t \in Items(queue)}, r)
  BY <1>2, <1>3 DEF Nameless
<1>5. AreOrigins(UNION {Items(t.origin_node_id) : t \in Items(queue)}, r)
  BY <1>2, <1>3 DEF Nameless
<1> QED BY <1>4, <1>5

LEMMA JoinedOrigins ==
  ASSUME NEW r, NEW a, AreOrigins(a, r), NEW b, AreOrigins(b, r)
  PROVE  AreOrigins(a \cup b, r)
BY FS_Union DEF AreOrigins

\* A count goes up from the greatest only where something fired.
LEMMA RecountedIsNear ==
  ASSUME NEW r, Accepted(r), NEW s, NearCounts(s.arc_retrigger_counts), ~Outgrown(s.arc_retrigger_counts),
         NEW calm, NEW fired, IsFiniteSet(fired)
  PROVE  LET c == Recounted(r, s, calm, fired)
         IN  /\ NearCounts(c)
             /\ Outgrown(c) => /\ fired # {}
                               /\ \E x \in Items(s.arc_retrigger_counts) : x.count = "max"
<1> DEFINE list    == s.arc_retrigger_counts
           watched == {w.edge_id : w \in {x \in Items(s.arc_watch_states) :
                         x.percentile_breached # "0" \/ x.delta_breached # "0"}}
           old     == {c \in LastOf(list, DOMAIN list, "edge_id") : c.edge_id \in OpenEdges(r)}
           Next(c) ==
             CASE c.edge_id \in fired ->
                    [c EXCEPT !.count = Incremented(c.count), !.quiet_cycles = "0",
                              !.last_fired_at = <<r.server_time>>]
               [] c.edge_id \notin fired /\ fired # {} -> ZeroCount(c)
               [] fired = {} /\ c.edge_id \in calm \ watched -> ZeroCount(c)
               [] fired = {} /\ c.edge_id \notin watched \cup calm ->
                    [c EXCEPT !.quiet_cycles = OneMore(c.quiet_cycles)]
               [] OTHER -> c
           First(e) == [edge_id |-> e, count |-> "1", quiet_cycles |-> "0",
                        last_fired_at |-> <<r.server_time>>]
           new     == (fired \cap OpenEdges(r)) \ {c.edge_id : c \in old}
           next    == {Next(c) : c \in old}
           first   == {First(e) : e \in new}
           Max1    == fired # {} /\ \E x \in Items(list) : x.count = "max"
           Good(c) == NearCount(c) /\ (c.count = "over" => Max1)
<1>1. Recounted(r, s, calm, fired) = SetToSeq(next \cup first)
  BY DEF Recounted
<1>2. HeldField(May(Time), <<r.server_time>>)
  BY EventsOf
<1>3. old \subseteq Items(list) /\ IsFiniteSet(old)
  <2>1. IsList(list)
    BY DEF NearCounts
  <2>2. LastOf(list, DOMAIN list, "edge_id") \subseteq Items(list)
        /\ IsFiniteSet(LastOf(list, DOMAIN list, "edge_id"))
    <3> HIDE DEF list
    <3> QED BY <2>1, FoundInList
  <2> QED BY <2>2, FS_Subset
<1>4. \A c \in Items(list) : NearCount(c) /\ c.count # "over"
  BY DEF NearCounts, Outgrown, Items
<1>5. {"0", "1", "many"} \cap Marks = {}
  BY DEF Marks
<1> HIDE DEF list, old, watched
<1>6. ASSUME NEW c \in old PROVE Good(Next(c))
  <2>1. c \in Items(list) /\ NearCount(c) /\ c.count # "over"
    BY <1>3, <1>4
  <2>2. NearCount(ZeroCount(c)) /\ ZeroCount(c).count # "over"
    BY <2>1, ZeroedIsNear
  <2>3. CASE c.edge_id \in fired
    <3> DEFINE n == [c EXCEPT !.count = Incremented(c.count), !.quiet_cycles = "0",
                              !.last_fired_at = <<r.server_time>>]
    <3>1. Incremented(c.count) \notin Marks \ {"over"}
          /\ (Incremented(c.count) = "over" => c.count = "max")
      BY <1>5 DEF Incremented, OneMore
    <3>2. /\ n = [f \in CountFields |-> n[f]]
          /\ n.edge_id = c.edge_id /\ n.count = Incremented(c.count) /\ n.quiet_cycles = "0"
          /\ n.last_fired_at = <<r.server_time>>
      BY <2>1 DEF NearCount, CountFields
    <3>3. Next(c) = n
      BY <2>3
    <3> HIDE DEF n, Next
    <3>4. NearCount(n)
      BY <1>2, <1>5, <2>1, <3>1, <3>2 DEF NearCount
    <3>5. n.count = "over" => Max1
      BY <2>1, <2>3, <3>1, <3>2
    <3> QED BY <3>3, <3>4, <3>5
  <2>4. CASE c.edge_id \notin fired /\ fired # {}
    <3>1. Next(c) = ZeroCount(c)
      BY <2>4
    <3> QED BY <2>2, <3>1
  <2>5. CASE fired = {}
    <3> DEFINE n == [c EXCEPT !.quiet_cycles = OneMore(c.quiet_cycles)]
    <3>1. OneMore(c.quiet_cycles) \notin Marks
      BY <1>5 DEF OneMore
    <3>2. /\ n = [f \in CountFields |-> n[f]]
          /\ n.edge_id = c.edge_id /\ n.count = c.count
          /\ n.quiet_cycles = OneMore(c.quiet_cycles) /\ n.last_fired_at = c.last_fired_at
      BY <2>1 DEF NearCount, CountFields
    <3>3. Next(c) \in {n, c, ZeroCount(c)}
      BY <2>5
    <3> HIDE DEF n, Next
    <3>4. NearCount(n) /\ n.count # "over"
      BY <2>1, <3>1, <3>2 DEF NearCount
    <3> QED BY <2>1, <2>2, <3>3, <3>4
  <2> QED BY <2>3, <2>4, <2>5
<1>7. ASSUME NEW e \in new PROVE Good(First(e))
  <2>1. e \notin Marks \cup {""}
    BY GraphIds
  <2> DEFINE n == First(e)
  <2>2. /\ n = [f \in CountFields |-> n[f]]
        /\ n.edge_id = e /\ n.count = "1" /\ n.quiet_cycles = "0"
        /\ n.last_fired_at = <<r.server_time>>
    BY DEF CountFields
  <2> HIDE DEF n
  <2>3. NearCount(n) /\ n.count # "over"
    BY <1>2, <1>5, <2>1, <2>2 DEF NearCount
  <2> QED BY <2>3 DEF n
<1>8. IsFiniteSet(next) /\ IsFiniteSet(first)
  <2> DEFINE f == [c \in old |-> Next(c)]
             g == [e \in new |-> First(e)]
  <2>1. next = {f[c] : c \in old} /\ first = {g[e] : e \in new}
    <3> HIDE DEF Next, First, new
    <3> QED OBVIOUS
  <2>2. IsFiniteSet(new)
    BY FS_Subset
  <2> HIDE DEF f, g, next, first, new
  <2> QED BY <1>3, <2>1, <2>2, ImageIsFinite
<1>9. IsFiniteSet(next \cup first) /\ \A c \in next \cup first : Good(c)
  <2>1. \A c \in next \cup first : Good(c)
    <3> HIDE DEF Next, First, Good, new
    <3> QED BY <1>6, <1>7
  <2> HIDE DEF next, first
  <2> QED BY <1>8, <2>1, FS_Union
<1> DEFINE c == SetToSeq(next \cup first)
<1>10. IsList(c) /\ \A i \in DOMAIN c : Good(c[i])
  <2>1. IsList(c) /\ \A i \in DOMAIN c : c[i] \in next \cup first
    <3> HIDE DEF next, first
    <3> QED BY <1>9, ListOfSet
  <2> HIDE DEF c, next, first, Good
  <2> QED BY <1>9, <2>1
<1> HIDE DEF c
<1>11. NearCounts(c) /\ (Outgrown(c) => Max1)
  <2> HIDE DEF Max1
  <2> QED BY <1>10 DEF NearCounts, Outgrown, Items
<1> QED BY <1>1, <1>11 DEF c, list

\* A decision that leaves sound memories, but for scores that are waiting.
IsDecision(d) == DOMAIN d = {"verdict", "edges", "nodes", "committed", "aborted"}

NearDecision(d, r) ==
  /\ IsDecision(d)
  /\ NearMemory(d.committed, r) /\ NearMemory(d.aborted, r)
  /\ Overflown(d.committed.trigger_queue) => d.verdict = "QUEUED"
  /\ AreOrigins(d.edges, r) /\ AreOrigins(d.nodes, r)

LEMMA EmptyIsNear ==
  ASSUME NEW r
  PROVE  NearQueue(<<>>, r) /\ ~Overflown(<<>>) /\ AreOrigins({}, r)
<1>1. IsList(<<>>) /\ DOMAIN <<>> = {}
  BY DEF IsList
<1> QED BY <1>1, FS_EmptySet DEF NearQueue, Overflown, Items, AreOrigins

LEMMA NearWithQueue ==
  ASSUME NEW r, NEW m, NearMemory(m, r), NEW queue, NearQueue(queue, r), NEW n,
         n = [m EXCEPT !.trigger_queue = queue]
  PROVE  /\ NearMemory(n, r) /\ n.trigger_queue = queue
         /\ n.arc_retrigger_counts = m.arc_retrigger_counts
<1>1. NearMemory(n, r) /\ n["trigger_queue"] = queue
      /\ \A f \in StateFields : f # "trigger_queue" => n[f] = m[f]
  BY NearWith DEF StateFields
<1> QED BY <1>1 DEF StateFields

LEMMA QuietIsNear ==
  ASSUME NEW r, NEW s, NearMemory(s, r), NEW verdict, Overflown(s.trigger_queue) => verdict = "QUEUED"
  PROVE  LET d == Quiet(verdict, s)
         IN  NearDecision(d, r) /\ d.verdict = verdict /\ d.committed = s /\ d.aborted = s
<1> DEFINE d == Quiet(verdict, s)
<1>1. /\ IsDecision(d) /\ d.verdict = verdict /\ d.edges = {} /\ d.nodes = {}
      /\ d.committed = s /\ d.aborted = s
  BY DEF Quiet, IsDecision
<1> HIDE DEF d
<1> QED BY <1>1, EmptyIsNear DEF NearDecision, d

LEMMA FiredIsNear ==
  ASSUME NEW r, Accepted(r), NEW s, NearMemory(s, r), NEW edges, AreOrigins(edges, r),
         NEW nodes, AreOrigins(nodes, r), NEW aborted, NearMemory(aborted, r)
  PROVE  LET d == Fired(r, s, edges, nodes, aborted)
         IN  /\ NearDecision(d, r) /\ d.verdict = "TRIGGERED" /\ d.aborted = aborted
             /\ d.committed.arc_retrigger_counts = s.arc_retrigger_counts
<1> DEFINE d     == Fired(r, s, edges, nodes, aborted)
           queue == aborted.trigger_queue
           until == Later(r.server_time, r.config.cooldown_duration_min)
           u     == [s EXCEPT !.trigger_queue = <<>>]
           v     == [u EXCEPT !.cooldown_until = <<until>>]
           e     == edges \cup UNION {Items(t.origin_edge_id) : t \in Items(queue)}
           n     == nodes \cup UNION {Items(t.origin_node_id) : t \in Items(queue)}
<1>1. /\ IsDecision(d) /\ d.verdict = "TRIGGERED" /\ d.edges = e /\ d.nodes = n
      /\ d.committed = v /\ d.aborted = aborted
  BY DEF Fired, IsDecision
<1>2. AreOrigins(e, r) /\ AreOrigins(n, r)
  BY WaitingOrigins, JoinedOrigins DEF NearMemory
<1>3. HeldField(May(Time), <<until>>)
  <2>1. until \in Instants
    BY EventsOf DEF Later, Instants
  <2>2. AllSound("held", Time, until)
    BY <2>1, HeldLeaf
  <2> HIDE DEF until
  <2> QED BY <2>2 DEF HeldField, May
<1> HIDE DEF until, d, e, n
<1>4. /\ NearMemory(u, r) /\ u.trigger_queue = <<>>
      /\ u.arc_retrigger_counts = s.arc_retrigger_counts
  BY EmptyIsNear, NearWithQueue
<1> HIDE DEF u
<1>5. NearMemory(v, r) /\ \A f \in StateFields : f # "cooldown_until" => v[f] = u[f]
  BY <1>3, <1>4, NearWith DEF StateFields
<1> HIDE DEF v
<1>6. v.trigger_queue = <<>> /\ v.arc_retrigger_counts = s.arc_retrigger_counts
  BY <1>4, <1>5 DEF StateFields
<1> QED BY <1>1, <1>2, <1>5, <1>6, EmptyIsNear DEF NearDecision, d

LEMMA DecisionIsNear ==
  ASSUME NEW r, Accepted(r), NEW found, FoundIsSound(found), NEW s, NearMemory(s, r),
         ~Overflown(s.trigger_queue)
  PROVE  LET d == Decision(r, s, found)
         IN  /\ NearDecision(d, r)
             /\ d.committed.arc_retrigger_counts = s.arc_retrigger_counts
             /\ d.aborted.arc_retrigger_counts = s.arc_retrigger_counts
             /\ d.verdict \in {"TRIGGERED", "QUEUED", "SKIPPED_COOLDOWN", "SKIPPED_NO_TRIGGER"}
<1> DEFINE d        == Decision(r, s, found)
           firing   == Firing(r, s, found)
           edges    == {f.edge : f \in firing}
           flags    == Flagged(r)
           queue    == Merged(r, s.trigger_queue, firing)
           merged   == [s EXCEPT !.trigger_queue = queue]
           expired  == [s EXCEPT !.trigger_queue = <<>>]
           cooling  == \E t \in Items(s.cooldown_until) : Before(r.server_time, t)
           stirring == edges # {} \/ (s.trigger_queue # <<>> /\ found.fresh)
           Good(x)  == /\ NearDecision(x, r)
                       /\ x.committed.arc_retrigger_counts = s.arc_retrigger_counts
                       /\ x.aborted.arc_retrigger_counts = s.arc_retrigger_counts
                       /\ x.verdict \in {"TRIGGERED", "QUEUED", "SKIPPED_COOLDOWN", "SKIPPED_NO_TRIGGER"}
<1>1. AreOrigins(edges, r)
  <2>1. /\ IsFiniteSet(firing)
        /\ \A f \in firing : f.edge \notin Marks \cup {""}
    BY FiringIsSound
  <2> DEFINE g == [f \in firing |-> f.edge]
  <2>2. edges = {g[f] : f \in firing}
    OBVIOUS
  <2>3. \A id \in edges : id \notin Marks \cup {""}
    BY <2>1
  <2> HIDE DEF firing, edges
  <2>4. IsFiniteSet(edges)
    <3> HIDE DEF g
    <3> QED BY <2>1, <2>2, ImageIsFinite
  <2> QED BY <2>3, <2>4 DEF AreOrigins
<1>2. AreOrigins(EdgesIn(flags) \cup edges, r) /\ AreOrigins(NodesIn(flags), r)
  <2> HIDE DEF edges
  <2> QED BY <1>1, GraphIds, JoinedOrigins
<1>3. NearQueue(queue, r)
  <2> HIDE DEF firing
  <2> QED BY FiringIsSound, MergedIsNear DEF NearMemory, firing
<1> HIDE DEF queue
<1>4. /\ NearMemory(merged, r) /\ merged.arc_retrigger_counts = s.arc_retrigger_counts
      /\ NearMemory(expired, r) /\ expired.arc_retrigger_counts = s.arc_retrigger_counts
      /\ expired.trigger_queue = <<>>
  <2>1. NearMemory(merged, r) /\ merged.arc_retrigger_counts = s.arc_retrigger_counts
    BY <1>3, NearWithQueue
  <2>2. /\ NearMemory(expired, r) /\ expired.arc_retrigger_counts = s.arc_retrigger_counts
        /\ expired.trigger_queue = <<>>
    BY EmptyIsNear, NearWithQueue
  <2> QED BY <2>1, <2>2
<1> DEFINE fired == Fired(r, s, EdgesIn(flags) \cup edges, NodesIn(flags), s)
           burst == Fired(r, s, {}, {}, merged)
<1>5. d = CASE flags # {} \/ (~cooling /\ stirring) -> fired
            [] flags = {} /\ cooling /\ edges # {} /\ found.full -> burst
            [] flags = {} /\ cooling /\ edges # {} /\ ~found.full -> Quiet("QUEUED", merged)
            [] flags = {} /\ cooling /\ edges = {} -> Quiet("SKIPPED_COOLDOWN", s)
            [] flags = {} /\ ~cooling /\ ~stirring -> Quiet("SKIPPED_NO_TRIGGER", expired)
  BY DEF Decision, queue
<1> HIDE DEF d, merged, expired
<1>6. Good(fired)
  <2> HIDE DEF edges, flags
  <2> QED BY <1>2, FiredIsNear
<1>7. Good(burst)
  BY <1>4, EmptyIsNear, FiredIsNear
<1>8. Good(Quiet("QUEUED", merged))
  BY <1>4, QuietIsNear
<1>9. Good(Quiet("SKIPPED_COOLDOWN", s))
  BY QuietIsNear
<1>10. Good(Quiet("SKIPPED_NO_TRIGGER", expired))
  BY <1>4, EmptyIsNear, QuietIsNear
<1>11. d \in {fired, burst, Quiet("QUEUED", merged), Quiet("SKIPPED_COOLDOWN", s),
              Quiet("SKIPPED_NO_TRIGGER", expired)}
  <2> HIDE DEF fired, burst, edges, flags, cooling
  <2> QED BY <1>5
<1> HIDE DEF fired, burst, Good
<1>12. Good(d)
  BY <1>6, <1>7, <1>8, <1>9, <1>10, <1>11
<1> QED BY <1>12 DEF Good, d

\* What detection leaves. A count outgrows its bits only where something
\* triggered, and not when the attempt is given up.
LEMMA DetectedIsNear ==
  ASSUME NEW r, Accepted(r), NEW found, FoundIsSound(found)
  PROVE  LET d == Detected(r, found)
         IN  /\ NearDecision(d, r)
             /\ Outgrown(d.committed.arc_retrigger_counts) => d.verdict = "TRIGGERED" /\ MaxBefore(r)
             /\ ~Outgrown(d.aborted.arc_retrigger_counts)
             /\ d.verdict \in {"TRIGGERED", "QUEUED", "SKIPPED_COOLDOWN", "SKIPPED_NO_TRIGGER",
                               "SKIPPED_WARMUP"}
<1> DEFINE d     == Detected(r, found)
           s     == AfterEvents(r)
           t     == AfterReadings(r, s, found)
           e     == Decision(r, t, found)
           fired == IF e.verdict = "TRIGGERED" THEN e.edges \ EdgesIn(Flagged(r)) ELSE {}
           calm  == found.calm
           yes   == Recounted(r, t, calm, fired)
           no    == Recounted(r, t, calm, {})
           n     == [e EXCEPT !.committed.arc_retrigger_counts = yes,
                              !.aborted.arc_retrigger_counts   = no]
           quiet == Quiet("SKIPPED_WARMUP", s)
<1>1. d \in {quiet, e, n} /\ (d = e => n = e \/ e.verdict = "QUEUED" \/ e = quiet)
  <2> DEFINE warming == AllInWarmup(r, s) /\ Flagged(r) = {}
  <2>1. d = CASE warming -> quiet
              [] ~warming /\ e.verdict = "QUEUED" -> e
              [] OTHER -> n
    BY DEF Detected
  <2> HIDE DEF warming, quiet, e, n, d
  <2> QED BY <2>1
<1>2. /\ NearMemory(s, r) /\ ~Overflown(s.trigger_queue) /\ ~Outgrown(s.arc_retrigger_counts)
      /\ \A c \in Items(s.arc_retrigger_counts) : c.count = "max" => MaxBefore(r)
  BY AfterEventsIsNear
<1>3. /\ NearMemory(t, r) /\ t.trigger_queue = s.trigger_queue
      /\ t.arc_retrigger_counts = s.arc_retrigger_counts
  <2> HIDE DEF s
  <2> QED BY <1>2, AfterReadingsIsNear
<1>4. /\ NearDecision(e, r)
      /\ e.committed.arc_retrigger_counts = t.arc_retrigger_counts
      /\ e.aborted.arc_retrigger_counts = t.arc_retrigger_counts
      /\ e.verdict \in {"TRIGGERED", "QUEUED", "SKIPPED_COOLDOWN", "SKIPPED_NO_TRIGGER"}
  <2> HIDE DEF s, t
  <2> QED BY <1>2, <1>3, DecisionIsNear
<1>5. /\ NearDecision(quiet, r) /\ quiet.verdict = "SKIPPED_WARMUP"
      /\ quiet.committed = s /\ quiet.aborted = s
  <2> HIDE DEF s
  <2> QED BY <1>2, QuietIsNear
<1> HIDE DEF d, quiet, s, t, e
<1>6. IsFiniteSet(fired) /\ IsFiniteSet({}) /\ (fired # {} => e.verdict = "TRIGGERED")
  <2>1. IsFiniteSet(e.edges \ EdgesIn(Flagged(r))) /\ IsFiniteSet({})
    BY <1>4, FS_EmptySet, FS_Difference DEF NearDecision, AreOrigins
  <2> QED BY <2>1
<1> HIDE DEF fired, calm
<1>7. /\ NearCounts(t.arc_retrigger_counts) /\ ~Outgrown(t.arc_retrigger_counts)
      /\ (\E c \in Items(t.arc_retrigger_counts) : c.count = "max") => MaxBefore(r)
  BY <1>2, <1>3 DEF NearMemory
<1>8. NearCounts(yes) /\ (Outgrown(yes) => e.verdict = "TRIGGERED" /\ MaxBefore(r))
  BY <1>6, <1>7, RecountedIsNear
<1>9. NearCounts(no) /\ ~Outgrown(no)
  BY <1>6, <1>7, RecountedIsNear
<1> HIDE DEF yes, no
<1> DEFINE committed == [e.committed EXCEPT !.arc_retrigger_counts = yes]
           aborted   == [e.aborted EXCEPT !.arc_retrigger_counts = no]
<1>10. /\ IsDecision(n) /\ n.verdict = e.verdict /\ n.edges = e.edges /\ n.nodes = e.nodes
       /\ n.committed = committed /\ n.aborted = aborted
  BY <1>4 DEF NearDecision, IsDecision
<1> HIDE DEF n
<1>11. /\ NearMemory(committed, r) /\ committed.arc_retrigger_counts = yes
       /\ committed.trigger_queue = e.committed.trigger_queue
  <2> SUFFICES /\ NearMemory(committed, r) /\ committed["arc_retrigger_counts"] = yes
               /\ \A f \in StateFields : f # "arc_retrigger_counts" => committed[f] = e.committed[f]
    BY DEF StateFields
  <2> QED BY <1>4, <1>8, NearWith DEF StateFields, NearDecision
<1>12. /\ NearMemory(aborted, r) /\ aborted.arc_retrigger_counts = no
  <2> SUFFICES NearMemory(aborted, r) /\ aborted["arc_retrigger_counts"] = no
    OBVIOUS
  <2> QED BY <1>4, <1>9, NearWith DEF StateFields, NearDecision
<1> HIDE DEF committed, aborted
<1>13. /\ NearDecision(n, r)
       /\ Outgrown(n.committed.arc_retrigger_counts) => n.verdict = "TRIGGERED" /\ MaxBefore(r)
       /\ ~Outgrown(n.aborted.arc_retrigger_counts)
  BY <1>4, <1>8, <1>9, <1>10, <1>11, <1>12 DEF NearDecision
<1>14. ~Outgrown(e.committed.arc_retrigger_counts) /\ ~Outgrown(e.aborted.arc_retrigger_counts)
  BY <1>4, <1>7
<1>15. ~Outgrown(quiet.committed.arc_retrigger_counts) /\ ~Outgrown(quiet.aborted.arc_retrigger_counts)
  BY <1>2, <1>5
<1>16. /\ NearDecision(d, r)
       /\ Outgrown(d.committed.arc_retrigger_counts) => d.verdict = "TRIGGERED" /\ MaxBefore(r)
       /\ ~Outgrown(d.aborted.arc_retrigger_counts)
       /\ d.verdict \in {"TRIGGERED", "QUEUED", "SKIPPED_COOLDOWN", "SKIPPED_NO_TRIGGER",
                         "SKIPPED_WARMUP"}
  BY <1>1, <1>4, <1>5, <1>10, <1>13, <1>14, <1>15
<1> QED BY <1>16 DEF d

\* What triggered goes back into the queue.
LEMMA RequeuedIsNear ==
  ASSUME NEW r, Accepted(r), NEW d, NearDecision(d, r)
  PROVE  NearQueue(d.aborted.trigger_queue \o Requeued(r, d), r)
<1> DEFINE OfEdge(e) == Entry(r, "SURGE", <<e>>, <<>>, "0")
           OfNode(n) == Entry(r, "DANGER", <<>>, <<n>>, "0")
           edges     == {OfEdge(e) : e \in d.edges}
           nodes     == {OfNode(n) : n \in d.nodes}
           queue     == d.aborted.trigger_queue
           Good(t)   == NearTrigger(t) /\ (Nameless(t) => NamelessBefore(r))
<1>1. "0" \notin Marks \ {"NaN"} /\ {"SURGE", "DANGER"} \subseteq QueuedTriggerKind.members
  BY DEF Marks, QueuedTriggerKind, Enum
<1>2. /\ IsFiniteSet(d.edges) /\ \A e \in d.edges : e \notin Marks /\ (e = "" => NamelessBefore(r))
      /\ IsFiniteSet(d.nodes) /\ \A n \in d.nodes : n \notin Marks /\ (n = "" => NamelessBefore(r))
  BY DEF NearDecision, AreOrigins
<1>3. ASSUME NEW e \in d.edges PROVE Good(OfEdge(e))
  <2>1. HeldField(May(Reference("edge")), <<e>>) /\ HeldField(May(Reference("node")), <<>>)
    BY <1>2, OneOrigin
  <2>2. /\ NearTrigger(OfEdge(e))
        /\ Nameless(OfEdge(e)) <=> <<"">> \in {<<e>>, <<>>}
    <3> HIDE DEF OfEdge
    <3> QED BY <1>1, <2>1, EntryIsNear DEF OfEdge
  <2>3. <<"">> \in {<<e>>, <<>>} => e = ""
    OBVIOUS
  <2> HIDE DEF OfEdge
  <2> QED BY <1>2, <2>2, <2>3
<1>4. ASSUME NEW n \in d.nodes PROVE Good(OfNode(n))
  <2>1. HeldField(May(Reference("edge")), <<>>) /\ HeldField(May(Reference("node")), <<n>>)
    BY <1>2, OneOrigin
  <2>2. /\ NearTrigger(OfNode(n))
        /\ Nameless(OfNode(n)) <=> <<"">> \in {<<>>, <<n>>}
    <3> HIDE DEF OfNode
    <3> QED BY <1>1, <2>1, EntryIsNear DEF OfNode
  <2>3. <<"">> \in {<<>>, <<n>>} => n = ""
    OBVIOUS
  <2> HIDE DEF OfNode
  <2> QED BY <1>2, <2>2, <2>3
<1>5. IsFiniteSet(edges) /\ IsFiniteSet(nodes)
  <2> DEFINE f == [e \in d.edges |-> OfEdge(e)]
             g == [n \in d.nodes |-> OfNode(n)]
  <2>1. edges = {f[e] : e \in d.edges} /\ nodes = {g[n] : n \in d.nodes}
    <3> HIDE DEF OfEdge, OfNode
    <3> QED OBVIOUS
  <2>2. IsFiniteSet({f[e] : e \in d.edges}) /\ IsFiniteSet({g[n] : n \in d.nodes})
    <3> HIDE DEF f, g
    <3> QED BY <1>2, ImageIsFinite
  <2> HIDE DEF f, g, edges, nodes
  <2> QED BY <2>1, <2>2
<1> DEFINE both == edges \cup nodes
           new  == SetToSeq(both)
<1>6. Requeued(r, d) = new
  BY DEF Requeued
<1>7. \A t \in both : Good(t)
  <2> HIDE DEF Good, OfEdge, OfNode
  <2> QED BY <1>3, <1>4
<1>8. IsFiniteSet(both)
  <2> HIDE DEF edges, nodes
  <2> QED BY <1>5, FS_Union
<1> HIDE DEF both
<1>9. IsList(new) /\ \A i \in DOMAIN new : new[i] \in both
  BY <1>8, ListOfSet
<1>10. IsList(queue) /\ \A i \in DOMAIN queue : Good(queue[i])
  BY DEF NearDecision, NearMemory, NearQueue
<1> DEFINE S == {t \in Items(queue) \cup both : Good(t)}
<1> HIDE DEF new, queue, Good
<1>11. (\A i \in DOMAIN queue : queue[i] \in S) /\ \A i \in DOMAIN new : new[i] \in S
  BY <1>7, <1>9, <1>10 DEF Items
<1>12. \A t \in S : Good(t)
  OBVIOUS
<1> HIDE DEF S
<1>13. IsList(queue \o new) /\ \A i \in DOMAIN (queue \o new) : (queue \o new)[i] \in S
  BY <1>9, <1>10, <1>11, JoinedLists
<1>14. IsList(queue \o new) /\ \A i \in DOMAIN (queue \o new) : Good((queue \o new)[i])
  BY <1>12, <1>13
<1> QED BY <1>6, <1>14 DEF NearQueue, Good, queue

\* What a verdict makes of a decision.
EndsAs(d, verdict) ==
  \/ d.verdict = "TRIGGERED" /\ verdict \in {"OPTIMIZED", "SKIPPED_TIME"}
  \/ d.verdict = verdict /\ verdict \in {"QUEUED", "SKIPPED_COOLDOWN", "SKIPPED_NO_TRIGGER",
                                         "SKIPPED_WARMUP"}

\* A score that has overflown waits in the queue or is waiting again; a count
\* outgrows its bits in a cycle that optimized.
LEMMA FinalizedIsNear ==
  ASSUME NEW r, Accepted(r), NEW found, FoundIsSound(found), NEW verdict,
         EndsAs(Detected(r, found), verdict), NEW finalRetry \in BOOLEAN
  PROVE  LET m == Finalized(r, Detected(r, found), verdict, finalRetry)
         IN  /\ NearMemory(m, r)
             /\ Overflown(m.trigger_queue) => verdict \in {"QUEUED", "SKIPPED_TIME"}
             /\ Outgrown(m.arc_retrigger_counts) => verdict = "OPTIMIZED" /\ MaxBefore(r)
<1> DEFINE d     == Detected(r, found)
           m     == Finalized(r, d, verdict, finalRetry)
           s     == r.detection_state
           more  == OneMore(s.consecutive_skip_count)
           queue == d.aborted.trigger_queue \o Requeued(r, d)
           Good(n) == /\ NearMemory(n, r)
                      /\ Overflown(n.trigger_queue) => verdict \in {"QUEUED", "SKIPPED_TIME"}
                      /\ Outgrown(n.arc_retrigger_counts) => verdict = "OPTIMIZED" /\ MaxBefore(r)
<1>1. /\ NearDecision(d, r) /\ EndsAs(d, verdict)
      /\ Outgrown(d.committed.arc_retrigger_counts) => d.verdict = "TRIGGERED" /\ MaxBefore(r)
      /\ ~Outgrown(d.aborted.arc_retrigger_counts)
  BY DetectedIsNear
<1>2. NearQueue(queue, r)
  <2> HIDE DEF d
  <2> QED BY <1>1, RequeuedIsNear
<1>3. "0" \notin Marks /\ more \notin Marks
  BY DEF OneMore, Marks
<1>4. ASSUME NEW u, NearMemory(u, r), NEW x, x \notin Marks,
             NEW v, v = [u EXCEPT !.consecutive_skip_count = x]
      PROVE  /\ NearMemory(v, r) /\ v.trigger_queue = u.trigger_queue
             /\ v.arc_retrigger_counts = u.arc_retrigger_counts
  <2>1. NearMemory(v, r) /\ \A f \in StateFields : f # "consecutive_skip_count" => v[f] = u[f]
    BY <1>4, NearWith DEF StateFields
  <2> QED BY <2>1 DEF StateFields
<1> DEFINE optimized == [d.committed EXCEPT !.consecutive_skip_count = "0"]
           cleared   == [d.aborted EXCEPT !.trigger_queue = <<>>]
           givenUp   == [d.aborted EXCEPT !.trigger_queue = <<>>, !.consecutive_skip_count = "0"]
           waiting   == [d.aborted EXCEPT !.trigger_queue = queue]
           putOff    == [d.aborted EXCEPT !.trigger_queue = queue, !.consecutive_skip_count = more]
<1>5. m = CASE verdict = "OPTIMIZED" -> optimized
            [] verdict = "SKIPPED_TIME" /\ finalRetry -> givenUp
            [] verdict = "SKIPPED_TIME" /\ ~finalRetry -> putOff
            [] OTHER -> d.committed
  BY DEF Finalized
<1> HIDE DEF d, m, queue, more
<1>6. ASSUME verdict = "OPTIMIZED" PROVE Good(optimized)
  <2>1. /\ NearMemory(optimized, r) /\ optimized.trigger_queue = d.committed.trigger_queue
        /\ optimized.arc_retrigger_counts = d.committed.arc_retrigger_counts
    BY <1>1, <1>3, <1>4 DEF NearDecision
  <2>2. d.verdict = "TRIGGERED"
    BY <1>1, <1>6 DEF EndsAs
  <2> HIDE DEF optimized
  <2> QED BY <1>1, <1>6, <2>1, <2>2 DEF NearDecision
<1>7. ASSUME verdict = "SKIPPED_TIME" PROVE Good(givenUp)
  <2>1. /\ NearMemory(cleared, r) /\ cleared.trigger_queue = <<>>
        /\ cleared.arc_retrigger_counts = d.aborted.arc_retrigger_counts
    BY <1>1, EmptyIsNear, NearWithQueue DEF NearDecision
  <2>2. givenUp = [cleared EXCEPT !.consecutive_skip_count = "0"]
    OBVIOUS
  <2> HIDE DEF givenUp, cleared
  <2>3. /\ NearMemory(givenUp, r) /\ givenUp.trigger_queue = cleared.trigger_queue
        /\ givenUp.arc_retrigger_counts = cleared.arc_retrigger_counts
    BY <1>3, <1>4, <2>1, <2>2
  <2> QED BY <1>1, <1>7, <2>1, <2>3
<1>8. ASSUME verdict = "SKIPPED_TIME" PROVE Good(putOff)
  <2>1. /\ NearMemory(waiting, r) /\ waiting.trigger_queue = queue
        /\ waiting.arc_retrigger_counts = d.aborted.arc_retrigger_counts
    BY <1>1, <1>2, NearWithQueue DEF NearDecision
  <2>2. putOff = [waiting EXCEPT !.consecutive_skip_count = more]
    OBVIOUS
  <2> HIDE DEF putOff, waiting
  <2>3. /\ NearMemory(putOff, r) /\ putOff.trigger_queue = waiting.trigger_queue
        /\ putOff.arc_retrigger_counts = waiting.arc_retrigger_counts
    BY <1>3, <1>4, <2>1, <2>2
  <2> QED BY <1>1, <1>8, <2>1, <2>3
<1>9. ASSUME verdict \notin {"OPTIMIZED", "SKIPPED_TIME"} PROVE Good(d.committed)
  <2>1. d.verdict = verdict /\ d.verdict # "TRIGGERED"
    BY <1>1, <1>9 DEF EndsAs
  <2> QED BY <1>1, <2>1 DEF NearDecision
<1> HIDE DEF optimized, givenUp, putOff, Good
<1>10. Good(m)
  BY <1>5, <1>6, <1>7, <1>8, <1>9
<1> QED BY <1>10 DEF Good, d, m

-----------------------------------------------------------------------------
(* What the memory lets be written. *)

\* A score that has overflown and a count that has outgrown its bits are seen
\* when they are written.
LEMMA WritableIsSound ==
  ASSUME NEW r, NEW m, NearMemory(m, r), Writable(DetectionState, m)
  PROVE  AllSound("held", DetectionState, m)
<1> DEFINE t == DetectionState
<1>1. t.is = "message" /\ IsType(t, 3, "any")
  BY DetectionStateIsType DEF DetectionState, Message
<1>2. /\ IsType(List(QueuedTrigger), 2, "any") /\ IsType(List(RetriggerEntry), 2, "any")
      /\ IsType(QueuedTrigger, 1, "any") /\ IsType(RetriggerEntry, 1, "any")
  <2>1. IsType(RetriggerEntry, 1, "any")
    BY RetriggerEntryIsType, WiderType
  <2> QED BY <2>1, QueuedTriggerIsType, ListType
<1>5. Writable(List(QueuedTrigger), m.trigger_queue) /\ Writable(List(RetriggerEntry), m.arc_retrigger_counts)
  <2>1. /\ "trigger_queue" \in DOMAIN t.fields /\ t.fields["trigger_queue"].lack # "none"
        /\ t.fields["trigger_queue"].type = List(QueuedTrigger)
        /\ "arc_retrigger_counts" \in DOMAIN t.fields /\ t.fields["arc_retrigger_counts"].lack # "none"
        /\ t.fields["arc_retrigger_counts"].type = List(RetriggerEntry)
    BY DEF DetectionState, Message, All, Plain
  <2> HIDE DEF t
  <2>2. Writable(t, m)
    BY DEF t
  <2> QED BY <1>1, <2>1, <2>2, WritableOf
<1>6. ASSUME NEW x \in Items(m.trigger_queue) PROVE x.accumulated_score # "NaN"
  <2>1. Writable(QueuedTrigger, x)
    BY <1>2, <1>5, WritableItems
  <2>2. /\ QueuedTrigger.is = "message" /\ "accumulated_score" \in DOMAIN QueuedTrigger.fields
        /\ QueuedTrigger.fields["accumulated_score"] = Plain(Number)
    BY DEF QueuedTrigger, Message
  <2>3. Writable(Number, x.accumulated_score)
    BY <1>2, <2>1, <2>2, WritableOf DEF Plain
  <2>4. WritableItself(Number, x.accumulated_score)
    BY <2>3, AtomTypes, WritableInside
  <2> QED BY <2>4 DEF WritableItself, Number, Atom
<1>7. ASSUME NEW x \in Items(m.arc_retrigger_counts) PROVE x.count # "over"
  <2>1. Writable(RetriggerEntry, x)
    BY <1>2, <1>5, WritableItems
  <2>2. /\ RetriggerEntry.is = "message" /\ "count" \in DOMAIN RetriggerEntry.fields
        /\ RetriggerEntry.fields["count"] = Plain(Count)
    BY DEF RetriggerEntry, Message
  <2>3. Writable(Count, x.count)
    BY <1>2, <2>1, <2>2, WritableOf DEF Plain
  <2>4. WritableItself(Count, x.count)
    BY <2>3, AtomTypes, WritableInside
  <2> QED BY <2>4 DEF WritableItself, Count, Atom
<1> QED BY <1>6, <1>7, NearIsSound DEF Overflown, Outgrown

\* A memory without a trigger of an empty origin can be written.
LEMMA MemoryIsWritable ==
  ASSUME NEW s, AllSound("held", DetectionState, s), \A t \in Items(s.trigger_queue) : ~Nameless(t)
  PROVE  Writable(DetectionState, s)
<1>1. ASSUME NEW t, AllSound("held", QueuedTrigger, t), ~Nameless(t)
      PROVE  Writable(QueuedTrigger, t)
  <2>1. QueuedTrigger.is = "message"
    BY DEF QueuedTrigger, Message
  <2>2. \A f \in DOMAIN QueuedTrigger.fields : HeldField(QueuedTrigger.fields[f], t[f])
    BY <1>1, <2>1, QueuedTriggerIsType, HeldMessage
  <2>3. /\ HeldField(Plain(QueuedTriggerKind), t.kind) /\ HeldField(Must(Time), t.first_fired_at)
        /\ HeldField(Must(Time), t.last_fired_at) /\ HeldField(Plain(Number), t.accumulated_score)
        /\ HeldField(May(Reference("edge")), t.origin_edge_id)
        /\ HeldField(May(Reference("node")), t.origin_node_id)
        /\ HeldField(May(Text), t.snapshot_ref)
    BY <2>2 DEF QueuedTrigger, Message
  <2>4. /\ WritableField(Plain(QueuedTriggerKind), t.kind)
        /\ WritableField(Must(Time), t.first_fired_at) /\ WritableField(Must(Time), t.last_fired_at)
        /\ WritableField(Plain(Number), t.accumulated_score) /\ WritableField(May(Text), t.snapshot_ref)
    BY <2>3, AtomTypes, EnumTypes, WritableFields
  <2>5. ASSUME NEW as \in {"edge", "node"}, NEW x, HeldField(May(Reference(as)), x), x # <<"">>
        PROVE  WritableField(May(Reference(as)), x)
    <3>1. x = <<>> \/ x = <<x[1]>>
      BY <2>5, HeldFields
    <3>2. \A i \in DOMAIN x : x[i] # ""
      <4>1. DOMAIN <<>> = {} /\ DOMAIN <<x[1]>> = {1}
        OBVIOUS
      <4>2. x = <<x[1]>> => x[1] # ""
        BY <2>5
      <4> QED BY <3>1, <4>1, <4>2
    <3>3. ASSUME NEW y, y # "" PROVE Writable(Reference(as), y)
      <4>1. IsType(Reference(as), 0, "any")
        BY AtomTypes
      <4>2. PICK T : Grammar(T) /\ Reference(as) \in T
        BY <4>1 DEF IsType
      <4>3. Reference(as).is = "atom" /\ Reference(as).unwritten = {""}
        BY DEF Reference, Atom
      <4>4. Inside(<<"held", Reference(as), y>>) = {}
        BY <4>3 DEF Inside
      <4>5. WritableItself(Reference(as), y)
        BY <3>3, <4>3 DEF WritableItself
      <4> QED BY <4>2, <4>4, <4>5, WritableFromInside
    <3> QED BY <3>2, <3>3 DEF WritableField, May
  <2>6. /\ WritableField(May(Reference("edge")), t.origin_edge_id)
        /\ WritableField(May(Reference("node")), t.origin_node_id)
    BY <1>1, <2>3, <2>5 DEF Nameless
  <2>7. \A f \in DOMAIN QueuedTrigger.fields : WritableField(QueuedTrigger.fields[f], t[f])
    BY <2>4, <2>6 DEF QueuedTrigger, Message
  <2> QED BY <2>1, <2>7, QueuedTriggerIsType, WritableMessage
<1>2. DetectionState.is = "message"
  BY DEF DetectionState, Message
<1>3. \A f \in DOMAIN DetectionState.fields : HeldField(DetectionState.fields[f], s[f])
  BY <1>2, DetectionStateIsType, HeldMessage
<1>4. /\ HeldField(May(Time), s.cooldown_until) /\ HeldField(All(QueuedTrigger), s.trigger_queue)
      /\ HeldField(All(ArcWatchState), s.arc_watch_states)
      /\ HeldField(All(WarmupState), s.warmup_states)
      /\ HeldField(All(RetriggerEntry), s.arc_retrigger_counts)
      /\ HeldField(Plain(Text), s.consecutive_skip_count)
  BY <1>3 DEF DetectionState, Message
<1>5. WritableField(All(QueuedTrigger), s.trigger_queue)
  <2>1. IsType(List(QueuedTrigger), 2, "any")
    BY QueuedTriggerIsType, ListType
  <2>2. \A i \in DOMAIN s.trigger_queue : AllSound("held", QueuedTrigger, s.trigger_queue[i])
    BY <1>4, <2>1, HeldFields, ItemIsSound
  <2>3. \A i \in DOMAIN s.trigger_queue : Writable(QueuedTrigger, s.trigger_queue[i])
    BY <1>1, <2>2 DEF Items
  <2> QED BY <2>1, <2>3, ListIsWritable DEF WritableField, All, Plain
<1>6. /\ WritableField(May(Time), s.cooldown_until)
      /\ WritableField(All(ArcWatchState), s.arc_watch_states)
      /\ WritableField(All(WarmupState), s.warmup_states)
      /\ WritableField(All(RetriggerEntry), s.arc_retrigger_counts)
      /\ WritableField(Plain(Text), s.consecutive_skip_count)
  <2>1. IsType(Time, 0, "strict") /\ IsType(Text, 0, "strict")
    BY AtomTypes
  <2> QED BY <1>4, <2>1, ArcWatchStateIsType, WarmupStateIsType, RetriggerEntryIsType, WritableFields
<1>7. \A f \in DOMAIN DetectionState.fields : WritableField(DetectionState.fields[f], s[f])
  BY <1>5, <1>6 DEF DetectionState, Message
<1> QED BY <1>2, <1>7, DetectionStateIsType, WritableMessage

-----------------------------------------------------------------------------
(* The answer. *)

DraftIsSound ==
  /\ AllSound("held", OptimizationResult, draft.result)
  /\ AllSound("held", FeedbackValues, draft.feedback)
  /\ AllSound("held", FeedbackValues, draft.blank)
  /\ AllSound("held", Diagnostics, draft.diagnostics)
  /\ Writable(Diagnostics, draft.diagnostics)
  /\ FoundIsSound(draft.found)

LEMMA FeedbackIsSound ==
  ASSUME NEW r, DraftIsSound
  PROVE  AllSound("held", FeedbackValues, Feedback(r))
<1> DEFINE v == draft.feedback
           w == Feedback(r)
           t == FeedbackValues
           gone == {"prediction_actual_diff", "restriction_metrics", "ab_diff"}
<1>1. t.is = "message" /\ IsType(t, 5, "any")
  BY FeedbackValuesIsType, WiderType DEF FeedbackValues, Message
<1>2. \A f \in gone : f \in DOMAIN t.fields /\ t.fields[f].lack = "none"
  BY DEF FeedbackValues, Message, May
<1> HIDE DEF t
<1>3. /\ v = [f \in DOMAIN t.fields |-> v[f]]
      /\ \A f \in DOMAIN t.fields : HeldField(t.fields[f], v[f])
  BY <1>1, HeldMessage DEF DraftIsSound, t
<1>4. /\ w = [f \in DOMAIN v |-> w[f]]
      /\ \A f \in DOMAIN v : w[f] = v[f] \/ (f \in gone /\ w[f] = <<>>)
  BY DEF Feedback
<1> HIDE DEF v, w
<1>5. DOMAIN v = DOMAIN t.fields
  <2> DEFINE g == [f \in DOMAIN t.fields |-> v[f]]
  <2>1. DOMAIN g = DOMAIN t.fields
    OBVIOUS
  <2>2. v = g
    BY <1>3
  <2> HIDE DEF g
  <2> QED BY <2>1, <2>2
<1>6. ASSUME NEW f \in DOMAIN t.fields PROVE HeldField(t.fields[f], w[f])
  <2>1. CASE w[f] = v[f]
    BY <1>3, <2>1
  <2>2. CASE f \in gone /\ w[f] = <<>>
    BY <1>2, <2>2 DEF HeldField
  <2> QED BY <1>4, <1>5, <2>1, <2>2
<1>7. AllSound("held", t, w)
  <2>1. w = [f \in DOMAIN t.fields |-> w[f]]
    BY <1>4, <1>5
  <2> QED BY <1>1, <1>6, <2>1, HeldMessage
<1> QED BY <1>7 DEF w, t

\* The answer, field by field.
LEMMA ResponseParts ==
  ASSUME NEW v
  PROVE  AllSound("held", OptimizeResponse, v) <=>
           /\ v = [f \in DOMAIN OptimizeResponse.fields |-> v[f]]
           /\ HeldField(Must(Name), v.request_id) /\ HeldField(Must(Verdict), v.verdict)
           /\ HeldField(Must(DetectionState), v.updated_detection_state)
           /\ HeldField(Must(FeedbackValues), v.feedback_values)
           /\ HeldField(Must(Diagnostics), v.diagnostics)
           /\ HeldField(May(OptimizationResult), v.optimization_result)
           /\ HeldField(Plain(Elapsed), v.elapsed_ms)
<1> DEFINE fields == [request_id |-> Must(Name), verdict |-> Must(Verdict),
             updated_detection_state |-> Must(DetectionState),
             feedback_values |-> Must(FeedbackValues), diagnostics |-> Must(Diagnostics),
             optimization_result |-> May(OptimizationResult), elapsed_ms |-> Plain(Elapsed)]
<1>1. OptimizeResponse.is = "message" /\ OptimizeResponse.fields = fields
  BY DEF OptimizeResponse, Message
<1>2. AllSound("held", OptimizeResponse, v) <=>
        /\ v = [f \in DOMAIN OptimizeResponse.fields |-> v[f]]
        /\ \A f \in DOMAIN OptimizeResponse.fields : HeldField(OptimizeResponse.fields[f], v[f])
  BY <1>1, OptimizeResponseIsType, HeldMessage
<1>3. (\A f \in DOMAIN fields : HeldField(fields[f], v[f])) <=>
        /\ HeldField(Must(Name), v.request_id) /\ HeldField(Must(Verdict), v.verdict)
        /\ HeldField(Must(DetectionState), v.updated_detection_state)
        /\ HeldField(Must(FeedbackValues), v.feedback_values)
        /\ HeldField(Must(Diagnostics), v.diagnostics)
        /\ HeldField(May(OptimizationResult), v.optimization_result)
        /\ HeldField(Plain(Elapsed), v.elapsed_ms)
  OBVIOUS
<1> HIDE DEF fields
<1> QED BY <1>1, <1>2, <1>3

LEMMA ResponseIsSound ==
  ASSUME NEW r, AllSound("held", OptimizeRequest, r), DraftIsSound,
         NEW verdict \in Verdict.members, NEW memory
  PROVE  LET v == ResponseTo(r, verdict, memory)
         IN  /\ AllSound("held", DetectionState, memory) => AllSound("held", OptimizeResponse, v)
             /\ Writable(OptimizeResponse, v) <=> Writable(DetectionState, memory)
<1> DEFINE v == ResponseTo(r, verdict, memory)
<1>1. HeldField(Must(Name), v.request_id)
  <2>1. v.request_id = r.request_id
    BY DEF ResponseTo
  <2>2. r.request_id \notin Marks \cup {""}
    BY RequestParts
  <2> HIDE DEF v
  <2> QED BY <2>1, <2>2, HeldFields, HeldLeaf
<1>2. HeldField(Must(Verdict), v.verdict)
  <2>1. v.verdict = verdict
    BY DEF ResponseTo
  <2>2. AllSound("held", Verdict, verdict)
    BY HeldMember DEF Verdict, Enum, Marks
  <2> HIDE DEF v
  <2> QED BY <2>1, <2>2, HeldFields
<1>3. v.updated_detection_state = memory
  BY DEF ResponseTo
<1>4. HeldField(Must(FeedbackValues), v.feedback_values)
  <2>1. v.feedback_values = Feedback(r) \/ v.feedback_values = draft.blank
    BY DEF ResponseTo
  <2>2. AllSound("held", FeedbackValues, v.feedback_values)
    <3> HIDE DEF v
    <3> QED BY <2>1, FeedbackIsSound DEF DraftIsSound
  <2> HIDE DEF v
  <2> QED BY <2>2, HeldFields
<1>5. v.diagnostics = draft.diagnostics /\ HeldField(Must(Diagnostics), draft.diagnostics)
  BY HeldFields DEF ResponseTo, DraftIsSound
<1>6. HeldField(May(OptimizationResult), v.optimization_result)
  <2>1. v.optimization_result = <<draft.result>> \/ v.optimization_result = <<>>
    BY DEF ResponseTo
  <2>2. \A i \in DOMAIN <<draft.result>> : <<draft.result>>[i] = draft.result
    OBVIOUS
  <2>3. /\ HeldField(May(OptimizationResult), <<draft.result>>)
        /\ HeldField(May(OptimizationResult), <<>>)
    BY <2>2, HeldFields DEF DraftIsSound
  <2> HIDE DEF v
  <2> QED BY <2>1, <2>3
<1>7. HeldField(Plain(Elapsed), v.elapsed_ms)
  <2>1. v.elapsed_ms = "1"
    BY DEF ResponseTo
  <2>2. AllSound("held", Elapsed, "1")
    BY HeldLeaf DEF Marks
  <2> HIDE DEF v
  <2> QED BY <2>1, <2>2, HeldFields
<1>8. v = [f \in DOMAIN OptimizeResponse.fields |-> v[f]]
  BY DEF ResponseTo, OptimizeResponse, Message
<1> HIDE DEF v
<1>9. ASSUME AllSound("held", DetectionState, memory) PROVE AllSound("held", OptimizeResponse, v)
  <2>1. HeldField(Must(DetectionState), v.updated_detection_state)
    BY <1>3, <1>9, HeldFields
  <2> QED BY <1>1, <1>2, <1>4, <1>5, <1>6, <1>7, <1>8, <2>1, ResponseParts
<1>10. ASSUME Writable(DetectionState, memory) PROVE Writable(OptimizeResponse, v)
  <2>1. OptimizeResponse.is = "message"
    BY DEF OptimizeResponse, Message
  <2>2. IsType(Name, 0, "strict") /\ IsType(Verdict, 0, "strict") /\ IsType(Elapsed, 0, "strict")
    BY AtomTypes, EnumTypes
  <2>3. /\ WritableField(Must(Name), v.request_id) /\ WritableField(Must(Verdict), v.verdict)
        /\ WritableField(Must(FeedbackValues), v.feedback_values)
        /\ WritableField(May(OptimizationResult), v.optimization_result)
        /\ WritableField(Plain(Elapsed), v.elapsed_ms)
    BY <1>1, <1>2, <1>4, <1>6, <1>7, <2>2, FeedbackValuesIsType, OptimizationResultIsType,
       WritableFields
  <2>4. /\ WritableField(Must(DetectionState), v.updated_detection_state)
        /\ WritableField(Must(Diagnostics), v.diagnostics)
    BY <1>3, <1>5, <1>10 DEF WritableField, Must, DraftIsSound
  <2>5. \A f \in DOMAIN OptimizeResponse.fields : WritableField(OptimizeResponse.fields[f], v[f])
    BY <2>3, <2>4 DEF OptimizeResponse, Message
  <2> QED BY <2>1, <2>5, OptimizeResponseIsType, WritableMessage
<1>11. ASSUME Writable(OptimizeResponse, v) PROVE Writable(DetectionState, memory)
  <2> DEFINE f == "updated_detection_state"
  <2>1. /\ OptimizeResponse.is = "message" /\ f \in DOMAIN OptimizeResponse.fields
        /\ OptimizeResponse.fields[f].lack # "none"
        /\ OptimizeResponse.fields[f].type = DetectionState
    BY DEF OptimizeResponse, Message, Must
  <2>2. v[f] = memory
    BY <1>3
  <2> HIDE DEF f
  <2> QED BY <1>11, <2>1, <2>2, OptimizeResponseIsType, WritableOf
<1> QED BY <1>9, <1>10, <1>11 DEF v

-----------------------------------------------------------------------------
(* The next request. *)

\* A message on the wire, field by field.
LEMMA OnWire ==
  ASSUME NEW n, NEW t, IsType(t, n, "any"), t.is = "message",
         \A f \in DOMAIN t.fields : t.fields[f].lack # "default", NEW w
  PROVE  /\ AllSound("wire", t, w) <=>
              \A f \in DOMAIN t.fields :
                /\ t.fields[f].lack \in {"refused", "never"} => f \in DOMAIN w
                /\ f \in DOMAIN w => AllSound("wire", t.fields[f].type, w[f])
         /\ AllSound("wire", t, w) =>
              \A f \in DOMAIN t.fields : t.fields[f].lack \in {"refused", "never"} =>
                Read(t, w)[f] = Read(t.fields[f].type, w[f])
<1>1. PICK T : Grammar(T) /\ t \in T
  BY DEF IsType
<1>2. \A f \in DOMAIN t.fields : t.fields[f].lack \in {"refused", "none", "never"}
  BY <1>1 DEF Grammar
<1>3. Sound(<<"wire", t, w>>) <=>
        \A f \in DOMAIN t.fields : t.fields[f].lack \in {"refused", "never"} => f \in DOMAIN w
  BY DEF Sound, Possible, ReadableItself
<1>4. \A f \in DOMAIN t.fields :
        InField("wire", t.fields[f], f, w) = IF f \in DOMAIN w THEN {w[f]} ELSE {}
  BY DEF InField
<1>5. ASSUME AllSound("wire", t, w)
      PROVE  \A f \in DOMAIN t.fields :
               /\ t.fields[f].lack \in {"refused", "never"} => f \in DOMAIN w
               /\ f \in DOMAIN w => AllSound("wire", t.fields[f].type, w[f])
  <2>1. /\ Sound(<<"wire", t, w>>)
        /\ \A f \in DOMAIN t.fields : \A x \in InField("wire", t.fields[f], f, w) :
             AllSound("wire", t.fields[f].type, x)
    BY <1>5, FieldIsSound
  <2> QED BY <1>3, <1>4, <2>1
<1>6. ASSUME \A f \in DOMAIN t.fields :
               /\ t.fields[f].lack \in {"refused", "never"} => f \in DOMAIN w
               /\ f \in DOMAIN w => AllSound("wire", t.fields[f].type, w[f])
      PROVE  AllSound("wire", t, w)
  <2>1. \A f \in DOMAIN t.fields : \A x \in InField("wire", t.fields[f], f, w) :
          AllSound("wire", t.fields[f].type, x)
    BY <1>4, <1>6
  <2>2. Sound(<<"wire", t, w>>)
    BY <1>3, <1>6
  <2> QED BY <2>1, <2>2, MessageIsSound
<1>7. ASSUME AllSound("wire", t, w), NEW f \in DOMAIN t.fields,
             t.fields[f].lack \in {"refused", "never"}
      PROVE  Read(t, w)[f] = Read(t.fields[f].type, w[f])
  <2>1. Read(t, w) = [g \in DOMAIN t.fields |-> FieldRead(t.fields[g], g, w)]
    BY <1>1, <1>7, ConvRead
  <2>2. Read(t, w)[f] = FieldRead(t.fields[f], f, w)
    BY <2>1
  <2> QED BY <1>7, <2>2 DEF FieldRead
<1> QED BY <1>5, <1>6, <1>7

\* An answer and the request it belongs to make a request that is accepted.
LEMMA NextIsSound ==
  ASSUME AllSound("wire", OptimizeRequest, sent), Coherent(Read(OptimizeRequest, sent)),
         NEW held, AllSound("held", OptimizeResponse, held),
         AreTargets(held.updated_detection_state.warmup_states),
         NEW a, a = Written(OptimizeResponse, held),
         NEW next,
         LET rest   == [f \in (DOMAIN sent) \ {"previous_result"} |-> sent[f]]
             memory == [detection_state |-> a.updated_detection_state]
         IN  next = IF "optimization_result" \in DOMAIN a
                    THEN Together(Together(memory, [previous_result |-> a.optimization_result]), rest)
                    ELSE Together(memory, rest)
  PROVE  AllSound("wire", OptimizeRequest, next) /\ Coherent(Read(OptimizeRequest, next))
<1> DEFINE t == OptimizeRequest
           u == OptimizeResponse
<1>1. /\ t.is = "message" /\ u.is = "message"
      /\ \A f \in DOMAIN t.fields : t.fields[f].lack # "default"
      /\ \A f \in DOMAIN u.fields : u.fields[f].lack # "default"
  BY SMTT(20) DEF OptimizeRequest, OptimizeResponse, Message, Must, May, Plain, All
<1>2. IsType(t, 9, "any") /\ IsType(u, 6, "any")
  BY OptimizeRequestIsType, OptimizeResponseIsType
<1>3. /\ "detection_state" \in DOMAIN t.fields /\ t.fields["detection_state"] = Must(DetectionState)
      /\ "previous_result" \in DOMAIN t.fields /\ t.fields["previous_result"] = May(OptimizationResult)
      /\ "updated_detection_state" \in DOMAIN u.fields
      /\ u.fields["updated_detection_state"] = Must(DetectionState)
      /\ "optimization_result" \in DOMAIN u.fields
      /\ u.fields["optimization_result"] = May(OptimizationResult)
  BY DEF OptimizeRequest, OptimizeResponse, Message
<1>4. \A f \in {"graph", "observations", "history_digest", "config", "events", "detection_state"} :
        f \in DOMAIN t.fields /\ t.fields[f].lack \in {"refused", "never"}
  BY DEF OptimizeRequest, Message, Must, Plain, All
<1> HIDE DEF t, u
<1>5. AllSound("wire", u, a) /\ Read(u, a) = held
  BY <1>2, WrittenIsReadBack DEF u
<1>6. /\ "updated_detection_state" \in DOMAIN a
      /\ AllSound("wire", DetectionState, a.updated_detection_state)
      /\ held.updated_detection_state = Read(DetectionState, a.updated_detection_state)
      /\ "optimization_result" \in DOMAIN a => AllSound("wire", OptimizationResult, a.optimization_result)
  <2>1. /\ \A f \in DOMAIN u.fields :
             /\ u.fields[f].lack \in {"refused", "never"} => f \in DOMAIN a
             /\ f \in DOMAIN a => AllSound("wire", u.fields[f].type, a[f])
        /\ \A f \in DOMAIN u.fields : u.fields[f].lack \in {"refused", "never"} =>
             Read(u, a)[f] = Read(u.fields[f].type, a[f])
    BY <1>1, <1>2, <1>5, OnWire
  <2> QED BY <1>3, <1>5, <2>1 DEF Must, May
<1>7. \A f \in DOMAIN t.fields :
        /\ t.fields[f].lack \in {"refused", "never"} => f \in DOMAIN sent
        /\ f \in DOMAIN sent => AllSound("wire", t.fields[f].type, sent[f])
  BY <1>1, <1>2, OnWire DEF t
<1>8. /\ DOMAIN next \subseteq DOMAIN sent \cup {"detection_state", "previous_result"}
      /\ (DOMAIN sent) \ {"previous_result"} \subseteq DOMAIN next
      /\ "detection_state" \in DOMAIN next
      /\ next["detection_state"] = a.updated_detection_state
      /\ "previous_result" \in DOMAIN next =>
           "optimization_result" \in DOMAIN a /\ next["previous_result"] = a.optimization_result
      /\ \A f \in DOMAIN next : f \notin {"detection_state", "previous_result"} => next[f] = sent[f]
  <2> DEFINE rest   == [f \in (DOMAIN sent) \ {"previous_result"} |-> sent[f]]
             memory == [detection_state |-> a.updated_detection_state]
             result == [previous_result |-> a.optimization_result]
  <2>1. /\ DOMAIN rest = (DOMAIN sent) \ {"previous_result"}
        /\ \A f \in DOMAIN rest : rest[f] = sent[f]
    OBVIOUS
  <2>2. DOMAIN memory = {"detection_state"} /\ memory["detection_state"] = a.updated_detection_state
    OBVIOUS
  <2>3. DOMAIN result = {"previous_result"} /\ result["previous_result"] = a.optimization_result
    OBVIOUS
  <2>4. next = IF "optimization_result" \in DOMAIN a
               THEN Together(Together(memory, result), rest) ELSE Together(memory, rest)
    OBVIOUS
  <2> HIDE DEF rest, memory, result
  <2>6. CASE "optimization_result" \in DOMAIN a
    <3> DEFINE both == Together(memory, result)
    <3>1. /\ DOMAIN both = {"detection_state", "previous_result"}
          /\ both["detection_state"] = a.updated_detection_state
          /\ both["previous_result"] = a.optimization_result
      BY <2>2, <2>3 DEF Together
    <3>2. next = Together(both, rest)
      BY <2>4, <2>6
    <3> HIDE DEF both
    <3>3. /\ DOMAIN next = DOMAIN both \cup DOMAIN rest
          /\ \A x \in DOMAIN both \cup DOMAIN rest :
               next[x] = IF x \in DOMAIN both THEN both[x] ELSE rest[x]
      BY <3>2 DEF Together
    <3>4. /\ DOMAIN next = {"detection_state", "previous_result"} \cup DOMAIN sent
          /\ \A x \in DOMAIN sent : x \notin {"detection_state", "previous_result"} =>
               next[x] = sent[x]
      BY <2>1, <3>1, <3>3
    <3>5. next["detection_state"] = a.updated_detection_state
          /\ next["previous_result"] = a.optimization_result
      BY <3>1, <3>3
    <3> QED BY <2>6, <3>4, <3>5
  <2>7. CASE "optimization_result" \notin DOMAIN a
    <3>1. next = Together(memory, rest)
      BY <2>4, <2>7
    <3>2. /\ DOMAIN next = DOMAIN memory \cup DOMAIN rest
          /\ \A x \in DOMAIN memory \cup DOMAIN rest :
               next[x] = IF x \in DOMAIN memory THEN memory[x] ELSE rest[x]
      BY <3>1 DEF Together
    <3>3. DOMAIN next = {"detection_state"} \cup ((DOMAIN sent) \ {"previous_result"})
      BY <2>1, <2>2, <3>2
    <3>4. next["detection_state"] = a.updated_detection_state
      BY <2>2, <3>2
    <3>5. \A x \in DOMAIN next : x # "detection_state" => next[x] = sent[x]
      BY <2>1, <2>2, <3>2
    <3> QED BY <3>3, <3>4, <3>5
  <2> QED BY <2>6, <2>7
<1>9. AllSound("wire", t, next)
  <2>1. ASSUME NEW f \in DOMAIN t.fields, t.fields[f].lack \in {"refused", "never"}
        PROVE  f \in DOMAIN next
    <3>1. f # "previous_result"
      BY <1>3, <2>1 DEF May
    <3> QED BY <1>7, <1>8, <2>1, <3>1
  <2>2. ASSUME NEW f \in DOMAIN t.fields, f \in DOMAIN next
        PROVE  AllSound("wire", t.fields[f].type, next[f])
    <3>1. CASE f = "detection_state"
      BY <1>3, <1>6, <1>8, <3>1 DEF Must
    <3>2. CASE f = "previous_result"
      BY <1>3, <1>6, <1>8, <2>2, <3>2 DEF May
    <3>3. CASE f \notin {"detection_state", "previous_result"}
      BY <1>7, <1>8, <2>2, <3>3
    <3> QED BY <3>1, <3>2, <3>3
  <2> QED BY <1>1, <1>2, <2>1, <2>2, OnWire
<1>10. Coherent(Read(t, next))
  <2> DEFINE r == Read(t, sent)
             s == Read(t, next)
  <2>1. \A f \in {"graph", "observations", "history_digest", "config", "events", "detection_state"} :
          /\ r[f] = Read(t.fields[f].type, sent[f])
          /\ s[f] = Read(t.fields[f].type, next[f])
    <3>1. AllSound("wire", t, sent)
      BY DEF t
    <3>2. /\ \A f \in DOMAIN t.fields : t.fields[f].lack \in {"refused", "never"} =>
               Read(t, sent)[f] = Read(t.fields[f].type, sent[f])
          /\ \A f \in DOMAIN t.fields : t.fields[f].lack \in {"refused", "never"} =>
               Read(t, next)[f] = Read(t.fields[f].type, next[f])
      BY <1>1, <1>2, <1>9, <3>1, OnWire
    <3> QED BY <1>4, <3>2
  <2>2. \A f \in {"graph", "observations", "history_digest", "config", "events"} :
          next[f] = sent[f]
    <3>1. ASSUME NEW f \in {"graph", "observations", "history_digest", "config", "events"}
          PROVE  f \in DOMAIN next
      <4>1. f \in DOMAIN sent
        BY <1>4, <1>7
      <4>2. f # "previous_result"
        OBVIOUS
      <4> QED BY <1>8, <4>1, <4>2
    <3> QED BY <1>8, <3>1
  <2>3. s.detection_state = held.updated_detection_state
    BY <1>3, <1>6, <1>8, <2>1 DEF Must
  <2>4. Coherent(r)
    BY DEF t
  <2> HIDE DEF r, s
  <2>5. /\ s.graph = r.graph /\ s.observations = r.observations
        /\ s.history_digest = r.history_digest /\ s.config = r.config /\ s.events = r.events
    BY <2>1, <2>2
  <2>6. \A w \in Items(s.detection_state.warmup_states) : IsTarget(w.target_key)
    BY <2>3 DEF AreTargets
  <2>7. Coherent(s)
    BY <2>4, <2>5, <2>6 DEF Coherent
  <2> QED BY <2>7 DEF s
<1> QED BY <1>9, <1>10 DEF t

-----------------------------------------------------------------------------
(* The call. *)

\* The request that was accepted is what the message says.
RequestIsSound ==
  \A r \in request :
    AllSound("wire", OptimizeRequest, sent) /\ r = Read(OptimizeRequest, sent) /\ Coherent(r)

\* The cycle goes on as detection decided.
GoesOnAsDetected ==
  phase = "serving" /\ stage # "received" =>
    \A r \in request : stage = "no_trigger" <=> Detected(r, draft.found).verdict # "TRIGGERED"

\* What was answered says what was held, which remembers targets only.
ResponseIsKept ==
  \A held \in response, a \in answer :
    /\ AllSound("held", OptimizeResponse, held)
    /\ AreTargets(held.updated_detection_state.warmup_states)
    /\ a = Written(OptimizeResponse, held)

\* What is sent after the first answer is accepted.
NextIsAccepted ==
  round > 1 =>
    /\ phase # "refused"
    /\ phase = "sent" => /\ AllSound("wire", OptimizeRequest, sent)
                         /\ Coherent(Read(OptimizeRequest, sent))

\* Why there is no answer of a cycle that came to its end.
UnansweredForACause ==
  \A held \in response, r \in request : answer = {} =>
    LET queue == held.updated_detection_state.trigger_queue
    IN  \/ (\E t \in Items(queue) : Nameless(t)) /\ NamelessBefore(r)
        \/ held.verdict = "OPTIMIZED" /\ MaxBefore(r)
        \/ held.verdict \in {"QUEUED", "SKIPPED_TIME"} /\ Overflown(queue)

ServedInv ==
  /\ DraftIsSound /\ call.finalRetry \in BOOLEAN
  /\ \A p \in Parts("wire", OptimizeRequest, sent) : Possible(p[2], p[3])
  /\ phase = "sent" => stage = "received"
  /\ phase \in {"sent", "serving"} => response = {} /\ answer = {}
  /\ answer # {} => request # {} /\ response # {}
  /\ RequestIsSound /\ GoesOnAsDetected /\ ResponseIsKept /\ NextIsAccepted
  /\ UnansweredForACause

LEMMA HeldIsSound ==
  ASSUME NEW n, NEW t, IsType(t, n, "any"), NEW v,
         \A p \in Parts("held", t, v) : Proper(p[2], p[3]) /\ WritableItself(p[2], p[3])
  PROVE  AllSound("held", t, v) /\ Writable(t, v)
<1>1. PICK T : Grammar(T) /\ t \in T
  BY DEF IsType
<1>2. \A q \in Parts("held", t, v) : /\ q = <<"held", q[2], q[3]>> /\ q[2] \in T
                                     /\ q = <<"held", t, v>> \/ q[2].depth < t.depth
                                     /\ Inside(q) \subseteq Parts("held", t, v)
  BY <1>1, PartsFacts
<1> QED BY <1>2 DEF AllSound, Sound, Writable

LEMMA ServedInitInv == ServedInit => ServedInv
<1> SUFFICES ASSUME ServedInit PROVE ServedInv
  OBVIOUS
<1>1. PICK case \in Cases :
        /\ phase = "sent" /\ sent = case.message /\ draft = case.draft
        /\ request = {} /\ response = {} /\ answer = {} /\ round = 1
        /\ call = case.call /\ stage = "received"
  BY DEF ServedInit, ForecastInit, ClockInit
<1>2. \A p \in Parts("wire", OptimizeRequest, sent) : Possible(p[2], p[3])
  BY <1>1, CasesAssumption
<1>3. /\ \A p \in Parts("held", OptimizationResult, draft.result) :
           Proper(p[2], p[3]) /\ WritableItself(p[2], p[3])
      /\ \A p \in Parts("held", FeedbackValues, draft.feedback) :
           Proper(p[2], p[3]) /\ WritableItself(p[2], p[3])
      /\ \A p \in Parts("held", FeedbackValues, draft.blank) :
           Proper(p[2], p[3]) /\ WritableItself(p[2], p[3])
      /\ \A p \in Parts("held", Diagnostics, draft.diagnostics) :
           Proper(p[2], p[3]) /\ WritableItself(p[2], p[3])
  <2>1. \A drafted \in {<<OptimizationResult, draft.result>>, <<FeedbackValues, draft.feedback>>,
                        <<FeedbackValues, draft.blank>>, <<Diagnostics, draft.diagnostics>>} :
          \A p \in Parts("held", drafted[1], drafted[2]) :
            Proper(p[2], p[3]) /\ WritableItself(p[2], p[3])
    BY <1>1, CasesAssumption
  <2>2. ASSUME NEW t, NEW v,
               <<t, v>> \in {<<OptimizationResult, draft.result>>, <<FeedbackValues, draft.feedback>>,
                             <<FeedbackValues, draft.blank>>, <<Diagnostics, draft.diagnostics>>}
        PROVE  \A p \in Parts("held", t, v) : Proper(p[2], p[3]) /\ WritableItself(p[2], p[3])
    <3>1. <<t, v>>[1] = t /\ <<t, v>>[2] = v
      OBVIOUS
    <3> QED BY <2>1, <2>2, <3>1
  <2> QED BY <2>2
<1>4. FoundIsSound(draft.found)
  <2>1. /\ IsFiniteSet(draft.found.fired) /\ IsFiniteSet(draft.found.watched)
        /\ \A f \in draft.found.fired :
             f.kind \in {"HIGH_STAGNATION", "PUNCTURE"} /\ f.score \notin Marks \ {"NaN"}
    BY <1>1, CasesAssumption
  <2>2. ASSUME NEW w \in draft.found.watched PROVE AllSound("held", ArcWatchState, w)
    <3>1. \A p \in Parts("held", ArcWatchState, w) : Proper(p[2], p[3]) /\ WritableItself(p[2], p[3])
      BY <1>1, CasesAssumption
    <3>2. IsType(ArcWatchState, 1, "any")
      BY ArcWatchStateIsType, WiderType
    <3> QED BY <3>1, <3>2, HeldIsSound
  <2> QED BY <2>1, <2>2 DEF FoundIsSound
<1>5. DraftIsSound
  <2>1. /\ IsType(OptimizationResult, 4, "any") /\ IsType(FeedbackValues, 5, "any")
        /\ IsType(Diagnostics, 5, "any")
    BY OptimizationResultIsType, FeedbackValuesIsType, DiagnosticsIsType, WiderType
  <2> QED BY <1>3, <1>4, <2>1, HeldIsSound DEF DraftIsSound
<1>6. call.finalRetry \in BOOLEAN
  BY <1>1, CasesAssumption, ClockAssumption
<1> QED BY <1>1, <1>2, <1>5, <1>6
    DEF ServedInv, RequestIsSound, GoesOnAsDetected, ResponseIsKept, NextIsAccepted,
        UnansweredForACause

LEMMA ReceiveInv == ASSUME ServedInv, Receive PROVE ServedInv'
<1> DEFINE r == Read(OptimizeRequest, sent)
           accepted == Readable(OptimizeRequest, sent) /\ Coherent(r)
<1>1. /\ phase' = IF accepted THEN "serving" ELSE "refused"
      /\ request' = IF accepted THEN {r} ELSE {}
      /\ phase = "sent" /\ stage' = stage /\ call' = call
      /\ sent' = sent /\ draft' = draft /\ response' = response /\ answer' = answer /\ round' = round
  BY DEF Receive, forecastVars, clockVars
<1>2. /\ DraftIsSound' /\ call'.finalRetry \in BOOLEAN
      /\ (\A p \in Parts("wire", OptimizeRequest, sent) : Possible(p[2], p[3]))'
  BY <1>1 DEF ServedInv, DraftIsSound
<1>3. ASSUME accepted PROVE AllSound("wire", OptimizeRequest, sent)
  BY <1>3, OptimizeRequestIsType, ReadableIsSound DEF ServedInv
<1>4. RequestIsSound'
  BY <1>1, <1>3 DEF RequestIsSound
<1>5. stage' = "received" /\ response' = {} /\ answer' = {}
  BY <1>1 DEF ServedInv
<1>6. NextIsAccepted'
  <2>1. ASSUME round > 1 PROVE accepted
    <3>1. AllSound("wire", OptimizeRequest, sent) /\ Coherent(r)
      BY <1>1, <2>1 DEF ServedInv, NextIsAccepted
    <3>2. Readable(OptimizeRequest, sent)
      BY <3>1, OptimizeRequestIsType, SoundIsReadable
    <3> QED BY <3>1, <3>2
  <2> QED BY <1>1, <2>1 DEF NextIsAccepted
<1>7. GoesOnAsDetected' /\ ResponseIsKept' /\ UnansweredForACause'
  BY <1>5 DEF GoesOnAsDetected, ResponseIsKept, UnansweredForACause
<1> QED BY <1>1, <1>2, <1>4, <1>5, <1>6, <1>7 DEF ServedInv

\* Detection is the first step, and what comes next is settled there.
LEMMA ServeInv == ASSUME ServedInv, Serve PROVE ServedInv'
<1>1. /\ phase = "serving" /\ call' = call
      /\ UNCHANGED <<phase, sent, request, draft, response, answer, round>>
  BY DEF Serve, CycleStep, DoForecast, DetectNothing, Detect, Detour, GiveBudget, Solve, Step
<1>2. GoesOnAsDetected'
  <2>1. CASE stage = "received"
    BY <1>1, <2>1 DEF Serve, GoesOnAsDetected
  <2>2. CASE stage # "received"
    <3>1. stage # "no_trigger" /\ stage' # "no_trigger"
      BY <2>2 DEF Serve, CycleStep, DoForecast, DetectNothing, Detect, Detour, GiveBudget, Solve, Step
    <3> QED BY <1>1, <2>2, <3>1 DEF ServedInv, GoesOnAsDetected
  <2> QED BY <2>1, <2>2
<1>3. RequestIsSound' /\ ResponseIsKept' /\ NextIsAccepted' /\ UnansweredForACause' /\ DraftIsSound'
  BY <1>1 DEF ServedInv, RequestIsSound, ResponseIsKept, NextIsAccepted, UnansweredForACause,
              DraftIsSound
<1> QED BY <1>1, <1>2, <1>3 DEF ServedInv

\* The memory of the answer, whatever the verdict.
LEMMA MemoryIsNear ==
  ASSUME ServedInv, phase = "serving", NEW r \in request, NEW verdict \in Verdicts(r)
  PROVE  LET m == Memory(r, verdict)
         IN  /\ verdict \in Verdict.members /\ NearMemory(m, r)
             /\ Overflown(m.trigger_queue) => verdict \in {"QUEUED", "SKIPPED_TIME"}
             /\ Outgrown(m.arc_retrigger_counts) => verdict = "OPTIMIZED" /\ MaxBefore(r)
<1> DEFINE d == Detected(r, draft.found)
<1>1. Accepted(r)
  <2>1. AllSound("wire", OptimizeRequest, sent) /\ r = Read(OptimizeRequest, sent) /\ Coherent(r)
    BY DEF ServedInv, RequestIsSound
  <2> QED BY <2>1, OptimizeRequestIsType, ReadIsClean DEF Accepted
<1>2. FoundIsSound(draft.found) /\ call.finalRetry \in BOOLEAN
  BY DEF ServedInv, DraftIsSound
<1>3. CASE verdict \in {"ERROR_INVALID_INPUT", "ERROR_SIZE_EXCEEDED"}
  <2>1. Memory(r, verdict) = r.detection_state
    BY <1>3 DEF Memory
  <2>2. verdict \in Verdict.members
    BY <1>3 DEF Verdict, Enum
  <2> QED BY <1>1, <2>1, <2>2, MemoryBefore
<1>4. CASE verdict \notin {"ERROR_INVALID_INPUT", "ERROR_SIZE_EXCEEDED"}
  <2>1. /\ d.verdict \in {"TRIGGERED", "QUEUED", "SKIPPED_COOLDOWN", "SKIPPED_NO_TRIGGER",
                          "SKIPPED_WARMUP"}
    BY <1>1, <1>2, DetectedIsNear
  <2>2. stage # "received" => (stage = "no_trigger" <=> d.verdict # "TRIGGERED")
    BY DEF ServedInv, GoesOnAsDetected
  <2>3. \/ stage = "no_trigger" /\ verdict = d.verdict
        \/ stage = "skipped" /\ verdict = "SKIPPED_TIME"
        \/ stage = "optimized" /\ verdict = "OPTIMIZED"
    <3> HIDE DEF d
    <3> QED BY <1>4 DEF Verdicts, d
  <2> HIDE DEF d
  <2>4. EndsAs(d, verdict)
    BY <2>1, <2>2, <2>3 DEF EndsAs
  <2>5. verdict \in Verdict.members
    BY <2>1, <2>2, <2>3 DEF Verdict, Enum
  <2>6. Memory(r, verdict) = Finalized(r, d, verdict, call.finalRetry)
    BY <1>4 DEF Memory, d
  <2> QED BY <1>1, <1>2, <2>4, <2>5, <2>6, FinalizedIsNear DEF d
<1> QED BY <1>3, <1>4

LEMMA ReplyInv == ASSUME ServedInv, Reply PROVE ServedInv'
<1>1. PICK r \in request : \E verdict \in Verdicts(r) :
        LET held == ResponseTo(r, verdict, Memory(r, verdict))
            fits == Writable(OptimizeResponse, held)
        IN  /\ response' = {held}
            /\ phase' = IF fits THEN "answered" ELSE "internal"
            /\ answer' = IF fits THEN {Written(OptimizeResponse, held)} ELSE {}
  BY DEF Reply
<1>2. PICK verdict \in Verdicts(r) :
        LET held == ResponseTo(r, verdict, Memory(r, verdict))
            fits == Writable(OptimizeResponse, held)
        IN  /\ response' = {held}
            /\ phase' = IF fits THEN "answered" ELSE "internal"
            /\ answer' = IF fits THEN {Written(OptimizeResponse, held)} ELSE {}
  BY <1>1
<1> DEFINE memory == Memory(r, verdict)
           held == ResponseTo(r, verdict, memory)
<1>3. /\ response' = {held}
      /\ phase' = IF Writable(OptimizeResponse, held) THEN "answered" ELSE "internal"
      /\ answer' = IF Writable(OptimizeResponse, held) THEN {Written(OptimizeResponse, held)} ELSE {}
  BY <1>2
<1>4. /\ phase = "serving" /\ call' = call
      /\ sent' = sent /\ request' = request /\ draft' = draft /\ round' = round
  BY DEF Reply, forecastVars, clockVars
<1>5. /\ verdict \in Verdict.members /\ NearMemory(memory, r)
      /\ Overflown(memory.trigger_queue) => verdict \in {"QUEUED", "SKIPPED_TIME"}
      /\ Outgrown(memory.arc_retrigger_counts) => verdict = "OPTIMIZED" /\ MaxBefore(r)
  BY <1>4, MemoryIsNear
<1>6. held.updated_detection_state = memory /\ held.verdict = verdict
  BY DEF ResponseTo
<1>7. AllSound("held", OptimizeRequest, r)
  <2>1. AllSound("wire", OptimizeRequest, sent) /\ r = Read(OptimizeRequest, sent)
    BY DEF ServedInv, RequestIsSound
  <2> QED BY <2>1, OptimizeRequestIsType, ReadIsClean
<1> HIDE DEF memory
<1>8. /\ AllSound("held", DetectionState, memory) => AllSound("held", OptimizeResponse, held)
      /\ Writable(OptimizeResponse, held) <=> Writable(DetectionState, memory)
  <2>1. DraftIsSound
    BY DEF ServedInv
  <2> QED BY <1>5, <1>7, <2>1, ResponseIsSound
<1> HIDE DEF held
<1>9. /\ DraftIsSound' /\ call'.finalRetry \in BOOLEAN
      /\ (\A p \in Parts("wire", OptimizeRequest, sent) : Possible(p[2], p[3]))'
      /\ RequestIsSound'
  BY <1>4 DEF ServedInv, DraftIsSound, RequestIsSound
<1>10. ResponseIsKept'
  <2>1. AreTargets(memory.warmup_states)
    BY <1>5 DEF NearMemory
  <2>2. ASSUME Writable(OptimizeResponse, held) PROVE AllSound("held", OptimizeResponse, held)
    BY <1>5, <1>8, <2>2, WritableIsSound
  <2> QED BY <1>3, <1>6, <2>1, <2>2 DEF ResponseIsKept
<1>11. UnansweredForACause'
  <2> SUFFICES ASSUME ~Writable(DetectionState, memory)
               PROVE  \/ (\E t \in Items(memory.trigger_queue) : Nameless(t)) /\ NamelessBefore(r)
                      \/ verdict = "OPTIMIZED" /\ MaxBefore(r)
                      \/ verdict \in {"QUEUED", "SKIPPED_TIME"} /\ Overflown(memory.trigger_queue)
    <3>1. request' = {r}
      BY <1>4 DEF ServedInv, RequestIsSound
    <3> QED BY <1>3, <1>6, <1>8, <3>1 DEF UnansweredForACause
  <2>1. CASE Overflown(memory.trigger_queue)
    BY <1>5, <2>1
  <2>2. CASE Outgrown(memory.arc_retrigger_counts)
    BY <1>5, <2>2
  <2>3. CASE ~Overflown(memory.trigger_queue) /\ ~Outgrown(memory.arc_retrigger_counts)
    <3>1. AllSound("held", DetectionState, memory)
      BY <1>5, <2>3, NearIsSound
    <3>2. PICK t \in Items(memory.trigger_queue) : Nameless(t)
      BY <3>1, MemoryIsWritable
    <3>3. NamelessBefore(r)
      <4>1. NearQueue(memory.trigger_queue, r)
        BY <1>5 DEF NearMemory
      <4> QED BY <3>2, <4>1, ItemsAreFinite DEF NearQueue
    <3> QED BY <3>2, <3>3
  <2> QED BY <2>1, <2>2, <2>3
<1>12. NextIsAccepted' /\ GoesOnAsDetected'
  BY <1>3 DEF NextIsAccepted, GoesOnAsDetected
<1>13. phase' \notin {"sent", "serving"} /\ request' # {} /\ response' # {}
  BY <1>3, <1>4
<1> QED BY <1>9, <1>10, <1>11, <1>12, <1>13 DEF ServedInv

LEMMA EndInv == ASSUME ServedInv, NEW end \in {"internal", "abandoned"}, EndAs(end) PROVE ServedInv'
<1>1. /\ phase = "serving" /\ phase' = end /\ request' = {} /\ call' = call
      /\ sent' = sent /\ draft' = draft /\ response' = response /\ answer' = answer /\ round' = round
  BY DEF EndAs, forecastVars, clockVars
<1>2. answer = {}
  BY <1>1 DEF ServedInv
<1> QED BY <1>1, <1>2
    DEF ServedInv, DraftIsSound, RequestIsSound, GoesOnAsDetected, ResponseIsKept, NextIsAccepted,
        UnansweredForACause

LEMMA SendNextInv == ASSUME ServedInv, SendNext PROVE ServedInv'
<1>1. PICK a \in answer :
        LET rest   == [f \in (DOMAIN sent) \ {"previous_result"} |-> sent[f]]
            memory == [detection_state |-> a.updated_detection_state]
        IN  sent' = IF "optimization_result" \in DOMAIN a
                    THEN Together(Together(memory, [previous_result |-> a.optimization_result]), rest)
                    ELSE Together(memory, rest)
  BY DEF SendNext
<1>2. /\ phase' = "sent" /\ request' = {} /\ response' = {} /\ answer' = {} /\ draft' = draft
      /\ stage' = "received" /\ call' = call
  BY DEF SendNext, NextCall
<1>3. PICK r \in request : TRUE
  BY DEF ServedInv
<1>4. PICK held \in response : TRUE
  BY DEF ServedInv
<1>5. AllSound("wire", OptimizeRequest, sent) /\ Coherent(Read(OptimizeRequest, sent))
  BY <1>3 DEF ServedInv, RequestIsSound
<1>6. /\ AllSound("held", OptimizeResponse, held)
      /\ AreTargets(held.updated_detection_state.warmup_states)
      /\ a = Written(OptimizeResponse, held)
  BY <1>4 DEF ServedInv, ResponseIsKept
<1>7. AllSound("wire", OptimizeRequest, sent') /\ Coherent(Read(OptimizeRequest, sent'))
  BY <1>1, <1>5, <1>6, NextIsSound
<1>8. \A p \in Parts("wire", OptimizeRequest, sent') : Possible(p[2], p[3])
  BY <1>7, OptimizeRequestIsType, SoundIsReadable
<1>9. DraftIsSound' /\ call'.finalRetry \in BOOLEAN
  BY <1>2 DEF ServedInv, DraftIsSound
<1>10. NextIsAccepted'
  BY <1>2, <1>7 DEF NextIsAccepted
<1> QED BY <1>2, <1>8, <1>9, <1>10
    DEF ServedInv, RequestIsSound, GoesOnAsDetected, ResponseIsKept, UnansweredForACause

LEMMA ServedNextInv == ServedInv /\ [ServedNext]_servedVars => ServedInv'
<1> SUFFICES ASSUME ServedInv, [ServedNext]_servedVars PROVE ServedInv'
  OBVIOUS
<1>1. CASE Receive
  BY <1>1, ReceiveInv
<1>2. CASE Serve
  BY <1>2, ServeInv
<1>3. CASE Reply
  BY <1>3, ReplyInv
<1>4. CASE Fail
  BY <1>4, EndInv DEF Fail
<1>5. CASE Abandon
  BY <1>5, EndInv DEF Abandon
<1>6. CASE SendNext
  BY <1>6, SendNextInv
<1>7. CASE UNCHANGED servedVars
  BY <1>7 DEF servedVars, forecastVars, clockVars, ServedInv, DraftIsSound, RequestIsSound,
              GoesOnAsDetected, ResponseIsKept, NextIsAccepted, UnansweredForACause
<1> QED BY <1>1, <1>2, <1>3, <1>4, <1>5, <1>6, <1>7 DEF ServedNext

(* Whatever the caller sends, the request that is accepted holds no number   *)
(* that is not finite, no date outside the calendar and no member that does  *)
(* not exist, in any of its fields (decode_request).                         *)
THEOREM AcceptedRequestIsClean == ServedSpec => []AcceptedIsClean
<1>1. ServedInv => AcceptedIsClean
  BY OptimizeRequestIsType, ReadIsClean DEF ServedInv, RequestIsSound, AcceptedIsClean
<1> QED BY ServedInitInv, ServedNextInv, <1>1, PTL DEF ServedSpec

(* Whatever the caller sends, an answer is read back as it was held and the  *)
(* request made of it is accepted; when the cycle has come to its end and    *)
(* its answer cannot be written, then for a trigger of an empty origin, a    *)
(* count that was at its limit or a score that has overflown                 *)
(* (encode_response, decode_request, finalize_detection_state).              *)
THEOREM StateOutlivesTheCall == ServedSpec => []StateSurvives
<1>1. ServedInv => StateSurvives
  <2> SUFFICES ASSUME ServedInv PROVE StateSurvives
    OBVIOUS
  <2>1. ASSUME NEW held \in response, NEW a \in answer
        PROVE  Readable(OptimizeResponse, a) /\ Read(OptimizeResponse, a) = held
    <3>1. AllSound("held", OptimizeResponse, held) /\ a = Written(OptimizeResponse, held)
      BY DEF ServedInv, ResponseIsKept
    <3> QED BY <3>1, OptimizeResponseIsType, WrittenIsReadBack
  <2>2. round > 1 => phase # "refused"
    BY DEF ServedInv, NextIsAccepted
  <2>3. UnansweredForACause
    BY DEF ServedInv
  <2> QED BY <2>1, <2>2, <2>3
      DEF UnansweredForACause, Nameless, NamelessBefore, MaxBefore, Overflown, StateSurvives
<1> QED BY ServedInitInv, ServedNextInv, <1>1, PTL DEF ServedSpec

-----------------------------------------------------------------------------
(* The figures. *)

(* Every call from the wire is a call about a site: what holds of the        *)
(* figures of a call holds of it (_run, handle_request).                     *)
THEOREM ServedCallsForecast == ServedSpec => ForecastSpec
<1>1. ServedInit => ForecastInit
  BY DEF ServedInit
<1>2. [ServedNext]_servedVars => [ForecastNext]_forecastVars
  BY DEF ServedNext, Receive, Serve, Reply, Fail, Abandon, EndAs, SendNext, ForecastNext, servedVars
<1> QED BY <1>1, <1>2, PTL DEF ServedSpec, ForecastSpec

(* A result found within its budget is answered, whatever the request says.  *)
THEOREM ServedBudgetIsKept == ServedSpec => []KeptBudgetIsAnswered
BY ServedCallsForecast, EveryBudgetIsKept, PTL

(* Nobody is invented, whatever the request says (_ipf, _forward_propagate). *)
THEOREM ServedMatrixInventsNobody == ServedSpec => []NobodyIsInvented
BY ServedCallsForecast, MatrixInventsNobody, PTL

(* What is filled in balances, whatever the request says                     *)
(* (_impute_missing_flows).                                                  *)
THEOREM ServedImputationIsBalanced == ServedSpec => []ImputationBalances
BY ServedCallsForecast, ImputationIsBalanced, PTL
=============================================================================
