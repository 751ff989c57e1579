------------------------ MODULE FieldControls_proofs ------------------------
(***************************************************************************)
(* What stands closed or paused in the field follows what the answers say, *)
(* for any situations that satisfy SituationsAssumption.                   *)
(***************************************************************************)
EXTENDS FieldControls, Operators_proofs

AllNodes == UNION {DOMAIN s.g.node : s \in Situations}
AllEdges == UNION {DOMAIN s.g.edge : s \in Situations}

\* A list of proposals that speaks of each passage at most once.
Restricting(list) ==
  /\ list \in Seq(ToSet(list))
  /\ \A i \in DOMAIN list : list[i].edge \in AllEdges
  /\ \A i, j \in DOMAIN list : i # j => list[i].edge # list[j].edge

Controlling(boundary) == boundary \subseteq AllNodes \X (Pauses \cup {"RESUME"})

\* Answers are well formed, the answer sent along is the last one, and its
\* restrictions and pauses stand.  What it passes over is remembered:
\* unbroken says that nothing else is restricted, strayed names the nodes
\* that are paused without its word.
IInv ==
  /\ TypeOK
  /\ answer = previous
  /\ Restricting(previous.restrictions)
  /\ Controlling(previous.boundary)
  /\ Edges(previous.restrictions) \subseteq restricted
  /\ unbroken => restricted = Edges(previous.restrictions)
  /\ kind = "SEARCH" => Edges(answer.restrictions) = Edges(situation.zonal)
  /\ \A c \in previous.boundary : c[2] \in Pauses => c \in paused
  /\ \A n \in PausedNodes \ strayed : \E d \in Pauses : <<n, d>> \in previous.boundary

-----------------------------------------------------------------------------
(* Lists of proposals                                                      *)

LEMMA EdgesOf ==
  ASSUME NEW list
  PROVE  /\ Edges(list) = {list[i].edge : i \in {j \in DOMAIN list : list[j].action # "RESUME"}}
         /\ Resumed(list) = {list[i].edge : i \in {j \in DOMAIN list : list[j].action = "RESUME"}}
  BY DEF Edges, Resumed, ToSet

LEMMA EdgesAreNumbers == AllEdges \subseteq Nat
  BY SituationsAssumption DEF AllEdges

\* What places in a finite list say of passages is a finite set.
LEMMA FinitelyManyEdges ==
  ASSUME NEW list, NEW n \in Nat, DOMAIN list = 1 .. n, NEW chosen \in SUBSET (1 .. n)
  PROVE  IsFiniteSet({list[i].edge : i \in chosen})
<1> DEFINE image == {list[i].edge : i \in chosen}
           f     == [i \in chosen |-> list[i].edge]
<1>1. IsFiniteSet(chosen)
  <2>1. IsFiniteSet(1 .. n)
    BY FS_Interval
  <2> QED BY <2>1, FS_Subset
<1>2. f \in Surjection(chosen, image)
  BY DEF Surjection
<1> QED BY <1>1, <1>2, FS_Surjection

\* build_resume_proposals takes back, once each, the passages that stood
\* restricted in the previous answer and are not restricted now.
LEMMA ResumeFacts ==
  ASSUME NEW list, Restricting(list), NEW taken
  PROVE  LET r == BuildResume(list, taken)
         IN  /\ \E n \in Nat : DOMAIN r = 1 .. n
             /\ \A i \in DOMAIN r : r[i].action = "RESUME"
             /\ {r[i].edge : i \in DOMAIN r} = Edges(list) \ taken
             /\ \A i, j \in DOMAIN r : i # j => r[i].edge # r[j].edge
             /\ r = [i \in DOMAIN r |-> r[i]]
<1> DEFINE chosen == {i \in DOMAIN list : list[i].action # "RESUME" /\ list[i].edge \notin taken}
           named  == {list[i].edge : i \in chosen}
           q      == InOrder(named)
           r      == BuildResume(list, taken)
<1>1. PICK n \in Nat : DOMAIN list = 1 .. n
  BY DEF Restricting
<1>2. IsFiniteSet(named)
  BY <1>1, FinitelyManyEdges
<1>3. named \subseteq Nat
  BY EdgesAreNumbers DEF Restricting
<1>4. named = Edges(list) \ taken
  BY EdgesOf
<1> DEFINE First(e) == list[Min({i \in chosen : list[i].edge = e})]
<1>5. r = [i \in DOMAIN q |-> Proposal(q[i], "RESUME", {}, First(q[i]).reason)]
  BY DEF BuildResume, ResumesOf
<1> HIDE DEF First, named, chosen
<1>6. /\ DOMAIN q = 1 .. Cardinality(named)
      /\ Cardinality(named) \in Nat
      /\ {q[i] : i \in DOMAIN q} = named
      /\ \A i, j \in DOMAIN q : q[i] = q[j] => i = j
  BY <1>2, <1>3, InOrderFacts
<1> HIDE DEF q, r
<1>7. DOMAIN r = DOMAIN q /\ \A i \in DOMAIN q : r[i].edge = q[i] /\ r[i].action = "RESUME"
  BY <1>5 DEF Proposal
<1>8. {r[i].edge : i \in DOMAIN r} = named
  BY <1>6, <1>7
<1>9. r = [i \in DOMAIN r |-> r[i]]
  BY <1>5
<1>10. /\ \E m \in Nat : DOMAIN r = 1 .. m
       /\ \A i \in DOMAIN r : r[i].action = "RESUME"
       /\ {r[i].edge : i \in DOMAIN r} = Edges(list) \ taken
       /\ \A i, j \in DOMAIN r : i # j => r[i].edge # r[j].edge
       /\ r = [i \in DOMAIN r |-> r[i]]
  BY <1>4, <1>6, <1>7, <1>8, <1>9
<1> QED BY <1>10 DEF r

\* An answer that closes or limits now and takes back the rest: what it
\* restricts, what it resumes, and that it speaks of a passage once.
LEMMA AnswerFacts ==
  ASSUME NEW s \in Situations, NEW list, Restricting(list)
  PROVE  LET a == WithResumes(list, s.zonal)
         IN  /\ Restricting(a)
             /\ Edges(a) = Edges(s.zonal)
             /\ Resumed(a) = Edges(list) \ Edges(s.zonal)
<1> DEFINE now   == s.zonal
           taken == {now[i].edge : i \in DOMAIN now}
           r     == BuildResume(list, taken)
           a     == WithResumes(list, now)
<1>1. /\ now \in Seq(ToSet(now))
      /\ \A i, j \in DOMAIN now : i # j => now[i].edge # now[j].edge
      /\ \A i \in DOMAIN now : now[i].edge \in AllEdges /\ now[i].action # "RESUME"
  BY SituationsAssumption DEF AllEdges, ToSet
<1>2. a = now \o r
  BY DEF WithResumes
<1> HIDE DEF taken
<1>3. /\ \E n \in Nat : DOMAIN r = 1 .. n
      /\ \A i \in DOMAIN r : r[i].action = "RESUME"
      /\ {r[i].edge : i \in DOMAIN r} = Edges(list) \ taken
      /\ \A i, j \in DOMAIN r : i # j => r[i].edge # r[j].edge
      /\ r = [i \in DOMAIN r |-> r[i]]
  BY ResumeFacts
<1> HIDE DEF r
<1>4. taken = Edges(now)
  BY <1>1, EdgesOf DEF taken
<1>5. \A i \in DOMAIN list : list[i].edge \in AllEdges
  BY DEF Restricting
<1>6. Edges(list) \subseteq AllEdges
  BY <1>5, EdgesOf
<1>7. \A i \in DOMAIN r : r[i].edge \in AllEdges /\ r[i].edge \notin taken
  BY <1>3, <1>6
<1> HIDE DEF now, taken, a
<1> DEFINE All == ToSet(now) \cup ToSet(r)
<1>8. now \in Seq(All) /\ r \in Seq(All)
  <2>1. \A i \in DOMAIN now : now[i] \in All
    BY DEF ToSet
  <2>2. \A i \in DOMAIN r : r[i] \in All
    BY DEF ToSet
  <2>3. PICK n \in Nat : DOMAIN r = 1 .. n
    BY <1>3
  <2> HIDE DEF All
  <2>4. r \in [1 .. n -> All]
    BY <1>3, <2>2, <2>3
  <2>5. now \in Seq(All)
    BY <1>1, <2>1
  <2> QED BY <2>4, <2>5
<1> HIDE DEF All
<1>9. /\ a \in Seq(All)
      /\ DOMAIN a = 1 .. Len(now) + Len(r)
      /\ DOMAIN now = 1 .. Len(now) /\ DOMAIN r = 1 .. Len(r)
      /\ Len(now) \in Nat /\ Len(r) \in Nat
      /\ \A i \in DOMAIN now : a[i] = now[i]
      /\ \A i \in DOMAIN r : a[Len(now) + i] = r[i]
      /\ \A i \in DOMAIN a : i \in DOMAIN now \/ (i - Len(now) \in DOMAIN r /\ a[i] = r[i - Len(now)])
  BY <1>2, <1>8
<1>10. \A i \in DOMAIN a : a[i].edge \in AllEdges
  BY <1>1, <1>7, <1>9
<1>11. \A i \in DOMAIN now : now[i].edge \in taken
  BY DEF taken
<1>12. \A i, j \in DOMAIN a : i # j => a[i].edge # a[j].edge
  <2> SUFFICES ASSUME NEW i \in DOMAIN a, NEW j \in DOMAIN a, i < j
               PROVE  a[i].edge # a[j].edge
    BY <1>9
  <2>1. CASE i \in DOMAIN now /\ j \in DOMAIN now
    BY <1>1, <1>9, <2>1
  <2>2. CASE i \in DOMAIN now /\ j \notin DOMAIN now
    BY <1>7, <1>9, <1>11, <2>2
  <2>3. CASE i \notin DOMAIN now
    <3>1. j \notin DOMAIN now
      BY <1>9, <2>3
    <3> QED BY <1>3, <1>9, <2>3, <3>1
  <2> QED BY <2>1, <2>2, <2>3
<1>13. a \in Seq(ToSet(a))
  <2>1. \A i \in DOMAIN a : a[i] \in ToSet(a)
    BY DEF ToSet
  <2> QED BY <1>9, <2>1
<1>14. Restricting(a)
  BY <1>10, <1>12, <1>13 DEF Restricting
<1>15. Edges(a) = Edges(now)
  <2>1. \A i \in DOMAIN a : a[i].action # "RESUME" => i \in DOMAIN now
    BY <1>3, <1>9
  <2>2. DOMAIN now \subseteq DOMAIN a
    BY <1>9
  <2>3. \A i \in DOMAIN now : a[i] = now[i] /\ now[i].action # "RESUME"
    BY <1>1, <1>9
  <2>4. \A i \in DOMAIN a : a[i].action # "RESUME" => i \in DOMAIN now /\ a[i] = now[i]
    BY <2>1, <2>3
  <2>5. Edges(a) \subseteq Edges(now)
    BY <2>3, <2>4, EdgesOf
  <2>6. Edges(now) \subseteq Edges(a)
    BY <2>2, <2>3, EdgesOf
  <2> QED BY <2>5, <2>6
<1>16. Resumed(a) = Edges(list) \ taken
  <2>1. \A i \in DOMAIN a :
          a[i].action = "RESUME" => \E j \in DOMAIN r : a[i] = r[j]
    BY <1>1, <1>9
  <2>2. \A j \in DOMAIN r : \E i \in DOMAIN a : a[i] = r[j] /\ a[i].action = "RESUME"
    BY <1>3, <1>9
  <2>3. Resumed(a) = {r[j].edge : j \in DOMAIN r}
    BY <2>1, <2>2, EdgesOf
  <2> QED BY <1>3, <2>3
<1> QED BY <1>4, <1>14, <1>15, <1>16 DEF a, now

-----------------------------------------------------------------------------
(* Boundary control                                                        *)

LEMMA PausedFacts ==
  ASSUME NEW s \in Situations, NEW c \in PausedNow(s.g, s.coms)
  PROVE  c[1] \in AllNodes /\ c[2] \in Pauses /\ c = <<c[1], c[2]>>
<1>1. PICK n \in DangerNear(s.g) : c \in {n} \X PausesOf(s.g, s.coms, n)
  BY DEF PausedNow
<1>2. n \in BoundaryNodes(s.g)
  BY DEF DangerNear
<1>3. n \in AllNodes
  BY <1>2 DEF BoundaryNodes, EntryNodes, ExitNodes, EnabledNodes, AllNodes
<1>4. PausesOf(s.g, s.coms, n) \subseteq Pauses
  BY DEF PausesOf, Pauses
<1> QED BY <1>1, <1>3, <1>4

\* compute_boundary_control: who is resumed was paused and is not paused
\* again; who was paused, and still serves the direction, is either resumed
\* or paused again.
LEMMA BoundaryFacts ==
  ASSUME NEW s \in Situations, Controlling(previous.boundary)
  PROVE  /\ Controlling(Boundary(s))
         /\ \A c \in Boundary(s) : c[2] = "RESUME" =>
              /\ \E d \in Pauses : <<c[1], d>> \in previous.boundary
              /\ \A d \in Pauses : <<c[1], d>> \notin Boundary(s)
         /\ \A n, d : (/\ Open(s) /\ d \in Pauses /\ <<n, d>> \in previous.boundary
                       /\ n \in (IF d = "PAUSE_INGRESS" THEN EntryNodes(s.g) ELSE ExitNodes(s.g))
                       /\ <<n, "RESUME">> \notin Boundary(s)) =>
                         \E e \in Pauses : <<n, e>> \in Boundary(s)
<1> DEFINE now    == PausedNow(s.g, s.coms)
           paused_now == {c[1] : c \in now}
           Serves(c) == \/ c[2] = "PAUSE_INGRESS" /\ c[1] \in EntryNodes(s.g)
                        \/ c[2] = "PAUSE_EGRESS" /\ c[1] \in ExitNodes(s.g)
           before == {c[1] : c \in {d \in previous.boundary : Serves(d)}}
           b      == Boundary(s)
<1>1. CASE ~Open(s)
  BY <1>1 DEF Boundary, ComputeBoundaryControl, Controlling
<1>2. CASE Open(s)
  <2>1. b = now \cup ((before \ paused_now) \X {"RESUME"})
    BY <1>2 DEF Boundary, ComputeBoundaryControl, ResumedNow, Open
  <2>2. \A c \in now : c[1] \in AllNodes /\ c[2] \in Pauses /\ c = <<c[1], c[2]>>
    BY PausedFacts
  <2>3. "RESUME" \notin Pauses
    BY DEF Pauses
  <2>4. \A n \in before : n \in AllNodes /\ \E d \in Pauses : <<n, d>> \in previous.boundary
    <3> SUFFICES ASSUME NEW c \in previous.boundary, Serves(c)
                 PROVE  c[1] \in AllNodes /\ \E d \in Pauses : <<c[1], d>> \in previous.boundary
      OBVIOUS
    <3>1. c[1] \in AllNodes /\ c = <<c[1], c[2]>>
      BY DEF Controlling
    <3>2. c[2] \in Pauses
      BY DEF Pauses
    <3> QED BY <3>1, <3>2
  <2>5. \A n, d : <<n, d>> \in previous.boundary /\ d \in Pauses
                 /\ n \in (IF d = "PAUSE_INGRESS" THEN EntryNodes(s.g) ELSE ExitNodes(s.g))
                   => n \in before
    <3> SUFFICES ASSUME NEW n, NEW d, <<n, d>> \in previous.boundary, d \in Pauses,
                        n \in (IF d = "PAUSE_INGRESS" THEN EntryNodes(s.g) ELSE ExitNodes(s.g))
                 PROVE  n \in before
      OBVIOUS
    <3>1. Serves(<<n, d>>)
      BY DEF Pauses
    <3> QED BY <3>1
  <2> HIDE DEF now, before, b
  <2>6. Controlling(b)
    BY <2>1, <2>2, <2>4 DEF Controlling
  <2>7. ASSUME NEW c \in b, c[2] = "RESUME"
        PROVE  /\ \E d \in Pauses : <<c[1], d>> \in previous.boundary
               /\ \A d \in Pauses : <<c[1], d>> \notin b
    <3>1. c[1] \in before /\ c[1] \notin paused_now
      BY <2>1, <2>2, <2>3, <2>7
    <3>2. \A d \in Pauses : <<c[1], d>> \notin now
      BY <3>1
    <3>3. \A d \in Pauses : <<c[1], d>> \notin (before \ paused_now) \X {"RESUME"}
      BY <2>3
    <3>4. \A d \in Pauses : <<c[1], d>> \notin b
      BY <2>1, <3>2, <3>3
    <3> QED BY <2>4, <3>1, <3>4
  <2>8. ASSUME NEW n, n \in before, <<n, "RESUME">> \notin b
        PROVE  \E e \in Pauses : <<n, e>> \in b
    <3>1. n \in paused_now
      BY <2>1, <2>8
    <3>2. PICK c \in now : n = c[1]
      BY <3>1
    <3> QED BY <2>1, <2>2, <3>2
  <2> QED BY <2>5, <2>6, <2>7, <2>8 DEF b
<1> QED BY <1>1, <1>2

-----------------------------------------------------------------------------
(* Invariance                                                              *)

\* A node's pause is passed over, or the answer resumes or pauses the node.
Accounted(n, passedOver, boundary) ==
  \/ \E c \in passedOver : n = c[1]
  \/ <<n, "RESUME">> \in boundary
  \/ \E d \in Pauses : <<n, d>> \in boundary

\* Any way a cycle ends, given what its answer a says: it is well formed,
\* it looks at all that stands restricted if it is complete, and every
\* node whose pause it does not pass over it pauses or resumes itself.
LEMMA ObeyKeepsIInv ==
  ASSUME IInv, NEW s \in Situations, NEW how, NEW a, NEW complete \in BOOLEAN, NEW passedOver,
         Answer(s, how, a), Trace(complete, passedOver), passedOver \subseteq paused,
         how \in {"SEARCH", "STRICT", "SLACK_LP", "PREVIOUS_RESULT", "NO_RESULT", "NONE"},
         a.exists \in BOOLEAN, ~a.exists => a = NoResult,
         Restricting(a.restrictions), Controlling(a.boundary),
         how = "SEARCH" => Edges(a.restrictions) = Edges(s.zonal),
         complete /\ restricted = Edges(previous.restrictions) =>
           restricted \ Resumed(a.restrictions) \subseteq Edges(a.restrictions),
         \A n \in PausedNodes \ strayed : Accounted(n, passedOver, a.boundary)
  PROVE  IInv'
<1>1. /\ situation' = s /\ kind' = how /\ answer' = a /\ previous' = a
      /\ restricted' = (restricted \ Resumed(a.restrictions)) \cup Edges(a.restrictions)
      /\ paused' = {c \in paused : <<c[1], "RESUME">> \notin a.boundary}
                   \cup {c \in a.boundary : c[2] \in Pauses}
      /\ unbroken' = (restricted' = {} \/ (unbroken /\ (complete \/ restricted = {})))
      /\ strayed' = (strayed \cup {c[1] : c \in passedOver}) \cap {c[1] : c \in paused'}
  BY DEF Answer, Obey, Trace
<1>2. /\ restricted \subseteq AllEdges /\ paused \subseteq AllNodes \X Pauses
      /\ unbroken \in BOOLEAN /\ strayed \subseteq PausedNodes
  BY DEF IInv, TypeOK, AllEdges, AllNodes
<1>3. Edges(a.restrictions) \subseteq AllEdges
  BY EdgesOf DEF Restricting
<1>4. restricted' \subseteq AllEdges
  BY <1>1, <1>2, <1>3
<1>5. paused' \subseteq AllNodes \X Pauses
  <2>1. \A c \in a.boundary : c[2] \in Pauses => c \in AllNodes \X Pauses
    BY DEF Controlling
  <2> QED BY <1>1, <1>2, <2>1
<1>6. unbroken' \in BOOLEAN /\ strayed' \subseteq PausedNodes'
  BY <1>1 DEF PausedNodes
<1>7. TypeOK'
  <2>1. \A i, j \in DOMAIN answer'.restrictions :
          i # j => answer'.restrictions[i].edge # answer'.restrictions[j].edge
    BY <1>1 DEF Restricting
  <2> QED BY <1>1, <1>4, <1>5, <1>6, <2>1 DEF TypeOK, AllEdges, AllNodes
<1>8. Edges(previous'.restrictions) \subseteq restricted'
  BY <1>1
<1>9. unbroken' => restricted' = Edges(previous'.restrictions)
  <2>1. restricted' = {} => restricted' = Edges(previous'.restrictions)
    BY <1>8
  <2>2. unbroken /\ restricted = {} => restricted' = Edges(previous'.restrictions)
    BY <1>1
  <2>3. unbroken /\ complete => restricted' = Edges(previous'.restrictions)
    BY <1>1 DEF IInv
  <2> QED BY <1>1, <2>1, <2>2, <2>3
<1>10. \A c \in previous'.boundary : c[2] \in Pauses => c \in paused'
  BY <1>1
<1>11. ASSUME NEW n \in PausedNodes' \ strayed'
       PROVE  \E d \in Pauses : <<n, d>> \in previous'.boundary
  <2>1. PICK c \in paused' : c[1] = n
    BY DEF PausedNodes
  <2>2. CASE c \in a.boundary
    <3>1. c = <<c[1], c[2]>> /\ c[2] \in Pauses
      BY <1>5
    <3> QED BY <1>1, <2>1, <2>2, <3>1
  <2>3. CASE c \notin a.boundary
    <3>1. c \in paused /\ <<n, "RESUME">> \notin a.boundary
      BY <1>1, <2>1, <2>3
    <3>2. n \in PausedNodes
      BY <2>1, <3>1 DEF PausedNodes
    <3>3. n \notin strayed /\ n \notin {e[1] : e \in passedOver}
      BY <1>1, <2>1
    <3> QED BY <1>1, <3>1, <3>2, <3>3 DEF Accounted
  <2> QED BY <2>2, <2>3
<1> QED BY <1>1, <1>7, <1>8, <1>9, <1>10, <1>11 DEF IInv

LEMMA InitIInv == ASSUME Init PROVE IInv
<1>1. Restricting(<<>>) /\ Edges(<<>>) = {} /\ Controlling({})
  <2>1. Edges(<<>>) = {}
    BY EdgesOf
  <2> QED BY <2>1 DEF Restricting, Controlling, ToSet
<1>2. TypeOK
  BY DEF Init, TypeOK, NoResult, PausedNodes
<1> QED BY <1>1, <1>2 DEF Init, IInv, NoResult, PausedNodes

\* What a fresh answer's boundary part, computed from the previous answer,
\* does for the nodes that are paused.
LEMMA FreshBoundary ==
  ASSUME IInv, NEW s \in Situations
  PROVE  /\ OutOfService(s) \subseteq paused
         /\ \A n \in PausedNodes \ strayed : Accounted(n, OutOfService(s), Boundary(s))
<1>1. OutOfService(s) \subseteq paused
  BY DEF OutOfService
<1>2. ASSUME NEW n \in PausedNodes \ strayed, ~ \E c \in OutOfService(s) : n = c[1],
             <<n, "RESUME">> \notin Boundary(s)
      PROVE  \E d \in Pauses : <<n, d>> \in Boundary(s)
  <2>1. PICK d \in Pauses : <<n, d>> \in previous.boundary
    BY DEF IInv
  <2>2. <<n, d>> \in paused
    BY <2>1 DEF IInv
  <2> DEFINE serving == IF d = "PAUSE_INGRESS" THEN EntryNodes(s.g) ELSE ExitNodes(s.g)
  <2>3. n \in serving
    <3>1. n \notin serving => <<n, d>> \in OutOfService(s)
      BY <2>2 DEF OutOfService
    <3>2. n = <<n, d>>[1]
      OBVIOUS
    <3> HIDE DEF serving
    <3> QED BY <1>2, <3>1, <3>2
  <2>4. Open(s)
    BY <2>3 DEF Open, BoundaryNodes
  <2> QED BY <1>2, <2>1, <2>3, <2>4, BoundaryFacts DEF IInv
<1> QED BY <1>1, <1>2 DEF Accounted

\* The limits of the assignment with slack: each overloaded passage once.
LEMMA OverloadFacts ==
  ASSUME NEW s \in Situations, NEW overloaded \in SUBSET EnabledEdges(s.g)
  PROVE  LET order  == InOrder(overloaded)
             limits == [i \in DOMAIN order |-> Proposal(order[i], "LIMIT", {}, "OVERLOAD")]
         IN  Restricting(limits)
<1> DEFINE order  == InOrder(overloaded)
           limits == [i \in DOMAIN order |-> Proposal(order[i], "LIMIT", {}, "OVERLOAD")]
<1>1. overloaded \subseteq DOMAIN s.g.edge
  BY DEF EnabledEdges
<1>2. IsFiniteSet(DOMAIN s.g.edge) /\ DOMAIN s.g.edge \subseteq Nat
  BY SituationsAssumption
<1>3. IsFiniteSet(overloaded)
  BY <1>1, <1>2, FS_Subset
<1>4. /\ DOMAIN order = 1 .. Cardinality(overloaded)
      /\ Cardinality(overloaded) \in Nat
      /\ {order[i] : i \in DOMAIN order} = overloaded
      /\ \A i, j \in DOMAIN order : order[i] = order[j] => i = j
  BY <1>1, <1>2, <1>3, InOrderFacts
<1> HIDE DEF order
<1>5. \A i \in DOMAIN order : order[i] \in AllEdges
  BY <1>1, <1>4 DEF AllEdges
<1>6. DOMAIN limits = DOMAIN order /\ \A i \in DOMAIN order : limits[i].edge = order[i]
  BY DEF Proposal
<1>7. \A i \in DOMAIN limits : limits[i] \in ToSet(limits)
  BY DEF ToSet
<1>8. limits = [i \in DOMAIN order |-> limits[i]]
  OBVIOUS
<1> HIDE DEF limits
<1>9. limits \in [1 .. Cardinality(overloaded) -> ToSet(limits)]
  BY <1>4, <1>6, <1>7, <1>8
<1>10. limits \in Seq(ToSet(limits))
  BY <1>4, <1>9
<1>11. Restricting(limits)
  BY <1>4, <1>5, <1>6, <1>10 DEF Restricting
<1> QED BY <1>11 DEF limits, order

LEMMA EmptyFacts ==
  /\ Restricting(<<>>) /\ Controlling({})
  /\ \A n \in PausedNodes : \A boundary : Accounted(n, paused, boundary)
  BY DEF Restricting, Controlling, ToSet, PausedNodes, Accounted

\* A cycle keeps IInv, however it ends.
LEMMA StepIInv == ASSUME IInv, [Next]_vars PROVE IInv'
<1>1. CASE UNCHANGED vars
  BY <1>1 DEF vars, IInv, TypeOK, PausedNodes
<1>2. ASSUME NEW s \in Situations, AnswerSearch(s) PROVE IInv'
  <2> DEFINE list == WithResumes(previous.restrictions, s.zonal)
  <2>1. /\ Restricting(list)
        /\ Edges(list) = Edges(s.zonal)
        /\ Resumed(list) = Edges(previous.restrictions) \ Edges(s.zonal)
    BY AnswerFacts DEF IInv
  <2>2. Controlling(Boundary(s))
    BY BoundaryFacts DEF IInv
  <2> DEFINE a == Result(list, Boundary(s))
  <2>3. a.exists = TRUE /\ a.restrictions = list /\ a.boundary = Boundary(s)
    BY DEF Result
  <2>4. Answer(s, "SEARCH", a) /\ Trace(TRUE, OutOfService(s))
    BY <1>2 DEF AnswerSearch
  <2>5. /\ Edges(a.restrictions) = Edges(s.zonal)
        /\ restricted = Edges(previous.restrictions) =>
             restricted \ Resumed(a.restrictions) \subseteq Edges(a.restrictions)
    BY <2>1, <2>3
  <2>6. /\ OutOfService(s) \subseteq paused
        /\ \A n \in PausedNodes \ strayed : Accounted(n, OutOfService(s), a.boundary)
    BY <2>3, FreshBoundary
  <2> HIDE DEF list, a
  <2>7. Restricting(a.restrictions) /\ Controlling(a.boundary)
    BY <2>1, <2>2, <2>3
  <2> QED BY <2>3, <2>4, <2>5, <2>6, <2>7, ObeyKeepsIInv
<1>3. ASSUME NEW s \in Situations, AnswerUnrestricted(s) PROVE IInv'
  <2> DEFINE a == Result(<<>>, Boundary(s))
  <2>1. Restricting(<<>>)
    BY DEF Restricting, ToSet
  <2>2. Controlling(Boundary(s))
    BY BoundaryFacts DEF IInv
  <2>3. a.exists = TRUE /\ a.restrictions = <<>> /\ a.boundary = Boundary(s)
    BY DEF Result
  <2>4. Answer(s, "STRICT", a) /\ Trace(FALSE, OutOfService(s))
    BY <1>3 DEF AnswerUnrestricted
  <2> HIDE DEF a
  <2> QED BY <2>1, <2>2, <2>3, <2>4, FreshBoundary, ObeyKeepsIInv
<1>4. ASSUME NEW s \in Situations, AnswerSlack(s) PROVE IInv'
  <2>1. PICK overloaded \in SUBSET EnabledEdges(s.g) :
          LET order  == InOrder(overloaded)
              limits == [i \in DOMAIN order |-> Proposal(order[i], "LIMIT", {}, "OVERLOAD")]
          IN  Answer(s, "SLACK_LP", Result(limits, Boundary(s)))
    BY <1>4 DEF AnswerSlack
  <2> DEFINE order  == InOrder(overloaded)
             limits == [i \in DOMAIN order |-> Proposal(order[i], "LIMIT", {}, "OVERLOAD")]
             a      == Result(limits, Boundary(s))
  <2>2. Restricting(limits)
    BY OverloadFacts
  <2>3. Controlling(Boundary(s))
    BY BoundaryFacts DEF IInv
  <2>4. a.exists = TRUE /\ a.restrictions = limits /\ a.boundary = Boundary(s)
    BY DEF Result
  <2>5. Answer(s, "SLACK_LP", a) /\ Trace(FALSE, OutOfService(s))
    BY <1>4, <2>1 DEF AnswerSlack
  <2> HIDE DEF a, limits
  <2> QED BY <2>2, <2>3, <2>4, <2>5, FreshBoundary, ObeyKeepsIInv
<1>5. ASSUME NEW s \in Situations, AnswerPrevious(s) PROVE IInv'
  <2>1. /\ previous.exists /\ Answer(s, "PREVIOUS_RESULT", previous) /\ Trace(TRUE, {})
    BY <1>5 DEF AnswerPrevious
  <2>2. /\ Restricting(previous.restrictions) /\ Controlling(previous.boundary)
        /\ previous.exists \in BOOLEAN /\ (~previous.exists => previous = NoResult)
    BY DEF IInv, TypeOK
  <2>3. \A n \in PausedNodes \ strayed : \E d \in Pauses : <<n, d>> \in previous.boundary
    BY DEF IInv
  <2>4. restricted = Edges(previous.restrictions) =>
          restricted \ Resumed(previous.restrictions) \subseteq Edges(previous.restrictions)
    OBVIOUS
  <2> DEFINE a    == previous
             none == {}
  <2>5. /\ \A n \in PausedNodes \ strayed : Accounted(n, none, a.boundary)
        /\ Trace(TRUE, none) /\ none \subseteq paused
    BY <2>1, <2>3 DEF Accounted
  <2>6. /\ Answer(s, "PREVIOUS_RESULT", a) /\ Restricting(a.restrictions) /\ Controlling(a.boundary)
        /\ a.exists \in BOOLEAN /\ (~a.exists => a = NoResult)
        /\ (restricted = Edges(previous.restrictions) =>
              restricted \ Resumed(a.restrictions) \subseteq Edges(a.restrictions))
    BY <2>1, <2>2, <2>4
  <2> HIDE DEF a, none
  <2> QED BY <2>5, <2>6, ObeyKeepsIInv
<1>6. ASSUME NEW s \in Situations, AnswerNothing(s) PROVE IInv'
  <2> DEFINE a == Result(<<>>, {})
  <2>1. /\ a.exists = TRUE
        /\ Restricting(a.restrictions) /\ Controlling(a.boundary)
    BY EmptyFacts DEF Result
  <2>2. Answer(s, "NO_RESULT", a) /\ Trace(FALSE, paused)
    BY <1>6 DEF AnswerNothing
  <2> HIDE DEF a
  <2> QED BY <2>1, <2>2, EmptyFacts, ObeyKeepsIInv
<1>7. ASSUME NEW s \in Situations, NoAnswer(s) PROVE IInv'
  <2> DEFINE a == NoResult
  <2>1. /\ a.exists = FALSE /\ a = NoResult
        /\ Restricting(a.restrictions) /\ Controlling(a.boundary)
    BY EmptyFacts DEF NoResult
  <2>2. Answer(s, "NONE", a) /\ Trace(FALSE, paused)
    BY <1>7 DEF NoAnswer
  <2> HIDE DEF a
  <2> QED BY <2>1, <2>2, EmptyFacts, ObeyKeepsIInv
<1> QED BY <1>1, <1>2, <1>3, <1>4, <1>5, <1>6, <1>7 DEF Next

\* IInv holds of every reachable state.
THEOREM Invariance == Spec => []IInv
  BY InitIInv, StepIInv, PTL DEF Spec

-----------------------------------------------------------------------------
(* What follows                                                            *)

\* The model keeps its types, and an answer says one thing of a passage.
THEOREM TypeCorrect == Spec => []TypeOK
<1>1. IInv => TypeOK
  BY DEF IInv
<1> QED BY <1>1, Invariance, PTL

\* Once every answer since has looked at what is restricted, the search
\* leaves exactly those passages restricted that zones ask for now.
THEOREM NeedFollowed == Spec => []RestrictionsFollowNeed
<1>1. IInv => RestrictionsFollowNeed
  BY DEF IInv, RestrictionsFollowNeed
<1> QED BY <1>1, Invariance, PTL

\* After a fresh answer in an open site, a node whose pause no answer has
\* passed over is paused only if this answer pauses it.
THEOREM DangerFollowed == Spec => []PausesFollowDanger
<1>1. IInv => PausesFollowDanger
  BY DEF IInv, PausesFollowDanger
<1> QED BY <1>1, Invariance, PTL

\* What a fresh answer resumes was held when it came, and the answer does
\* not hold it again.
THEOREM HeldIsResumed == Spec => ResumesOnlyWhatIsHeld
<1> DEFINE Right == Fresh' =>
       /\ Resumed(answer'.restrictions) \subseteq restricted \ Edges(answer'.restrictions)
       /\ \A c \in answer'.boundary : c[2] = "RESUME" =>
            /\ c[1] \in PausedNodes
            /\ ~ \E d \in Pauses : <<c[1], d>> \in answer'.boundary
<1>1. ASSUME IInv, [Next]_vars PROVE [Right]_vars
  <2> SUFFICES ASSUME Next, Fresh' PROVE Right
    BY <1>1
  <2>1. ASSUME NEW s \in Situations
        PROVE  \A c \in Boundary(s) : c[2] = "RESUME" =>
                 /\ c[1] \in PausedNodes
                 /\ ~ \E d \in Pauses : <<c[1], d>> \in Boundary(s)
    <3>1. \A n : \A d \in Pauses : <<n, d>> \in previous.boundary => n \in PausedNodes
      BY <1>1 DEF IInv, PausedNodes
    <3> QED BY <1>1, <3>1, BoundaryFacts DEF IInv
  <2>2. ASSUME NEW s \in Situations, NEW list, NEW how,
               Answer(s, how, Result(list, Boundary(s))),
               Resumed(list) \subseteq restricted \ Edges(list)
        PROVE  Right
    <3>1. answer'.restrictions = list /\ answer'.boundary = Boundary(s)
      BY <2>2 DEF Answer, Result
    <3> QED BY <2>1, <2>2, <3>1
  <2>3. ASSUME NEW s \in Situations, AnswerSearch(s) PROVE Right
    <3> DEFINE list == WithResumes(previous.restrictions, s.zonal)
    <3>1. Answer(s, "SEARCH", Result(list, Boundary(s)))
      BY <2>3 DEF AnswerSearch
    <3>2. Resumed(list) = Edges(previous.restrictions) \ Edges(list)
      BY <1>1, AnswerFacts DEF IInv
    <3>3. Edges(previous.restrictions) \subseteq restricted
      BY <1>1 DEF IInv
    <3> HIDE DEF list
    <3> QED BY <2>2, <3>1, <3>2, <3>3
  <2>4. ASSUME NEW s \in Situations, AnswerUnrestricted(s) PROVE Right
    <3>1. Resumed(<<>>) = {}
      BY EdgesOf
    <3> QED BY <2>2, <2>4, <3>1 DEF AnswerUnrestricted
  <2>5. ASSUME NEW s \in Situations, AnswerSlack(s) PROVE Right
    <3>1. PICK overloaded \in SUBSET EnabledEdges(s.g) :
            LET order  == InOrder(overloaded)
                limits == [i \in DOMAIN order |-> Proposal(order[i], "LIMIT", {}, "OVERLOAD")]
            IN  Answer(s, "SLACK_LP", Result(limits, Boundary(s)))
      BY <2>5 DEF AnswerSlack
    <3> DEFINE order  == InOrder(overloaded)
               limits == [i \in DOMAIN order |-> Proposal(order[i], "LIMIT", {}, "OVERLOAD")]
    <3>2. Answer(s, "SLACK_LP", Result(limits, Boundary(s)))
      BY <3>1
    <3>3. \A i \in DOMAIN limits : limits[i].action # "RESUME"
      BY DEF Proposal
    <3> HIDE DEF limits
    <3>4. Resumed(limits) = {}
      BY <3>3, EdgesOf
    <3> QED BY <2>2, <3>2, <3>4
  <2>6. ASSUME NEW s \in Situations,
               AnswerPrevious(s) \/ AnswerNothing(s) \/ NoAnswer(s)
        PROVE  FALSE
    BY <2>6 DEF AnswerPrevious, AnswerNothing, NoAnswer, Answer, Fresh
  <2> HIDE DEF Right
  <2> QED BY <2>3, <2>4, <2>5, <2>6 DEF Next
<1> QED BY <1>1, Invariance, PTL DEF Spec, ResumesOnlyWhatIsHeld
=============================================================================
