------------------------ MODULE OptimizeCall_proofs ------------------------
(***************************************************************************)
(* What a call of optimize may answer, for any requests that satisfy       *)
(* RequestsAssumption.                                                     *)
(***************************************************************************)
EXTENDS OptimizeCall, Operators_proofs, SequenceTheorems

-----------------------------------------------------------------------------
(* What a call derives from its request *)

LEMMA CallFacts ==
  ASSUME req \in Requests
  PROVE  /\ FiniteGraph(g)
         /\ EnabledNodes(g) \subseteq Nat /\ ActiveEdges(g) \subseteq Nat
         /\ req.cfg.margin \in Nat /\ req.cfg.epsilon \in Nat
<1>1. /\ IsFiniteSet(DOMAIN g.node) /\ DOMAIN g.node \subseteq Nat
      /\ IsFiniteSet(DOMAIN g.edge) /\ DOMAIN g.edge \subseteq Nat
      /\ req.cfg.margin \in Nat /\ req.cfg.epsilon \in Nat
  BY RequestsAssumption DEF g
<1> QED BY <1>1 DEF FiniteGraph, EnabledNodes, ActiveEdges, EnabledEdges

\* What a weight is taken from is never negative, so a weight is a number.
LEMMA WeightFacts ==
  ASSUME req \in Requests, NEW e \in ActiveEdges(g)
  PROVE  Or(inp.weight, e, 100) \in Int
<1> DEFINE conf(n) == Or(req.forecast.confidence, n, 100)
           f       == [n \in Ends(g, e) |-> conf(n)]
           C       == {conf(n) : n \in Ends(g, e)}
<1>1. \A n : conf(n) \in Nat
  BY RequestsAssumption DEF Or
<1>2. IsFiniteSet(Ends(g, e))
  BY PairIsFinite DEF Ends
<1>3. C = {f[n] : n \in Ends(g, e)}
  OBVIOUS
<1>4. C \in SUBSET Int /\ C # {}
  BY <1>1 DEF Ends
<1>5. IsFiniteSet(C)
  <2> HIDE DEF f, C
  <2> QED BY <1>2, <1>3, FiniteImage
<1>6. Min(C) \in Int
  <2> HIDE DEF C
  <2> QED BY <1>4, <1>5, MinFacts
<1> DEFINE M == {req.cfg.confidenceFloor, Min(C)}
<1>7. IsFiniteSet(M)
  BY PairIsFinite
<1>8. req.cfg.confidenceFloor \in Int
  BY RequestsAssumption
<1>9. Max(M) \in Int
  <2>1. M \in SUBSET Int /\ M # {}
    BY <1>6, <1>8
  <2> HIDE DEF M
  <2> QED BY <1>7, <2>1, MaxFacts
<1>10. e \in DOMAIN inp.weight /\ inp.weight[e] = Max(M)
  BY DEF inp, BuildInputs
<1> HIDE DEF M
<1> QED BY <1>9, <1>10 DEF Or

LEMMA InputFacts ==
  ASSUME req \in Requests
  PROVE  /\ \A e \in DOMAIN inp.s : inp.s[e] \in Nat /\ Or(inp.sBar, e, 0) \in Nat
         /\ \A e : Or(inp.eta, e, 0) \in Nat
<1>1. /\ \A e \in DOMAIN req.obs.stagnation : req.obs.stagnation[e].value \in Nat
      /\ \A e \in DOMAIN req.baseline : req.baseline[e] \in Nat
      /\ \A e \in DOMAIN req.forecast.eta : req.forecast.eta[e] \in Nat
  BY RequestsAssumption
<1> DEFINE stagnant == ValidOn(g, req.obs.stagnation)
<1>2. stagnant \subseteq DOMAIN req.obs.stagnation
  BY DEF ValidOn
<1>3. /\ inp.s = [e \in stagnant |-> req.obs.stagnation[e].value]
      /\ inp.sBar = [e \in stagnant |-> Or(req.baseline, e, req.obs.stagnation[e].value)]
      /\ inp.eta = req.forecast.eta
  BY DEF inp, BuildInputs
<1> HIDE DEF stagnant
<1> QED BY <1>1, <1>2, <1>3 DEF Or

-----------------------------------------------------------------------------
(* Worst stagnation *)

\* How much of its stagnation remains on a passage.
Left(e, flow) == Stress(inp, e, Residual(inp, e, EdgeFlow(flow, e)))

Counted(edges) == ((drainable \cap edges) \cap DOMAIN inp.s) \cap ActiveEdges(g)

LEMMA EdgeFlowIsNumber ==
  ASSUME req \in Requests, NEW flow \in [Arcs(g) -> Nat], NEW e
  PROVE  EdgeFlow(flow, e) \in Int
<1> DEFINE S == ArcsOf(e) \cap DOMAIN flow
<1>1. IsFiniteSet(S)
  <2>1. S \subseteq Arcs(g)
    OBVIOUS
  <2> QED BY <2>1, CallFacts, GraphFacts, FS_Subset
<1>2. Integral(flow, S)
  BY DEF Integral
<1> HIDE DEF S
<1>3. SumFunctionOnSet(flow, S) \in Int
  BY <1>1, <1>2, SumIsInt
<1> QED BY <1>3 DEF EdgeFlow, S

LEMMA LeftIsNumber ==
  ASSUME req \in Requests, NEW flow \in [Arcs(g) -> Nat], NEW e \in DOMAIN inp.s,
         e \in ActiveEdges(g)
  PROVE  Left(e, flow) \in Int
<1> DEFINE w == Or(inp.weight, e, 100)
           b == Or(inp.sBar, e, 0)
           r == Residual(inp, e, EdgeFlow(flow, e))
<1>1. w \in Int /\ b \in Nat
  BY InputFacts, WeightFacts
<1>2. r \in Int
  BY InputFacts, EdgeFlowIsNumber DEF Residual, AtLeast0
<1>3. Left(e, flow) = (w * r) \div (b + 1)
  BY DEF Left, Stress, EpsilonZero
<1> HIDE DEF w, b, r
<1>4. w * r \in Int /\ b + 1 \in Nat \ {0}
  BY <1>1, <1>2
<1> DEFINE p == w * r
           q == b + 1
<1>5. p \div q \in Int
  <2>1. p \in Int /\ q \in Nat \ {0}
    BY <1>4
  <2> HIDE DEF p, q
  <2> QED BY <2>1
<1> QED BY <1>3, <1>5

\* The worst stagnation is 0 or what is left on some passage, and nothing is
\* left over that is worse.
LEMMA TauFacts ==
  ASSUME req \in Requests, NEW flow \in [Arcs(g) -> Nat], NEW edges
  PROVE  /\ Tau(edges, flow) \in Int
         /\ \A e \in Counted(edges) : Left(e, flow) <= Tau(edges, flow)
         /\ \A b \in Int : 0 <= b /\ (\A e \in Counted(edges) : Left(e, flow) <= b)
                             => Tau(edges, flow) <= b
         /\ 0 <= Tau(edges, flow)
<1> DEFINE C == Counted(edges)
           f == [e \in C |-> Left(e, flow)]
           V == {f[e] : e \in C}
<1>1. IsFiniteSet(C)
  <2>1. C \subseteq ActiveEdges(g)
    BY DEF Counted
  <2> QED BY <2>1, CallFacts, GraphFacts, FS_Subset
<1>2. \A e \in C : Left(e, flow) \in Int
  BY LeftIsNumber DEF Counted
<1>3. IsFiniteSet(V)
  <2> HIDE DEF f, C
  <2> QED BY <1>1, FiniteImage
<1>4. IsFiniteSet({0} \cup V)
  <2> HIDE DEF V
  <2> QED BY <1>3, FS_Singleton, FS_Union
<1>5. {0} \cup V \in SUBSET Int /\ {0} \cup V # {}
  BY <1>2
<1>6. Tau(edges, flow) = Max({0} \cup V)
  <2>1. V = {Left(e, flow) : e \in C}
    OBVIOUS
  <2>2. V = {Stress(inp, e, Residual(inp, e, EdgeFlow(flow, e))) : e \in C}
    BY <2>1 DEF Left
  <2> QED BY <2>2 DEF Tau, ResidualTau, Counted
<1>7. Tau(edges, flow) \in {0} \cup V /\ \A v \in {0} \cup V : v <= Tau(edges, flow)
  <2> HIDE DEF V
  <2> QED BY <1>4, <1>5, <1>6, MaxFacts
<1>8. \A e \in C : Left(e, flow) \in V
  OBVIOUS
<1>9. \A v \in V : \E e \in C : v = Left(e, flow)
  OBVIOUS
<1> HIDE DEF V, f
<1> QED BY <1>2, <1>5, <1>7, <1>8, <1>9

-----------------------------------------------------------------------------
(* Flows *)

Balanced(flow) ==
  \A n \in EnabledNodes(g) :
    SumFunctionOnSet(flow, OutArcs(g, n)) - SumFunctionOnSet(flow, InArcs(g, n))
      = NetDemand(g, coms, n)

LEMMA FoundFacts ==
  ASSUME NEW program, NEW best \in SUBSET program, NEW found \in Flows(program, best)
  PROVE  found = {} \/ \E c \in program : found = {c}
BY DEF Flows, Found, SolverEnds

LEMMA DemandIsFinite ==
  ASSUME req \in Requests
  PROVE  IsFiniteSet(DOMAIN coms) /\ \A i \in DOMAIN coms : coms[i].demand \in Nat
<1> DEFINE od == req.od
           Kept(pair) == /\ 100 * pair.demand > req.cfg.cutPercent
                                                * SumFunction([i \in DOMAIN od |-> od[i].demand])
                         /\ {pair.origin, pair.destination} \subseteq EnabledNodes(g)
           S    == {i \in DOMAIN od : Kept(od[i])}
           kept == InOrder(S)
<1>1. /\ DOMAIN od = 1 .. Len(od) /\ Len(od) \in Nat
      /\ \A i \in DOMAIN od : od[i].demand \in Nat
  BY RequestsAssumption
<1>2. S \subseteq 1 .. Len(od)
  BY <1>1
<1>3. IsFiniteSet(S) /\ S \in SUBSET Nat
  <2>1. IsFiniteSet(1 .. Len(od))
    BY <1>1, FS_Interval
  <2>2. S \in SUBSET Nat
    BY <1>1, <1>2
  <2> HIDE DEF S
  <2> QED BY <1>2, <2>1, <2>2, FS_Subset
<1>4. coms = [k \in DOMAIN kept |-> od[kept[k]]]
  BY DEF coms, BuildCommodities
<1> HIDE DEF S, Kept
<1>5. /\ DOMAIN kept = 1 .. Cardinality(S) /\ Cardinality(S) \in Nat
      /\ \A k \in DOMAIN kept : kept[k] \in S
  <2>1. /\ DOMAIN InOrder(S) = 1 .. Cardinality(S)
        /\ {InOrder(S)[k] : k \in DOMAIN InOrder(S)} = S
    BY <1>3, InOrderFacts
  <2> QED BY <1>3, <2>1, FS_CardinalityType
<1>6. IsFiniteSet(1 .. Cardinality(S))
  BY <1>5, FS_Interval
<1> HIDE DEF kept
<1> QED BY <1>1, <1>2, <1>4, <1>5, <1>6

LEMMA SupplyIsNumber ==
  ASSUME req \in Requests, NEW i \in DOMAIN coms, NEW n \in EnabledNodes(g)
  PROVE  Supply(g, coms[i])[n] \in Int
<1>1. coms[i].demand \in Nat
  BY DemandIsFinite
<1> QED BY <1>1 DEF Supply

LEMMA NetDemandIsNumber ==
  ASSUME req \in Requests, NEW n \in EnabledNodes(g)
  PROVE  NetDemand(g, coms, n) \in Int
<1> DEFINE sup == [i \in DOMAIN coms |-> Supply(g, coms[i])[n]]
<1>1. Integral(sup, DOMAIN coms)
  BY SupplyIsNumber DEF Integral
<1>2. SumFunctionOnSet(sup, DOMAIN coms) \in Int
  <2> HIDE DEF sup
  <2> QED BY <1>1, DemandIsFinite, SumIsInt
<1>3. DOMAIN sup = DOMAIN coms
  OBVIOUS
<1> QED BY <1>2, <1>3 DEF NetDemand, SumFunction

\* One routing for each demand.
Routed(F, x) == \A i \in DOMAIN coms : F[i] \in Routings(g, x, Supply(g, coms[i]))

Together(F, x) == [arc \in x |-> SumFunction([i \in DOMAIN coms |-> F[i][arc]])]

LEMMA DemandFlowIsRouted ==
  ASSUME NEW x, NEW f \in DemandFlows(g, coms, x)
  PROVE  \E F : Routed(F, x) /\ f = Together(F, x)
BY DEF DemandFlows, Routed, Together

\* What all demands send over some arcs is what each of them sends.
LEMMA SumOfDemands ==
  ASSUME req \in Requests, NEW x \in SUBSET Arcs(g), NEW F, Routed(F, x), NEW A \in SUBSET x
  PROVE  SumFunctionOnSet(Together(F, x), A)
           = SumFunctionOnSet([i \in DOMAIN coms |-> SumFunctionOnSet(F[i], A)], DOMAIN coms)
<1> DEFINE D    == DOMAIN coms
           G    == [arc \in A |-> [i \in D |-> F[i][arc]]]
           rows == [i \in D |-> SumFunctionOnSet(F[i], A)]
           cols == Together(F, x)
<1>1. IsFiniteSet(D) /\ IsFiniteSet(A)
  BY DemandIsFinite, CallFacts, GraphFacts, FS_Subset
<1>2. \A i \in D, arc \in A : F[i][arc] \in Int /\ G[arc][i] = F[i][arc]
  <2>1. \A i \in D : F[i] \in [x -> Nat]
    BY DEF Routed, Routings
  <2> QED BY <2>1
<1>3. \A i \in D : rows[i] = SumFunctionOnSet(F[i], A)
  OBVIOUS
<1>4. \A arc \in A : cols[arc] = SumFunctionOnSet(G[arc], D)
  <2> SUFFICES ASSUME NEW arc \in A PROVE cols[arc] = SumFunctionOnSet(G[arc], D)
    OBVIOUS
  <2>1. cols[arc] = SumFunction([i \in D |-> F[i][arc]])
    BY DEF Together
  <2>2. G[arc] = [i \in D |-> F[i][arc]] /\ DOMAIN [i \in D |-> F[i][arc]] = D
    OBVIOUS
  <2> QED BY <2>1, <2>2 DEF SumFunction
<1>5. SumFunctionOnSet(rows, D) = SumFunctionOnSet(cols, A)
  <2>1. AddsBothWays(F, G, D, A, rows, cols)
    <3> HIDE DEF rows, cols, G, D
    <3> QED BY <1>2, <1>3, <1>4 DEF AddsBothWays
  <2> HIDE DEF rows, cols, G, D
  <2> QED BY <1>1, <2>1, SumOfTable
<1> QED BY <1>5

\* Together the demands are conserved.
LEMMA TogetherConserves ==
  ASSUME req \in Requests, NEW x \in SUBSET Arcs(g), NEW F, Routed(F, x),
         NEW n \in EnabledNodes(g)
  PROVE  Leaving(g, x, Together(F, x), n) - Entering(g, x, Together(F, x), n)
           = NetDemand(g, coms, n)
<1> DEFINE D   == DOMAIN coms
           O   == {arc \in x : From(g, arc) = n}
           I   == {arc \in x : To(g, arc) = n}
           out == [i \in D |-> SumFunctionOnSet(F[i], O)]
           in  == [i \in D |-> SumFunctionOnSet(F[i], I)]
           sup == [i \in D |-> Supply(g, coms[i])[n]]
<1>1. IsFiniteSet(D)
  BY DemandIsFinite
<1>2. ASSUME NEW i \in D
      PROVE  sup[i] \in Int /\ in[i] \in Int /\ out[i] = sup[i] + in[i]
  <2>1. F[i] \in [x -> Nat] /\ Conserves(g, x, F[i], Supply(g, coms[i]))
    BY DEF Routed, Routings
  <2>2. n \in DOMAIN Supply(g, coms[i])
    BY DEF Supply
  <2>3. out[i] - in[i] = sup[i]
    BY <2>1, <2>2 DEF Conserves, Leaving, Entering
  <2>4. IsFiniteSet(O) /\ IsFiniteSet(I)
    BY CallFacts, GraphFacts, FS_Subset
  <2>5. Integral(F[i], O) /\ Integral(F[i], I)
    BY <2>1 DEF Integral
  <2>6. out[i] \in Int /\ in[i] \in Int
    <3> HIDE DEF O, I
    <3> QED BY <2>4, <2>5, SumIsInt
  <2>7. sup[i] \in Int
    BY SupplyIsNumber
  <2> HIDE DEF in, out, sup
  <2> QED BY <2>3, <2>6, <2>7
<1>3. Integral(sup, D) /\ Integral(in, D)
  BY <1>2 DEF Integral
<1>4. SumFunctionOnSet(out, D) = SumFunctionOnSet(sup, D) + SumFunctionOnSet(in, D)
  <2> HIDE DEF in, out, sup, D
  <2> QED BY <1>1, <1>2, <1>3, SumOfSums
<1>5. SumFunctionOnSet(sup, D) \in Int /\ SumFunctionOnSet(in, D) \in Int
  <2> HIDE DEF in, sup, D
  <2> QED BY <1>1, <1>3, SumIsInt
<1>6. Leaving(g, x, Together(F, x), n) = SumFunctionOnSet(out, D)
  BY SumOfDemands DEF Leaving
<1>7. Entering(g, x, Together(F, x), n) = SumFunctionOnSet(in, D)
  BY SumOfDemands DEF Entering
<1>8. NetDemand(g, coms, n) = SumFunctionOnSet(sup, D)
  <2>1. DOMAIN sup = D
    OBVIOUS
  <2> QED BY <2>1 DEF NetDemand, SumFunction
<1> HIDE DEF in, out, sup, D
<1> QED BY <1>4, <1>5, <1>6, <1>7, <1>8

LEMMA DemandFlowIsNat ==
  ASSUME req \in Requests, NEW x, NEW f \in DemandFlows(g, coms, x)
  PROVE  f \in [x -> Nat]
<1>1. PICK F : Routed(F, x) /\ f = Together(F, x)
  BY DemandFlowIsRouted
<1>2. ASSUME NEW arc \in x PROVE f[arc] \in Nat
  <2> DEFINE h == [i \in DOMAIN coms |-> F[i][arc]]
  <2>1. \A i \in DOMAIN coms : h[i] \in Nat
    BY <1>1 DEF Routed, Routings
  <2>2. SumFunctionOnSet(h, DOMAIN coms) \in Nat
    <3> HIDE DEF h
    <3> QED BY <2>1, DemandIsFinite, SumIsNat
  <2>3. DOMAIN h = DOMAIN coms /\ f[arc] = SumFunction(h)
    BY <1>1 DEF Together
  <2> QED BY <2>2, <2>3 DEF SumFunction
<1>3. f = [arc \in x |-> f[arc]]
  BY <1>1 DEF Together
<1> QED BY <1>2, <1>3

\* Arcs that are not open add nothing.
LEMMA SumOnArcs ==
  ASSUME req \in Requests, NEW x \in SUBSET Arcs(g), NEW f \in [x -> Nat],
         NEW S \in SUBSET Arcs(g)
  PROVE  SumFunctionOnSet(OnArcs(Arcs(g), f), S) = SumFunctionOnSet(f, S \cap x)
<1> DEFINE flow == OnArcs(Arcs(g), f)
           R    == S \cap x
<1>1. IsFiniteSet(S) /\ IsFiniteSet(R)
  BY CallFacts, GraphFacts, FS_Subset
<1>2. \A arc \in S : flow[arc] = IF arc \in x THEN f[arc] ELSE 0
  BY DEF OnArcs, Or
<1>3. Integral(flow, S) /\ Integral(f, R)
  BY <1>2 DEF Integral
<1>4. R \in SUBSET S /\ (\A arc \in S \ R : flow[arc] = 0) /\ (\A arc \in R : flow[arc] = f[arc])
  BY <1>2
<1> HIDE DEF R, flow
<1>5. SumFunctionOnSet(flow, S) = SumFunctionOnSet(flow, R)
  BY <1>1, <1>3, <1>4, SumOverSupport
<1>6. SumFunctionOnSet(flow, R) = SumFunctionOnSet(f, R)
  BY <1>1, <1>3, <1>4, SumOfSame
<1> QED BY <1>5, <1>6 DEF flow, R

\* A flow of all demands carries the demand, and only along open arcs.
LEMMA WholeFlow ==
  ASSUME req \in Requests, NEW x \in SUBSET Arcs(g), NEW f \in DemandFlows(g, coms, x)
  PROVE  /\ OnArcs(Arcs(g), f) \in [Arcs(g) -> Nat]
         /\ Carrying(OnArcs(Arcs(g), f)) \subseteq x
         /\ Balanced(OnArcs(Arcs(g), f))
<1> DEFINE flow == OnArcs(Arcs(g), f)
<1>1. f \in [x -> Nat]
  BY DemandFlowIsNat
<1>2. flow \in [Arcs(g) -> Nat] /\ Carrying(flow) \subseteq x
  BY <1>1 DEF OnArcs, Or, Carrying
<1>3. ASSUME NEW n \in EnabledNodes(g)
      PROVE  SumFunctionOnSet(flow, OutArcs(g, n)) - SumFunctionOnSet(flow, InArcs(g, n))
               = NetDemand(g, coms, n)
  <2>1. PICK F : Routed(F, x) /\ f = Together(F, x)
    BY DemandFlowIsRouted
  <2>2. /\ OutArcs(g, n) \in SUBSET Arcs(g) /\ InArcs(g, n) \in SUBSET Arcs(g)
        /\ OutArcs(g, n) \cap x = {arc \in x : From(g, arc) = n}
        /\ InArcs(g, n) \cap x = {arc \in x : To(g, arc) = n}
    BY DEF OutArcs, InArcs
  <2>3. /\ SumFunctionOnSet(flow, OutArcs(g, n)) = Leaving(g, x, f, n)
        /\ SumFunctionOnSet(flow, InArcs(g, n)) = Entering(g, x, f, n)
    BY <1>1, <2>2, SumOnArcs DEF Leaving, Entering
  <2>4. Leaving(g, x, f, n) - Entering(g, x, f, n) = NetDemand(g, coms, n)
    BY <2>1, TogetherConserves
  <2> QED BY <2>3, <2>4
<1>4. Balanced(flow)
  <2> HIDE DEF flow
  <2> QED BY <1>3 DEF Balanced
<1> QED BY <1>2, <1>4

\* The flow of a zone in the place of what was there.
Composed(zone, f, old) ==
  [arc \in Arcs(g) |-> IF arc[1] \in zone.edges THEN Or(f, arc, 0) ELSE old[arc]]

LEMMA ComposedSum ==
  ASSUME req \in Requests, NEW zone, NEW x \in SUBSET Arcs(g),
         NEW f \in [ZoneArcs(zone, x) -> Nat], NEW old \in [Arcs(g) -> Nat],
         NEW S \in SUBSET Arcs(g)
  PROVE  /\ SumFunctionOnSet(Composed(zone, f, old), S)
              = SumFunctionOnSet(f, S \cap ZoneArcs(zone, x))
                + SumFunctionOnSet(old, S \cap Outside(zone))
         /\ SumFunctionOnSet(f, S \cap ZoneArcs(zone, x)) \in Int
         /\ SumFunctionOnSet(old, S \cap Outside(zone)) \in Int
<1> DEFINE flow == Composed(zone, f, old)
           R    == S \cap Outside(zone)
           Q    == S \ R
           T    == S \cap ZoneArcs(zone, x)
<1>1. IsFiniteSet(S) /\ IsFiniteSet(R) /\ IsFiniteSet(Q) /\ IsFiniteSet(T)
  BY CallFacts, GraphFacts, FS_Subset
<1>2. \A arc \in R : flow[arc] = old[arc] /\ old[arc] \in Nat
  BY DEF Composed, Outside
<1>3. \A arc \in T : flow[arc] = f[arc] /\ f[arc] \in Nat
  BY DEF Composed, ZoneArcs, Or
<1>4. \A arc \in Q \ T : flow[arc] = 0
  BY DEF Composed, ZoneArcs, Outside, Or
<1>5. T \in SUBSET Q /\ R \in SUBSET S
  BY DEF ZoneArcs, Outside
<1>6. Integral(flow, S) /\ Integral(flow, Q) /\ Integral(f, T) /\ Integral(old, R)
  BY <1>2, <1>3, <1>4 DEF Integral
<1> HIDE DEF flow, R, T
<1>7. SumFunctionOnSet(flow, S) = SumFunctionOnSet(flow, R) + SumFunctionOnSet(flow, Q)
  BY <1>1, <1>5, <1>6, SumOfParts
<1> HIDE DEF Q
<1>8. SumFunctionOnSet(flow, R) = SumFunctionOnSet(old, R)
  BY <1>1, <1>2, <1>6, SumOfSame
<1>9. SumFunctionOnSet(flow, Q) = SumFunctionOnSet(flow, T)
  BY <1>1, <1>4, <1>5, <1>6, SumOverSupport
<1>10. SumFunctionOnSet(flow, T) = SumFunctionOnSet(f, T)
  BY <1>1, <1>3, <1>6, SumOfSame
<1>11. SumFunctionOnSet(f, T) \in Int /\ SumFunctionOnSet(old, R) \in Int
  BY <1>1, <1>6, SumIsInt
<1>12. SumFunctionOnSet(flow, S) = SumFunctionOnSet(f, T) + SumFunctionOnSet(old, R)
  BY <1>7, <1>8, <1>9, <1>10, <1>11
<1> QED BY <1>11, <1>12 DEF flow, R, T

\* A zone has all passages between its nodes and no other.
Inner(zone) == zone.edges = EdgesInside(g, zone.nodes)

\* Since a zone routes what the rest of the flow brings and takes, putting its
\* flow into the rest leaves every node balanced.
LEMMA ComposedBalance ==
  ASSUME req \in Requests, NEW zone, Inner(zone), NEW x \in SUBSET Arcs(g),
         NEW old \in [Arcs(g) -> Nat], Balanced(old),
         NEW f \in Routings(g, ZoneArcs(zone, x), ZoneNetSupply(zone, old))
  PROVE  /\ Composed(zone, f, old) \in [Arcs(g) -> Nat]
         /\ Balanced(Composed(zone, f, old))
<1> DEFINE arcs == ZoneArcs(zone, x)
           out  == Outside(zone)
           flow == Composed(zone, f, old)
<1>1. f \in [arcs -> Nat] /\ Conserves(g, arcs, f, ZoneNetSupply(zone, old))
  BY DEF Routings
<1>2. flow \in [Arcs(g) -> Nat]
  BY <1>1 DEF Composed, Or
<1>3. arcs \in SUBSET Arcs(g) /\ out \in SUBSET Arcs(g)
  BY DEF ZoneArcs, Outside
<1>4. ASSUME NEW n \in EnabledNodes(g)
      PROVE  SumFunctionOnSet(flow, OutArcs(g, n)) - SumFunctionOnSet(flow, InArcs(g, n))
               = NetDemand(g, coms, n)
  <2> DEFINE O == OutArcs(g, n)
             I == InArcs(g, n)
  <2>1. O \in SUBSET Arcs(g) /\ I \in SUBSET Arcs(g)
    BY DEF OutArcs, InArcs
  <2>2. /\ O \cap arcs = {arc \in arcs : From(g, arc) = n}
        /\ O \cap out = {arc \in out : From(g, arc) = n}
        /\ I \cap arcs = {arc \in arcs : To(g, arc) = n}
        /\ I \cap out = {arc \in out : To(g, arc) = n}
    BY <1>3 DEF OutArcs, InArcs
  <2> DEFINE zo == Leaving(g, arcs, f, n)
             zi == Entering(g, arcs, f, n)
             ro == Leaving(g, out, old, n)
             ri == Entering(g, out, old, n)
  <2>3. /\ SumFunctionOnSet(flow, O) = zo + ro /\ zo \in Int /\ ro \in Int
        /\ SumFunctionOnSet(flow, I) = zi + ri /\ zi \in Int /\ ri \in Int
    <3>1. /\ zo = SumFunctionOnSet(f, O \cap arcs) /\ zi = SumFunctionOnSet(f, I \cap arcs)
          /\ ro = SumFunctionOnSet(old, O \cap out) /\ ri = SumFunctionOnSet(old, I \cap out)
      BY <2>2 DEF Leaving, Entering
    <3>2. \A S \in SUBSET Arcs(g) :
            /\ SumFunctionOnSet(flow, S)
                 = SumFunctionOnSet(f, S \cap arcs) + SumFunctionOnSet(old, S \cap out)
            /\ SumFunctionOnSet(f, S \cap arcs) \in Int
            /\ SumFunctionOnSet(old, S \cap out) \in Int
      BY <1>1, ComposedSum
    <3> HIDE DEF O, I, zo, zi, ro, ri, flow, arcs, out
    <3> QED BY <2>1, <3>1, <3>2
  <2>4. NetDemand(g, coms, n) \in Int
    BY NetDemandIsNumber
  <2>5. CASE n \in zone.nodes
    <3>1. zo - zi = ZoneNetSupply(zone, old)[n]
      BY <1>1, <2>5 DEF Conserves, ZoneNetSupply
    <3>2. ZoneNetSupply(zone, old)[n] = NetDemand(g, coms, n) + ri - ro
      BY <2>5 DEF ZoneNetSupply
    <3> HIDE DEF O, I, zo, zi, ro, ri, flow
    <3>3. SumFunctionOnSet(flow, O) - SumFunctionOnSet(flow, I) = NetDemand(g, coms, n)
      BY <2>3, <2>4, <3>1, <3>2
    <3> QED BY <3>3 DEF O, I
  <2>6. CASE n \notin zone.nodes
    <3>1. \A arc \in Arcs(g) : From(g, arc) = n \/ To(g, arc) = n => arc[1] \notin zone.edges
      BY <2>6 DEF Inner, EdgesInside, Ends, From, To, Arcs
    <3>2. O \cap arcs = {} /\ I \cap arcs = {} /\ O \cap out = O /\ I \cap out = I
      BY <3>1 DEF OutArcs, InArcs, ZoneArcs, Outside
    <3>3. zo = 0 /\ zi = 0
      BY <2>2, <3>2, SumOfNone DEF Leaving, Entering
    <3>4. ro = SumFunctionOnSet(old, O) /\ ri = SumFunctionOnSet(old, I)
      BY <2>2, <3>2 DEF Leaving, Entering
    <3>5. SumFunctionOnSet(old, O) - SumFunctionOnSet(old, I) = NetDemand(g, coms, n)
      BY DEF Balanced
    <3> HIDE DEF O, I, zo, zi, ro, ri, flow
    <3>6. SumFunctionOnSet(flow, O) - SumFunctionOnSet(flow, I) = NetDemand(g, coms, n)
      BY <2>3, <3>3, <3>4, <3>5
    <3> QED BY <3>6 DEF O, I
  <2> QED BY <2>5, <2>6
<1>5. Balanced(flow)
  <2> HIDE DEF flow
  <2> QED BY <1>4 DEF Balanced
<1> QED BY <1>2, <1>5

-----------------------------------------------------------------------------
(* Zones *)

Triggered == req.triggered \cap ActiveEdges(g)

\* A neighbourhood of at most so many hops has what it is about.
LEMMA WithinFacts ==
  ASSUME NEW seeds \in SUBSET EnabledNodes(g), NEW hops \in Nat
  PROVE  seeds \subseteq Within(g, seeds, hops) /\ Within(g, seeds, hops) \subseteq EnabledNodes(g)
<1> DEFINE After(ball) == ball \cup UNION {Neighbours(g, n) : n \in ball}
           X           == {ball \in SUBSET EnabledNodes(g) : seeds \subseteq ball}
           Step        == [p \in (1 .. hops) \X X |-> After(p[2])]
           Finds(f)    == f = [h \in 0 .. hops |-> IF h = 0 THEN seeds ELSE After(f[h - 1])]
           ball        == CHOOSE f : Finds(f)
<1>1. \A n : Neighbours(g, n) \subseteq EnabledNodes(g)
  BY DEF Neighbours, Adjacent, Backwards, ActiveEdges, Ends
<1>2. \A b \in X : After(b) \in X
  BY <1>1
<1>3. seeds \in X
  OBVIOUS
<1>4. \E f : Finds(f)
  <2>1. Step \in [(1 .. hops) \X X -> X]
    <3> HIDE DEF After, X
    <3> QED BY <1>2
  <2>2. PICK f : Iterates(f, hops, X, seeds, Step)
    <3> HIDE DEF Step, X
    <3> QED BY <1>3, <2>1, UpToRecursion
  <2>3. /\ f \in [0 .. hops -> X]
        /\ f[0] = seeds
        /\ \A h \in 1 .. hops : f[h] = Step[<<h, f[h - 1]>>]
    <3> HIDE DEF Step, X
    <3> QED BY <2>2 DEF Iterates
  <2>4. ASSUME NEW h \in 0 .. hops PROVE f[h] = IF h = 0 THEN seeds ELSE After(f[h - 1])
    <3>1. CASE h = 0
      BY <2>3, <3>1
    <3>2. CASE h # 0
      <4>1. h \in 1 .. hops /\ h - 1 \in 0 .. hops
        BY <3>2
      <4>2. f[h - 1] \in X /\ f[h] = Step[<<h, f[h - 1]>>]
        BY <2>3, <4>1
      <4> HIDE DEF After, X
      <4> QED BY <3>2, <4>1, <4>2
    <3> QED BY <3>1, <3>2
  <2>5. Finds(f)
    <3>1. f \in [0 .. hops -> X]
      BY <2>3
    <3> HIDE DEF Step, After, X
    <3> QED BY <2>4, <3>1
  <2> QED BY <2>5
<1>5. Finds(ball)
  <2> HIDE DEF Finds
  <2> QED BY <1>4
<1>6. Within(g, seeds, hops) = ball[hops]
  BY DEF Within
<1> DEFINE Good == {h \in 0 .. hops : ball[h] \in X}
<1>7. 0 \in Good
  <2>1. 0 \in 0 .. hops
    OBVIOUS
  <2>2. ball[0] = seeds
    <3> HIDE DEF After, ball
    <3> QED BY <1>5, <2>1
  <2> HIDE DEF X, ball
  <2> QED BY <1>3, <2>1, <2>2
<1>8. ASSUME NEW h \in 1 .. hops, h - 1 \in Good PROVE h \in Good
  <2>1. ball[h] = After(ball[h - 1])
    <3>1. h \in 0 .. hops /\ h # 0
      OBVIOUS
    <3> HIDE DEF ball, After
    <3> QED BY <1>5, <3>1
  <2>2. h \in 0 .. hops
    OBVIOUS
  <2> HIDE DEF After, X, ball
  <2> QED BY <1>2, <1>8, <2>1, <2>2
<1>9. hops \in Good
  <2>1. hops \in 0 .. hops
    OBVIOUS
  <2> HIDE DEF Good
  <2> QED BY <1>7, <1>8, <2>1, UpToInduction
<1> QED BY <1>6, <1>9

\* Zones before they are completed: every trigger has its ends inside.
CoreZones ==
  {c \in [seedEdges : SUBSET Triggered, seedNodes : SUBSET EnabledNodes(g),
          nodes : (SUBSET EnabledNodes(g)) \ {{}}, severity : Int] :
     \A e \in c.seedEdges : Ends(g, e) \subseteq c.nodes}

LEMMA SeverityIsNumber ==
  ASSUME req \in Requests, NEW e \in ActiveEdges(g)
  PROVE  e \in DOMAIN severity /\ severity[e] \in Int
<1>1. e \in DOMAIN severity
      /\ severity[e] = IF e \in DOMAIN inp.s THEN Stress(inp, e, inp.s[e]) ELSE 0
  BY DEF severity, ActiveEdges
<1>2. CASE e \notin DOMAIN inp.s
  BY <1>1, <1>2
<1>3. CASE e \in DOMAIN inp.s
  <2> DEFINE w == Or(inp.weight, e, 100)
             p == w * inp.s[e]
             q == Or(inp.sBar, e, 0) + 1
  <2>1. severity[e] = p \div q
    BY <1>1, <1>3 DEF Stress, EpsilonZero
  <2>2. w \in Int /\ inp.s[e] \in Nat /\ Or(inp.sBar, e, 0) \in Nat
    BY <1>3, InputFacts, WeightFacts
  <2>3. p \in Int /\ q \in Nat \ {0}
    <3> HIDE DEF w
    <3> QED BY <2>2
  <2> HIDE DEF p, q
  <2> QED BY <1>1, <2>1, <2>3
<1> QED BY <1>2, <1>3

coresOfCall == Cores(g, req.triggered, req.triggeredNodes, req.cfg.hops, severity)

LEMMA EdgeCoreFacts ==
  ASSUME req \in Requests, NEW e \in Triggered
  PROVE  Core({e}, {}, Within(g, Ends(g, e), req.cfg.hops), severity[e]) \in CoreZones
<1> DEFINE near == Within(g, Ends(g, e), req.cfg.hops)
<1>1. Ends(g, e) \in SUBSET EnabledNodes(g) /\ Ends(g, e) # {} /\ e \in ActiveEdges(g)
  BY DEF Triggered, ActiveEdges, Ends
<1>2. req.cfg.hops \in Nat
  BY RequestsAssumption
<1>3. Ends(g, e) \subseteq near /\ near \subseteq EnabledNodes(g)
  BY <1>1, <1>2, WithinFacts
<1>4. severity[e] \in Int
  BY <1>1, SeverityIsNumber
<1> HIDE DEF near
<1> QED BY <1>1, <1>3, <1>4 DEF CoreZones, Core, near

LEMMA NodeCoreFacts ==
  ASSUME req \in Requests, NEW n \in EnabledNodes(g)
  PROVE  Core({}, {n}, Within(g, {n}, req.cfg.hops),
              MaxOr0({severity[arc[1]] : arc \in OutArcs(g, n)})) \in CoreZones
<1> DEFINE near == Within(g, {n}, req.cfg.hops)
           O    == OutArcs(g, n)
           f    == [arc \in O |-> severity[arc[1]]]
           V    == {f[arc] : arc \in O}
           W    == {severity[arc[1]] : arc \in O}
<1>1. {n} \subseteq near /\ near \subseteq EnabledNodes(g)
  <2>1. req.cfg.hops \in Nat
    BY RequestsAssumption
  <2> QED BY <2>1, WithinFacts
<1>2. IsFiniteSet(O)
  <2>1. O \subseteq Arcs(g)
    BY DEF OutArcs
  <2> HIDE DEF O
  <2> QED BY <2>1, CallFacts, GraphFacts, FS_Subset
<1>3. V = W
  OBVIOUS
<1>4. IsFiniteSet(V)
  <2> HIDE DEF f, O
  <2> QED BY <1>2, FiniteImage
<1>5. W \in SUBSET Int
  BY SeverityIsNumber DEF OutArcs, Arcs
<1>6. MaxOr0(W) \in Int
  <2>1. IsFiniteSet(W)
    BY <1>3, <1>4
  <2> HIDE DEF W
  <2>2. CASE W = {}
    BY <2>2 DEF MaxOr0
  <2>3. CASE W # {}
    BY <1>5, <2>1, <2>3, MaxFacts DEF MaxOr0
  <2> QED BY <2>2, <2>3
<1> HIDE DEF near, W
<1> QED BY <1>1, <1>6 DEF CoreZones, Core, near, W

LEMMA CoresAreZones ==
  ASSUME req \in Requests
  PROVE  coresOfCall \in Seq(CoreZones)
<1> DEFINE hops == req.cfg.hops
           Edge1(e) == Core({e}, {}, Within(g, Ends(g, e), hops), severity[e])
           Node1(n) == Core({}, {n}, Within(g, {n}, hops),
                            MaxOr0({severity[arc[1]] : arc \in OutArcs(g, n)}))
           ns == req.triggeredNodes \cap EnabledNodes(g)
           s1 == [i \in DOMAIN InOrder(Triggered) |-> Edge1(InOrder(Triggered)[i])]
           s2 == [i \in DOMAIN InOrder(ns) |-> Node1(InOrder(ns)[i])]
<1>1. /\ IsFiniteSet(Triggered) /\ Triggered \subseteq Nat
      /\ IsFiniteSet(ns) /\ ns \subseteq Nat
  BY CallFacts, GraphFacts, FS_Subset DEF Triggered
<1>2. /\ DOMAIN InOrder(Triggered) = 1 .. Cardinality(Triggered) /\ Cardinality(Triggered) \in Nat
      /\ {InOrder(Triggered)[i] : i \in DOMAIN InOrder(Triggered)} = Triggered
  BY <1>1, InOrderFacts
<1>3. /\ DOMAIN InOrder(ns) = 1 .. Cardinality(ns) /\ Cardinality(ns) \in Nat
      /\ {InOrder(ns)[i] : i \in DOMAIN InOrder(ns)} = ns
  <2> HIDE DEF ns
  <2> QED BY <1>1, InOrderFacts
<1>4. s1 \in [1 .. Cardinality(Triggered) -> CoreZones]
  <2>1. \A e \in Triggered : Edge1(e) \in CoreZones
    BY EdgeCoreFacts
  <2> HIDE DEF Edge1
  <2> QED BY <1>2, <2>1
<1>5. s2 \in [1 .. Cardinality(ns) -> CoreZones]
  <2>1. \A n \in ns : Node1(n) \in CoreZones
    BY NodeCoreFacts
  <2> HIDE DEF Node1, ns
  <2> QED BY <1>3, <2>1
<1>6. coresOfCall = s1 \o s2
  BY DEF coresOfCall, Cores, Triggered
<1> HIDE DEF s1, s2, ns
<1>7. s1 \in Seq(CoreZones) /\ s2 \in Seq(CoreZones)
  BY <1>2, <1>3, <1>4, <1>5
<1> QED BY <1>6, <1>7, ConcatProperties

LEMMA JoinedIsZone ==
  ASSUME NEW a \in CoreZones, NEW b \in CoreZones
  PROVE  /\ Joined(a, b) \in CoreZones
         /\ Joined(a, b).nodes = a.nodes \cup b.nodes
         /\ Joined(a, b).seedEdges = a.seedEdges \cup b.seedEdges
<1> DEFINE most == Max({a.severity, b.severity})
<1>1. a.severity \in Int /\ b.severity \in Int
  BY DEF CoreZones
<1>2. most \in Int
  <2>1. IsFiniteSet({a.severity, b.severity})
    BY PairIsFinite
  <2>2. {a.severity, b.severity} \in SUBSET Int /\ {a.severity, b.severity} # {}
    BY <1>1
  <2>3. most \in {a.severity, b.severity}
    BY <2>1, <2>2, MaxFacts
  <2> QED BY <1>1, <2>3
<1>3. Joined(a, b) = [seedEdges |-> a.seedEdges \cup b.seedEdges,
                      seedNodes |-> a.seedNodes \cup b.seedNodes,
                      nodes |-> a.nodes \cup b.nodes, severity |-> most]
  BY DEF Joined, Core
<1> HIDE DEF most
<1>4. Joined(a, b) \in CoreZones
  BY <1>2, <1>3 DEF CoreZones
<1> QED BY <1>3, <1>4

\* How the new zone grows while the zones before are looked at.
Growing(grown, merged, zone) ==
  /\ grown \in [0 .. Len(merged) -> CoreZones]
  /\ grown[0] = zone
  /\ \A i \in 1 .. Len(merged) :
       grown[i] = IF Meet(merged[i], grown[i - 1]) THEN Joined(merged[i], grown[i - 1])
                  ELSE grown[i - 1]

Apart(merged, grown) == {i \in DOMAIN merged : ~Meet(merged[i], grown[i - 1])}

LEMMA AbsorbGrows ==
  ASSUME NEW merged \in Seq(CoreZones), NEW zone \in CoreZones
  PROVE  \E grown :
           /\ Growing(grown, merged, zone)
           /\ Absorb(merged, zone)
                = Append([k \in DOMAIN InOrder(Apart(merged, grown)) |->
                            merged[InOrder(Apart(merged, grown))[k]]], grown[Len(merged)])
<1> DEFINE n           == Len(merged)
           X           == CoreZones
           After(i, z) == IF Meet(merged[i], z) THEN Joined(merged[i], z) ELSE z
           Step        == [p \in (1 .. n) \X X |-> After(p[1], p[2])]
           Finds(f)    == f = [i \in 0 .. n |-> IF i = 0 THEN zone ELSE After(i, f[i - 1])]
           grown       == CHOOSE f : Finds(f)
<1>1. n \in Nat /\ \A i \in 1 .. n : merged[i] \in X
  OBVIOUS
<1>2. \A i \in 1 .. n, z \in X : After(i, z) \in X
  BY <1>1, JoinedIsZone
<1>3. \E f : Finds(f)
  <2>1. Step \in [(1 .. n) \X X -> X]
    <3> HIDE DEF After, X, n
    <3> QED BY <1>2
  <2>2. PICK f : Iterates(f, n, X, zone, Step)
    <3>1. zone \in X
      OBVIOUS
    <3> HIDE DEF Step, X, n
    <3> QED BY <1>1, <2>1, <3>1, UpToRecursion
  <2>3. /\ f \in [0 .. n -> X]
        /\ f[0] = zone
        /\ \A i \in 1 .. n : f[i] = Step[<<i, f[i - 1]>>]
    <3> HIDE DEF Step, X, n
    <3> QED BY <2>2 DEF Iterates
  <2>4. ASSUME NEW i \in 0 .. n PROVE f[i] = IF i = 0 THEN zone ELSE After(i, f[i - 1])
    <3>1. CASE i = 0
      BY <2>3, <3>1
    <3>2. CASE i # 0
      <4>1. i \in 1 .. n /\ i - 1 \in 0 .. n
        BY <1>1, <3>2
      <4>2. f[i - 1] \in X /\ f[i] = Step[<<i, f[i - 1]>>]
        BY <2>3, <4>1
      <4> HIDE DEF After, X
      <4> QED BY <3>2, <4>1, <4>2
    <3> QED BY <3>1, <3>2
  <2>5. Finds(f)
    <3>1. f \in [0 .. n -> X]
      BY <2>3
    <3> HIDE DEF Step, After, X, n
    <3> QED BY <2>4, <3>1
  <2> QED BY <2>5
<1>4. Finds(grown)
  <2> HIDE DEF Finds
  <2> QED BY <1>3
<1>5. Absorb(merged, zone)
        = Append([k \in DOMAIN InOrder(Apart(merged, grown)) |->
                    merged[InOrder(Apart(merged, grown))[k]]], grown[n])
  BY DEF Absorb, Apart
<1>6. grown[0] = zone
  <2>1. 0 \in 0 .. n
    BY <1>1
  <2> HIDE DEF After, grown, n
  <2> QED BY <1>4, <2>1
<1>7. ASSUME NEW i \in 1 .. n PROVE grown[i] = After(i, grown[i - 1])
  <2>1. i \in 0 .. n /\ i # 0
    BY <1>1
  <2> HIDE DEF After, grown, n
  <2> QED BY <1>4, <2>1
<1> DEFINE Good == {i \in 0 .. n : grown[i] \in X}
<1>8. 0 \in Good
  <2>1. 0 \in 0 .. n
    BY <1>1
  <2> HIDE DEF grown, n
  <2> QED BY <1>6, <2>1
<1>9. ASSUME NEW i \in 1 .. n, i - 1 \in Good PROVE i \in Good
  <2>1. i \in 0 .. n
    BY <1>1
  <2> HIDE DEF After, X, grown, n
  <2> QED BY <1>2, <1>7, <1>9, <2>1
<1>10. \A i \in 0 .. n : i \in Good
  <2> HIDE DEF Good
  <2> QED BY <1>1, <1>8, <1>9, UpToInduction
<1>11. grown \in [0 .. n -> X]
  <2>1. \E h : grown = [i \in 0 .. n |-> h[i]]
    <3> DEFINE h == [i \in 0 .. n |-> IF i = 0 THEN zone ELSE After(i, grown[i - 1])]
    <3>1. grown = h
      <4> HIDE DEF After, grown, n
      <4> QED BY <1>4
    <3>2. h = [i \in 0 .. n |-> h[i]]
      OBVIOUS
    <3> HIDE DEF h, grown
    <3> QED BY <3>1, <3>2
  <2> HIDE DEF grown, X, n
  <2> QED BY <1>10, <2>1
<1>12. Growing(grown, merged, zone)
  <2> HIDE DEF grown
  <2> QED BY <1>6, <1>7, <1>11 DEF Growing
<1> HIDE DEF grown
<1> QED BY <1>5, <1>12

\* What absorbing gives: the zones that stay apart, each once, and the grown one.
Absorbed(q, merged, grown, place) ==
  /\ q \in Seq(CoreZones) /\ Len(q) \in Nat \ {0}
  /\ place \in [1 .. Len(q) - 1 -> Apart(merged, grown)]
  /\ \A i \in Apart(merged, grown) : \E k \in 1 .. Len(q) - 1 : place[k] = i
  /\ \A j, k \in 1 .. Len(q) - 1 : place[j] = place[k] => j = k
  /\ \A k \in 1 .. Len(q) - 1 : q[k] = merged[place[k]]
  /\ q[Len(q)] = grown[Len(merged)]

LEMMA AbsorbFacts ==
  ASSUME NEW merged \in Seq(CoreZones), NEW zone \in CoreZones
  PROVE  \E grown, place : /\ Growing(grown, merged, zone)
                           /\ Absorbed(Absorb(merged, zone), merged, grown, place)
<1>1. PICK grown : /\ Growing(grown, merged, zone)
                   /\ Absorb(merged, zone)
                        = Append([k \in DOMAIN InOrder(Apart(merged, grown)) |->
                                    merged[InOrder(Apart(merged, grown))[k]]], grown[Len(merged)])
  BY AbsorbGrows
<1> DEFINE S     == Apart(merged, grown)
           place == InOrder(S)
           n     == Cardinality(S)
           rest  == [k \in DOMAIN place |-> merged[place[k]]]
           last  == grown[Len(merged)]
           q     == Absorb(merged, zone)
<1>2. Len(merged) \in Nat /\ DOMAIN merged = 1 .. Len(merged)
  OBVIOUS
<1>3. IsFiniteSet(S) /\ S \subseteq Nat /\ S \subseteq 1 .. Len(merged)
  <2>1. S \subseteq 1 .. Len(merged)
    BY <1>2 DEF Apart
  <2>2. IsFiniteSet(1 .. Len(merged))
    BY <1>2, FS_Interval
  <2> HIDE DEF S
  <2>3. IsFiniteSet(S)
    BY <2>1, <2>2, FS_Subset
  <2>4. S \subseteq Nat
    BY <1>2, <2>1
  <2> QED BY <2>1, <2>3, <2>4
<1>4. /\ DOMAIN place = 1 .. n /\ n \in Nat /\ place \in [1 .. n -> S]
      /\ {place[i] : i \in DOMAIN place} = S
      /\ \A i, j \in DOMAIN place : place[i] = place[j] => i = j
  <2> HIDE DEF S
  <2> QED BY <1>3, InOrderFacts
<1> HIDE DEF place, n, S
<1>5. \A k \in 1 .. n : place[k] \in DOMAIN merged
  BY <1>2, <1>3, <1>4
<1>6. rest \in [1 .. n -> CoreZones]
  BY <1>4, <1>5
<1>7. last \in CoreZones
  <2>1. Len(merged) \in 0 .. Len(merged)
    BY <1>2
  <2> QED BY <1>1, <2>1 DEF Growing
<1>8. q = Append(rest, last)
  BY <1>1 DEF place, S
<1>9. rest \in Seq(CoreZones) /\ Len(rest) = n
  BY <1>4, <1>6
<1>10. \A k \in 1 .. n : rest[k] = merged[place[k]]
  BY <1>4
<1> HIDE DEF rest, last, q
<1>11. /\ q \in Seq(CoreZones) /\ Len(q) = n + 1
       /\ \A k \in 1 .. n : q[k] = rest[k]
       /\ q[n + 1] = last
  BY <1>4, <1>7, <1>8, <1>9, AppendProperties
<1>12. Absorbed(q, merged, grown, place)
  <2>1. Len(q) - 1 = n /\ Len(q) \in Nat \ {0}
    BY <1>4, <1>11
  <2>2. \A i \in S : \E k \in 1 .. n : place[k] = i
    BY <1>4
  <2> QED BY <1>4, <1>10, <1>11, <2>1, <2>2 DEF Absorbed, S, last
<1> QED BY <1>1, <1>12 DEF q

\* Places of neighbourhoods that hang together, whichever way they are split.
Chained(I) ==
  \A some \in (SUBSET I) \ {{}, I} :
    \E a \in some, b \in I \ some : Meet(coresOfCall[a], coresOfCall[b])

Over1(I) == UNION {coresOfCall[c].nodes : c \in I}

\* A zone of some of the first i neighbourhoods that hang together.
Bundle(zone, i) ==
  \E I \in SUBSET (1 .. i) : Chained(I) /\ zone.nodes = Over1(I)

\* The first i neighbourhoods divided into zones.
Divided(zones, i) ==
  /\ zones \in Seq(CoreZones)
  /\ \A j, k \in DOMAIN zones : j # k => ~Meet(zones[j], zones[k])
  /\ \A k \in DOMAIN zones : Bundle(zones[k], i)
  /\ \A c \in 1 .. i : \E k \in DOMAIN zones : coresOfCall[c].nodes \subseteq zones[k].nodes

LEMMA MeetIsSymmetric == ASSUME NEW a, NEW b, Meet(a, b) PROVE Meet(b, a)
  BY DEF Meet

LEMMA ChainsJoin ==
  ASSUME NEW I, NEW J, Chained(I), Chained(J),
         NEW a \in I, NEW b \in J, Meet(coresOfCall[a], coresOfCall[b])
  PROVE  Chained(I \cup J)
<1> SUFFICES ASSUME NEW some \in (SUBSET (I \cup J)) \ {{}, I \cup J}
             PROVE  \E c \in some, d \in (I \cup J) \ some : Meet(coresOfCall[c], coresOfCall[d])
  BY DEF Chained
<1> DEFINE p == some \cap I
           q == some \cap J
<1>1. CASE p # {} /\ p # I
  <2>1. p \in (SUBSET I) \ {{}, I}
    BY <1>1
  <2>2. PICK c \in p, d \in I \ p : Meet(coresOfCall[c], coresOfCall[d])
    <3> HIDE DEF p
    <3> QED BY <2>1 DEF Chained
  <2>3. c \in some /\ d \in (I \cup J) \ some
    OBVIOUS
  <2> QED BY <2>2, <2>3
<1>2. CASE q # {} /\ q # J
  <2>1. q \in (SUBSET J) \ {{}, J}
    BY <1>2
  <2>2. PICK c \in q, d \in J \ q : Meet(coresOfCall[c], coresOfCall[d])
    <3> HIDE DEF q
    <3> QED BY <2>1 DEF Chained
  <2>3. c \in some /\ d \in (I \cup J) \ some
    OBVIOUS
  <2> QED BY <2>2, <2>3
<1>3. CASE p \in {{}, I} /\ q \in {{}, J}
  <2>1. \/ a \in some /\ b \in (I \cup J) \ some
        \/ b \in some /\ a \in (I \cup J) \ some
    <3>1. p = I /\ q = J => some = I \cup J
      OBVIOUS
    <3>2. p = {} /\ q = {} => some = {}
      OBVIOUS
    <3>3. p = I /\ q = {} => a \in some /\ b \notin some
      OBVIOUS
    <3>4. p = {} /\ q = J => b \in some /\ a \notin some
      OBVIOUS
    <3>5. some # {} /\ some # I \cup J
      OBVIOUS
    <3> HIDE DEF p, q
    <3> QED BY <1>3, <3>1, <3>2, <3>3, <3>4, <3>5
  <2>2. Meet(coresOfCall[b], coresOfCall[a])
    BY MeetIsSymmetric
  <2> QED BY <2>1, <2>2
<1> QED BY <1>1, <1>2, <1>3

LEMMA BundlesJoin ==
  ASSUME NEW i, NEW z1 \in CoreZones, NEW z2 \in CoreZones, Bundle(z1, i), Bundle(z2, i),
         Meet(z1, z2)
  PROVE  Bundle(Joined(z1, z2), i)
<1>1. PICK I \in SUBSET (1 .. i) : Chained(I) /\ z1.nodes = Over1(I)
  BY DEF Bundle
<1>2. PICK J \in SUBSET (1 .. i) : Chained(J) /\ z2.nodes = Over1(J)
  BY DEF Bundle
<1>3. PICK n : n \in z1.nodes /\ n \in z2.nodes
  BY DEF Meet
<1>4. PICK a \in I : n \in coresOfCall[a].nodes
  BY <1>1, <1>3 DEF Over1
<1>5. PICK b \in J : n \in coresOfCall[b].nodes
  BY <1>2, <1>3 DEF Over1
<1>6. Meet(coresOfCall[a], coresOfCall[b])
  BY <1>4, <1>5 DEF Meet
<1>7. Chained(I \cup J)
  BY <1>1, <1>2, <1>6, ChainsJoin
<1>8. Joined(z1, z2).nodes = z1.nodes \cup z2.nodes
  BY JoinedIsZone
<1>9. Over1(I \cup J) = Over1(I) \cup Over1(J)
  BY DEF Over1
<1>10. Joined(z1, z2).nodes = Over1(I \cup J)
  BY <1>1, <1>2, <1>8, <1>9
<1>11. I \cup J \in SUBSET (1 .. i)
  OBVIOUS
<1> QED BY <1>7, <1>10, <1>11 DEF Bundle

\* While it grows the zone is one bundle, away from the zones that stay apart.
LEMMA GrownFacts ==
  ASSUME NEW c \in Nat, NEW merged \in Seq(CoreZones), NEW zone \in CoreZones,
         NEW grown, Growing(grown, merged, zone), Bundle(zone, c),
         \A k \in DOMAIN merged : Bundle(merged[k], c),
         \A j, k \in DOMAIN merged : j # k => ~Meet(merged[j], merged[k])
  PROVE  LET last == grown[Len(merged)]
         IN  /\ last \in CoreZones /\ Bundle(last, c) /\ zone.nodes \subseteq last.nodes
             /\ \A j \in Apart(merged, grown) : ~Meet(merged[j], last)
             /\ \A j \in DOMAIN merged \ Apart(merged, grown) : merged[j].nodes \subseteq last.nodes
<1> DEFINE n         == Len(merged)
           Fine(i)   == /\ Bundle(grown[i], c) /\ zone.nodes \subseteq grown[i].nodes
                        /\ \A j \in 1 .. i : IF j \in Apart(merged, grown)
                                             THEN ~Meet(merged[j], grown[i])
                                             ELSE merged[j].nodes \subseteq grown[i].nodes
           Good      == {i \in 0 .. n : Fine(i)}
<1>1. n \in Nat /\ DOMAIN merged = 1 .. n /\ \A k \in 1 .. n : merged[k] \in CoreZones
  OBVIOUS
<1>2. /\ grown \in [0 .. n -> CoreZones] /\ grown[0] = zone
      /\ \A i \in 1 .. n : grown[i] = IF Meet(merged[i], grown[i - 1])
                                      THEN Joined(merged[i], grown[i - 1]) ELSE grown[i - 1]
  BY DEF Growing
<1>3. 0 \in Good
  BY <1>1, <1>2
<1>4. ASSUME NEW i \in 1 .. n, Fine(i - 1) PROVE Fine(i)
  <2>1. i - 1 \in 0 .. n /\ grown[i - 1] \in CoreZones /\ merged[i] \in CoreZones
    BY <1>1, <1>2
  <2>2. i \in Apart(merged, grown) <=> ~Meet(merged[i], grown[i - 1])
    BY <1>1 DEF Apart
  <2>3. CASE Meet(merged[i], grown[i - 1])
    <3>1. grown[i] = Joined(merged[i], grown[i - 1])
      BY <1>2, <2>3
    <3>2. grown[i].nodes = merged[i].nodes \cup grown[i - 1].nodes
      BY <2>1, <3>1, JoinedIsZone
    <3>3. Bundle(grown[i], c)
      BY <1>1, <1>4, <2>1, <2>3, <3>1, BundlesJoin
    <3>4. ASSUME NEW j \in 1 .. i
          PROVE  IF j \in Apart(merged, grown) THEN ~Meet(merged[j], grown[i])
                 ELSE merged[j].nodes \subseteq grown[i].nodes
      <4>1. CASE j = i
        BY <2>2, <2>3, <3>2, <4>1
      <4>2. CASE j # i
        <5>1. j \in 1 .. i - 1 /\ j \in DOMAIN merged /\ i \in DOMAIN merged
          BY <1>1, <4>2
        <5>2. ~Meet(merged[j], merged[i])
          BY <4>2, <5>1
        <5> QED BY <1>4, <3>2, <5>1, <5>2 DEF Meet
      <4> QED BY <4>1, <4>2
    <3>5. zone.nodes \subseteq grown[i].nodes
      BY <1>4, <3>2
    <3> QED BY <3>3, <3>4, <3>5
  <2>4. CASE ~Meet(merged[i], grown[i - 1])
    <3>1. grown[i] = grown[i - 1]
      BY <1>2, <2>4
    <3>2. ASSUME NEW j \in 1 .. i
          PROVE  IF j \in Apart(merged, grown) THEN ~Meet(merged[j], grown[i])
                 ELSE merged[j].nodes \subseteq grown[i].nodes
      <4>1. CASE j = i
        BY <2>2, <2>4, <3>1, <4>1
      <4>2. CASE j # i
        <5>1. j \in 1 .. i - 1
          BY <4>2
        <5> QED BY <1>4, <3>1, <5>1
      <4> QED BY <4>1, <4>2
    <3> QED BY <1>4, <3>1, <3>2
  <2> QED BY <2>3, <2>4
<1>5. n \in Good
  <2>1. \A i \in 1 .. n : i - 1 \in Good => i \in Good
    <3> SUFFICES ASSUME NEW i \in 1 .. n, i - 1 \in Good PROVE i \in Good
      OBVIOUS
    <3>1. i \in 0 .. n
      BY <1>1
    <3> HIDE DEF Fine
    <3> QED BY <1>4, <3>1
  <2>2. n \in 0 .. n
    BY <1>1
  <2> HIDE DEF Good
  <2> QED BY <1>1, <1>3, <2>1, <2>2, UpToInduction
<1>6. Fine(n) /\ grown[n] \in CoreZones
  <2>1. n \in 0 .. n
    BY <1>1
  <2> QED BY <1>2, <1>5, <2>1
<1> QED BY <1>1, <1>6 DEF Apart

LEMMA AbsorbDivides ==
  ASSUME coresOfCall \in Seq(CoreZones), NEW i \in 1 .. Len(coresOfCall),
         NEW merged, Divided(merged, i - 1)
  PROVE  Divided(Absorb(merged, coresOfCall[i]), i)
<1> DEFINE zone == coresOfCall[i]
           q    == Absorb(merged, zone)
<1>1. i \in Nat /\ i - 1 \in Nat /\ zone \in CoreZones /\ merged \in Seq(CoreZones)
  BY DEF Divided
<1>2. PICK grown, place : /\ Growing(grown, merged, zone)
                          /\ Absorbed(q, merged, grown, place)
  BY <1>1, AbsorbFacts
<1> DEFINE last == grown[Len(merged)]
           n    == Len(q) - 1
<1>3. Bundle(zone, i)
  <2>1. {i} \in SUBSET (1 .. i)
    BY <1>1
  <2>2. Chained({i})
    BY DEF Chained
  <2>3. zone.nodes = Over1({i})
    <3>1. {coresOfCall[c].nodes : c \in {i}} = {zone.nodes}
      OBVIOUS
    <3> QED BY <3>1 DEF Over1
  <2> HIDE DEF zone
  <2> QED BY <2>1, <2>2, <2>3 DEF Bundle
<1>4. \A k \in DOMAIN merged : Bundle(merged[k], i)
  <2> SUFFICES ASSUME NEW k \in DOMAIN merged PROVE Bundle(merged[k], i)
    OBVIOUS
  <2>1. PICK I \in SUBSET (1 .. i - 1) : Chained(I) /\ merged[k].nodes = Over1(I)
    BY DEF Divided, Bundle
  <2>2. I \in SUBSET (1 .. i)
    BY <1>1
  <2> QED BY <2>1, <2>2 DEF Bundle
<1>5. \A j, k \in DOMAIN merged : j # k => ~Meet(merged[j], merged[k])
  BY DEF Divided
<1>6. /\ last \in CoreZones /\ Bundle(last, i) /\ zone.nodes \subseteq last.nodes
      /\ \A j \in Apart(merged, grown) : ~Meet(merged[j], last)
      /\ \A j \in DOMAIN merged \ Apart(merged, grown) : merged[j].nodes \subseteq last.nodes
  <2> HIDE DEF zone
  <2> QED BY <1>1, <1>2, <1>3, <1>4, <1>5, GrownFacts
<1>7. /\ q \in Seq(CoreZones) /\ Len(q) \in Nat \ {0}
      /\ place \in [1 .. n -> Apart(merged, grown)]
      /\ \A j \in Apart(merged, grown) : \E k \in 1 .. n : place[k] = j
      /\ \A j, k \in 1 .. n : place[j] = place[k] => j = k
      /\ \A k \in 1 .. n : q[k] = merged[place[k]]
      /\ q[n + 1] = last
  BY <1>2 DEF Absorbed
<1>8. n \in Nat /\ DOMAIN q = 1 .. n + 1 /\ Apart(merged, grown) \subseteq DOMAIN merged
  BY <1>7 DEF Apart
<1> HIDE DEF zone, q, last, n
<1>9. \A k \in 1 .. n + 1 : k \in 1 .. n \/ k = n + 1
  BY <1>8
<1>10. \A j, k \in DOMAIN q : j # k => ~Meet(q[j], q[k])
  <2> SUFFICES ASSUME NEW j \in DOMAIN q, NEW k \in DOMAIN q, j # k PROVE ~Meet(q[j], q[k])
    OBVIOUS
  <2>1. CASE j \in 1 .. n /\ k \in 1 .. n
    BY <1>5, <1>7, <1>8, <2>1
  <2>2. CASE j \in 1 .. n /\ k = n + 1
    BY <1>6, <1>7, <2>2
  <2>3. CASE j = n + 1 /\ k \in 1 .. n
    BY <1>6, <1>7, <2>3 DEF Meet
  <2> QED BY <1>8, <1>9, <2>1, <2>2, <2>3
<1>11. \A k \in DOMAIN q : Bundle(q[k], i)
  BY <1>4, <1>6, <1>7, <1>8, <1>9
<1>12. ASSUME NEW c \in 1 .. i
       PROVE  \E k \in DOMAIN q : coresOfCall[c].nodes \subseteq q[k].nodes
  <2>1. n + 1 \in DOMAIN q /\ q[n + 1] = last
    BY <1>7, <1>8
  <2>2. CASE c = i
    BY <1>6, <2>1, <2>2 DEF zone
  <2>3. CASE c # i
    <3>1. c \in 1 .. i - 1
      BY <1>1, <2>3
    <3>2. PICK j \in DOMAIN merged : coresOfCall[c].nodes \subseteq merged[j].nodes
      BY <3>1 DEF Divided
    <3>3. CASE j \in Apart(merged, grown)
      <4>1. PICK k \in 1 .. n : q[k] = merged[j]
        BY <1>7, <3>3
      <4>2. k \in DOMAIN q
        BY <1>8
      <4> QED BY <3>2, <4>1, <4>2
    <3>4. CASE j \notin Apart(merged, grown)
      BY <1>6, <2>1, <3>2, <3>4
    <3> QED BY <3>3, <3>4
  <2> QED BY <2>2, <2>3
<1>13. Divided(q, i)
  BY <1>7, <1>10, <1>11, <1>12 DEF Divided
<1> QED BY <1>13 DEF q, zone

LEMMA MergedIsDivided ==
  ASSUME coresOfCall \in Seq(CoreZones)
  PROVE  Divided(MergeOverlapping(coresOfCall), Len(coresOfCall))
<1> DEFINE n           == Len(coresOfCall)
           X           == Seq(CoreZones)
           After(i, m) == Absorb(m, coresOfCall[i])
           Step        == [p \in (1 .. n) \X X |-> After(p[1], p[2])]
           Finds(f)    == f = [i \in 0 .. n |-> IF i = 0 THEN <<>> ELSE After(i, f[i - 1])]
           merged      == CHOOSE f : Finds(f)
<1>1. n \in Nat /\ \A i \in 1 .. n : coresOfCall[i] \in CoreZones
  OBVIOUS
<1>2. ASSUME NEW i \in 1 .. n, NEW m \in X PROVE After(i, m) \in X
  <2>1. coresOfCall[i] \in CoreZones
    BY <1>1
  <2>2. PICK grown, place : Absorbed(Absorb(m, coresOfCall[i]), m, grown, place)
    BY <2>1, AbsorbFacts
  <2> QED BY <2>2 DEF Absorbed
<1>3. <<>> \in X
  OBVIOUS
<1>4. \E f : Finds(f)
  <2>1. Step \in [(1 .. n) \X X -> X]
    <3> HIDE DEF After, X, n
    <3> QED BY <1>2
  <2>2. PICK f : Iterates(f, n, X, <<>>, Step)
    <3> HIDE DEF Step, X, n
    <3> QED BY <1>1, <1>3, <2>1, UpToRecursion
  <2>3. /\ f \in [0 .. n -> X]
        /\ f[0] = <<>>
        /\ \A i \in 1 .. n : f[i] = Step[<<i, f[i - 1]>>]
    <3> HIDE DEF Step, X, n
    <3> QED BY <2>2 DEF Iterates
  <2>4. ASSUME NEW i \in 0 .. n PROVE f[i] = IF i = 0 THEN <<>> ELSE After(i, f[i - 1])
    <3>1. CASE i = 0
      BY <2>3, <3>1
    <3>2. CASE i # 0
      <4>1. i \in 1 .. n /\ i - 1 \in 0 .. n
        BY <1>1, <3>2
      <4>2. f[i - 1] \in X /\ f[i] = Step[<<i, f[i - 1]>>]
        BY <2>3, <4>1
      <4> HIDE DEF After, X
      <4> QED BY <3>2, <4>1, <4>2
    <3> QED BY <3>1, <3>2
  <2>5. Finds(f)
    <3>1. f \in [0 .. n -> X]
      BY <2>3
    <3> HIDE DEF Step, After, X, n
    <3> QED BY <2>4, <3>1
  <2> QED BY <2>5
<1>5. Finds(merged)
  <2> HIDE DEF Finds
  <2> QED BY <1>4
<1>6. MergeOverlapping(coresOfCall) = merged[n]
  BY DEF MergeOverlapping
<1> DEFINE Good == {i \in 0 .. n : Divided(merged[i], i)}
<1>7. 0 \in Good
  <2>1. 0 \in 0 .. n
    BY <1>1
  <2>2. merged[0] = <<>>
    <3> HIDE DEF After, merged, n
    <3> QED BY <1>5, <2>1
  <2>3. Divided(<<>>, 0)
    BY DEF Divided
  <2> HIDE DEF merged, n
  <2> QED BY <2>1, <2>2, <2>3
<1>8. ASSUME NEW i \in 1 .. n, i - 1 \in Good PROVE i \in Good
  <2>1. merged[i] = After(i, merged[i - 1])
    <3>1. i \in 0 .. n /\ i # 0
      BY <1>1
    <3> HIDE DEF merged, After, n
    <3> QED BY <1>5, <3>1
  <2>2. i \in 0 .. n /\ Divided(merged[i - 1], i - 1)
    <3> HIDE DEF merged
    <3> QED BY <1>1, <1>8
  <2>3. Divided(merged[i], i)
    <3> HIDE DEF merged
    <3> QED BY <2>1, <2>2, AbsorbDivides
  <2> HIDE DEF merged
  <2> QED BY <2>2, <2>3
<1>9. n \in Good
  <2>1. n \in 0 .. n
    BY <1>1
  <2> HIDE DEF Good, n
  <2> QED BY <1>1, <1>7, <1>8, <2>1, UpToInduction
<1> QED BY <1>6, <1>9

\* A zone is all the neighbourhoods inside it, and they hang together.
LEMMA PartsAreChained ==
  ASSUME coresOfCall \in Seq(CoreZones), NEW zone, Bundle(zone, Len(coresOfCall)),
         NEW P, P = {i \in DOMAIN coresOfCall : coresOfCall[i].nodes \subseteq zone.nodes}
  PROVE  Chained(P) /\ zone.nodes = Over1(P)
<1>1. PICK I \in SUBSET (1 .. Len(coresOfCall)) : Chained(I) /\ zone.nodes = Over1(I)
  BY DEF Bundle
<1>2. DOMAIN coresOfCall = 1 .. Len(coresOfCall)
      /\ \A i \in DOMAIN coresOfCall : coresOfCall[i].nodes # {}
  <2>1. \A i \in DOMAIN coresOfCall : coresOfCall[i] \in CoreZones
    OBVIOUS
  <2> QED BY <2>1 DEF CoreZones
<1>3. I \subseteq P /\ zone.nodes = Over1(P)
  BY <1>1, <1>2 DEF Over1
<1>4. \A c \in P : \E a \in I : Meet(coresOfCall[a], coresOfCall[c])
  <2> SUFFICES ASSUME NEW c \in P PROVE \E a \in I : Meet(coresOfCall[a], coresOfCall[c])
    OBVIOUS
  <2>1. PICK n : n \in coresOfCall[c].nodes /\ n \in Over1(I)
    BY <1>1, <1>2
  <2>2. PICK a \in I : n \in coresOfCall[a].nodes
    BY <2>1 DEF Over1
  <2> QED BY <2>1, <2>2 DEF Meet
<1>5. ASSUME NEW some \in (SUBSET P) \ {{}, P}
      PROVE  \E a \in some, b \in P \ some : Meet(coresOfCall[a], coresOfCall[b])
  <2> DEFINE p == some \cap I
  <2>1. CASE p # {} /\ p # I
    <3>1. p \in (SUBSET I) \ {{}, I}
      BY <2>1
    <3>2. PICK a \in p, b \in I \ p : Meet(coresOfCall[a], coresOfCall[b])
      <4> HIDE DEF p
      <4> QED BY <1>1, <3>1 DEF Chained
    <3>3. a \in some /\ b \in P \ some
      BY <1>3
    <3> QED BY <3>2, <3>3
  <2>2. CASE p = I
    <3>1. PICK b \in P : b \notin some
      OBVIOUS
    <3>2. PICK a \in I : Meet(coresOfCall[a], coresOfCall[b])
      BY <1>4
    <3> QED BY <2>2, <3>1, <3>2
  <2>3. CASE p = {}
    <3>1. PICK a \in some : TRUE
      OBVIOUS
    <3>2. PICK b \in I : Meet(coresOfCall[b], coresOfCall[a])
      BY <1>4
    <3>3. b \in P \ some /\ Meet(coresOfCall[a], coresOfCall[b])
      BY <1>3, <2>3, <3>2, MeetIsSymmetric
    <3> QED BY <3>3
  <2> QED BY <2>1, <2>2, <2>3
<1> QED BY <1>3, <1>5 DEF Chained

LEMMA ZonesOfRequest == ASSUME req \in Requests PROVE ZonesArePartition
<1> DEFINE zones == MergeOverlapping(coresOfCall)
           Parts(zone) == {i \in DOMAIN coresOfCall : coresOfCall[i].nodes \subseteq zone.nodes}
<1>1. coresOfCall \in Seq(CoreZones)
  BY CoresAreZones
<1>2. Divided(zones, Len(coresOfCall))
  BY <1>1, MergedIsDivided
<1>3. DOMAIN coresOfCall = 1 .. Len(coresOfCall)
  BY <1>1
<1> HIDE DEF zones
<1>4. \A j, k \in DOMAIN zones : j # k => ~Meet(zones[j], zones[k])
  BY <1>2 DEF Divided
<1>5. \A i \in DOMAIN coresOfCall : \E k \in DOMAIN zones : i \in Parts(zones[k])
  BY <1>2, <1>3 DEF Divided
<1>6. ASSUME NEW k \in DOMAIN zones
      PROVE  /\ zones[k].nodes = UNION {coresOfCall[i].nodes : i \in Parts(zones[k])}
             /\ \A some \in (SUBSET Parts(zones[k])) \ {{}, Parts(zones[k])} :
                  \E i \in some, j \in Parts(zones[k]) \ some : Meet(coresOfCall[i], coresOfCall[j])
  <2>1. Bundle(zones[k], Len(coresOfCall))
    BY <1>2 DEF Divided
  <2>2. Chained(Parts(zones[k])) /\ zones[k].nodes = Over1(Parts(zones[k]))
    BY <1>1, <2>1, PartsAreChained
  <2> HIDE DEF Parts
  <2> QED BY <2>2 DEF Chained, Over1
<1> QED BY <1>4, <1>5, <1>6 DEF ZonesArePartition, coresOfCall, zones

\* Ranking only changes the order.
LEMMA RankedFacts ==
  ASSUME NEW n \in Nat, NEW zones, DOMAIN zones = 1 .. n,
         \A i \in 1 .. n : zones[i].severity \in Int /\ ZoneKey(zones[i]) \in Int
  PROVE  Ranked(zones) \in Seq({zones[i] : i \in 1 .. n})
<1> DEFINE places == DOMAIN zones
           Before(i, j) ==
             \/ zones[i].severity > zones[j].severity
             \/ /\ zones[i].severity = zones[j].severity
                /\ \/ ZoneKey(zones[i]) < ZoneKey(zones[j])
                   \/ ZoneKey(zones[i]) = ZoneKey(zones[j]) /\ i < j
           before == {p \in places \X places : Before(p[1], p[2])}
           order  == OrderedBy(places, before)
           S      == {zones[i] : i \in 1 .. n}
<1>1. IsFiniteSet(places)
  <2>1. IsFiniteSet(1 .. n)
    BY FS_Interval
  <2> QED BY <2>1
<1>2. StrictOrder(before, places)
  <2>1. \A i, j \in places : <<i, j>> \in before <=> Before(i, j)
    OBVIOUS
  <2>2. \A i \in places : i \in Int /\ zones[i].severity \in Int /\ ZoneKey(zones[i]) \in Int
    OBVIOUS
  <2> HIDE DEF before, places
  <2>3. \A i, j \in places : i # j => Before(i, j) \/ Before(j, i)
    BY <2>2
  <2>4. \A i, j \in places : ~(Before(i, j) /\ Before(j, i))
    BY <2>2
  <2>5. \A i, j, k \in places : Before(i, j) /\ Before(j, k) => Before(i, k)
    BY <2>2
  <2> HIDE DEF Before
  <2> QED BY <2>1, <2>3, <2>4, <2>5 DEF StrictOrder
<1>3. Cardinality(places) \in Nat /\ order \in [1 .. Cardinality(places) -> places]
  <2> HIDE DEF places, before
  <2> QED BY <1>1, <1>2, OrderedByFacts
<1>4. Ranked(zones) = [i \in DOMAIN order |-> zones[order[i]]]
  BY DEF Ranked
<1>5. \A i \in places : zones[i] \in S
  OBVIOUS
<1> HIDE DEF order, places, S
<1> DEFINE m == Cardinality(places)
<1>6. m \in Nat /\ Ranked(zones) \in [1 .. m -> S]
  BY <1>3, <1>4, <1>5
<1> HIDE DEF m
<1>7. Ranked(zones) \in Seq(S)
  BY <1>6
<1> QED BY <1>7 DEF S

\* The zones of the call, and what the search needs to know of each.
ZoneSet == {zonesOfCall.zones[i] : i \in DOMAIN zonesOfCall.zones}

ZoneOk(zone) ==
  /\ Inner(zone)
  /\ zone.seedEdges \in SUBSET Triggered
  /\ zone.seedEdges \subseteq zone.edges

LEMMA CompletedFacts ==
  ASSUME req \in Requests, NEW core \in CoreZones
  PROVE  LET zone == Completed(g, core)
         IN  ZoneOk(zone) /\ zone.severity \in Int /\ ZoneKey(zone) \in Int
<1> DEFINE more == UNION {ShortestPathNodes(g, core.nodes, n) : n \in BoundaryNodes(g)}
           all  == core.nodes \cup more
           zone == Completed(g, core)
<1>1. /\ core.seedEdges \in SUBSET Triggered /\ core.severity \in Int
      /\ \A e \in core.seedEdges : Ends(g, e) \subseteq core.nodes
  BY DEF CoreZones
<1>2. /\ zone.seedEdges = core.seedEdges /\ zone.severity = core.severity
      /\ zone.nodes = all /\ zone.edges = EdgesInside(g, all)
  BY DEF Completed
<1> HIDE DEF zone, more
<1>3. zone.seedEdges \subseteq zone.edges
  BY <1>1, <1>2 DEF EdgesInside, Triggered
<1> HIDE DEF all
<1>4. ZoneOk(zone)
  BY <1>1, <1>2, <1>3 DEF ZoneOk, Inner
<1>5. ASSUME NEW S \in SUBSET ActiveEdges(g), S # {} PROVE Min(S) \in Int
  <2>1. S \in SUBSET Int /\ IsFiniteSet(S)
    BY CallFacts, GraphFacts, FS_Subset
  <2> QED BY <1>5, <2>1, MinFacts
<1>6. zone.seedEdges \in SUBSET ActiveEdges(g) /\ zone.edges \in SUBSET ActiveEdges(g)
  BY <1>1, <1>2 DEF Triggered, EdgesInside
<1>7. ZoneKey(zone) \in Int
  BY <1>5, <1>6 DEF ZoneKey
<1> QED BY <1>1, <1>2, <1>4, <1>7 DEF zone

LEMMA ZoneFacts ==
  ASSUME req \in Requests
  PROVE  zonesOfCall.zones \in Seq(ZoneSet) /\ \A zone \in ZoneSet : ZoneOk(zone)
<1> DEFINE merged == MergeOverlapping(coresOfCall)
           n      == Len(merged)
           zones  == [i \in DOMAIN merged |-> Completed(g, merged[i])]
           S      == {zones[i] : i \in 1 .. n}
           ranked == Ranked(zones)
           most   == req.cfg.maxZones
<1>1. merged \in Seq(CoreZones)
  BY CoresAreZones, MergedIsDivided DEF Divided
<1>2. n \in Nat /\ DOMAIN merged = 1 .. n /\ \A i \in 1 .. n : merged[i] \in CoreZones
  <2> HIDE DEF merged
  <2> QED BY <1>1
<1>3. zonesOfCall.zones = IF Len(ranked) > most THEN SubSeq(ranked, 1, most) ELSE ranked
  BY DEF zonesOfCall, BuildTriggerZones, coresOfCall
<1> HIDE DEF merged, n
<1>4. \A i \in 1 .. n : ZoneOk(zones[i]) /\ zones[i].severity \in Int /\ ZoneKey(zones[i]) \in Int
  BY <1>2, CompletedFacts
<1>5. DOMAIN zones = 1 .. n
  BY <1>2
<1>6. \A z \in S : ZoneOk(z)
  <2> HIDE DEF zones
  <2> QED BY <1>4
<1> HIDE DEF zones
<1>7. ranked \in Seq(S)
  BY <1>2, <1>4, <1>5, RankedFacts
<1>8. most \in Nat
  BY RequestsAssumption
<1> HIDE DEF ranked, S, most
<1>9. zonesOfCall.zones \in Seq(S)
  <2>1. CASE Len(ranked) > most
    <3>1. \A i \in 1 .. most : ranked[i] \in S
      BY <1>7, <1>8, <2>1
    <3>2. SubSeq(ranked, 1, most) \in Seq(S)
      BY <1>7, <1>8, <2>1, <3>1, SubSeqProperties
    <3> QED BY <1>3, <2>1, <3>2
  <2>2. CASE ~(Len(ranked) > most)
    BY <1>3, <1>7, <2>2
  <2> QED BY <2>1, <2>2
<1> DEFINE q == zonesOfCall.zones
<1>10. q \in [1 .. Len(q) -> S] /\ Len(q) \in Nat
  BY <1>9
<1>11. \A i \in DOMAIN q : q[i] \in S /\ q[i] \in ZoneSet
  BY <1>10 DEF ZoneSet
<1>12. ZoneSet \subseteq S
  BY <1>11 DEF ZoneSet
<1> HIDE DEF q
<1>13. q \in Seq(ZoneSet)
  BY <1>10, <1>11
<1> QED BY <1>6, <1>12, <1>13 DEF q

-----------------------------------------------------------------------------
(* The inductive invariant *)

AtMostOne(S) == S = {} \/ \E s \in S : S = {s}

\* A solution: a balanced flow that keeps to its directions, and its value.
Sound(s) ==
  /\ s.x \in SUBSET Arcs(g) /\ s.flow \in [Arcs(g) -> Nat]
  /\ s.tau = TauOf(s.flow)
  /\ Carrying(s.flow) \subseteq s.x
  /\ Balanced(s.flow)

\* The directions the search may come to.
MayTurn(x, e) ==
  Opened(x, e) # Opened(CurrentArcs(g), e) =>
    /\ e \in req.triggered
    /\ g.edge[e].constraint \in LegalFixed => Opened(x, e) = Permitted(g.edge[e].constraint)

Turns == {x \in SUBSET Arcs(g) : \A e \in ActiveEdges(g) : MayTurn(x, e)}

SameOutside(zone, x1, x2) == x1 \cap Outside(zone) = x2 \cap Outside(zone)

\* While a zone is searched (q) its supply and its value are still those of
\* the best solution (s), although that has changed meanwhile, and what is
\* left to try differs from it inside the zone only.
ZoneSearched(q, s) ==
  /\ q.zone \in ZoneSet
  /\ q.edges \in Seq(q.zone.seedEdges)
  /\ q.supply = ZoneNetSupply(q.zone, s.flow)
  /\ q.tau = Tau(q.zone.edges, s.flow)
  /\ \A i \in DOMAIN q.tries : SameOutside(q.zone, q.tries[i], s.x)

InSearch(q) ==
  /\ q.edges \in Seq(Triggered)
  /\ q.tries \in Seq(Turns)

InZones(q, s) ==
  /\ q.zones \in Seq(ZoneSet)
  /\ q.tries # <<>> \/ q.edges # <<>> => ZoneSearched(q, s)

FromFirstPhase(c) == c \in FirstPhase /\ sol = {Solution(c.x, c.flow, ChoiceTau(c))}

Stages == {"CALLED", "ZONES", "RESCUE", "SPREAD", "PHASE2", "FALLBACK", "DONE"}

Fields(q) ==
  q = [zones |-> q.zones, edges |-> q.edges, tries |-> q.tries, zone |-> q.zone,
       supply |-> q.supply, tau |-> q.tau, status |-> q.status]

Progress ==
  /\ stage \in Stages /\ late \in BOOLEAN /\ Fields(search)
  /\ (stage = "DONE") = (answer # {})
  /\ AtMostOne(first) /\ AtMostOne(sol) /\ AtMostOne(answer)
  /\ \A s \in first \cup sol : Sound(s)

\* What the search has found so far is no worse than what it began with.
InStage ==
  /\ stage \in {"ZONES", "RESCUE"} => InSearch(search)
  /\ stage \in {"ZONES", "RESCUE", "SPREAD"} =>
       \A s \in sol : s.x \in Turns /\ \A f \in first : s.tau <= f.tau
  /\ stage = "ZONES" => \E s \in sol : InZones(search, s)
  /\ stage = "RESCUE" => first = {}
  /\ stage = "SPREAD" => \E s \in sol : Safe(s.x)
  /\ stage = "PHASE2" => first = sol /\ \E c : FromFirstPhase(c)

\* Directions people can follow.
Passed == UNION {Ends(g, e) : e \in ActiveEdges(g)}

Joins(x, m1, n, m2) == {<<m1, n>>, <<n, m2>>} \subseteq Links(g, x)

Followable(x) ==
  /\ isOpen => Reaches(x)
  /\ \A n \in Passed : \E m1, m2 \in EnabledNodes(g) : Joins(x, m1, n, m2)

Helpful(a) ==
  /\ \A s \in first : TauOf(a.flow) <= s.tau + req.cfg.epsilon
  /\ a.tau <= TauOf(a.flow) /\ TauOf(a.flow) <= a.tau + req.cfg.epsilon

AnswerOk(a) ==
  /\ Carrying(a.flow) \subseteq a.x
  /\ a.origin \in {"SEARCH", "STRICT"} => Followable(a.x)
  /\ a.origin = "SEARCH" =>
       /\ a.x \in Turns /\ Helpful(a)
       /\ \A e \in Closed(a) : isOpen /\ Reaches(a.x \ ArcsOf(e))
  /\ a.origin = "STRICT" =>
       TauOf(a.flow) <= a.tau + req.cfg.epsilon /\ LegalViolations(g, a.x) = {}

IInv == req \in Requests /\ Progress /\ InStage /\ \A a \in answer : AnswerOk(a)

\* All this depends on the request and not on what the call does.
LEMMA SameRequest ==
  ASSUME req' = req
  PROVE  /\ g' = g /\ isOpen' = isOpen /\ Triggered' = Triggered
         /\ Turns' = Turns /\ ZoneSet' = ZoneSet /\ FirstPhase' = FirstPhase
         /\ \A x : Safe(x)' = Safe(x) /\ Followable(x)' = Followable(x) /\ Reaches(x)' = Reaches(x)
         /\ \A s : Sound(s)' = Sound(s)
         /\ \A f : TauOf(f)' = TauOf(f)
<1>1. g' = g /\ inp' = inp /\ coms' = coms
  BY DEF g, inp, coms
<1>2. isOpen' = isOpen
  BY <1>1 DEF isOpen
<1>3. Triggered' = Triggered
  BY <1>1 DEF Triggered
<1>4. Turns' = Turns
  BY <1>1 DEF Turns, MayTurn
<1>5. severity' = severity
  BY <1>1 DEF severity
<1>6. ZoneSet' = ZoneSet
  BY <1>1, <1>5 DEF ZoneSet, zonesOfCall
<1>7. FirstPhase' = FirstPhase
  BY <1>1, <1>2 DEF FirstPhase
<1>8. \A x : Safe(x)' = Safe(x)
  BY <1>1, <1>2 DEF Safe
<1>9. \A x : Reaches(x)' = Reaches(x)
  <2>1. \A links, sources : Fills(links, sources)' = Fills(links, sources)
    BY <1>1 DEF Fills
  <2> QED BY <1>1, <2>1 DEF Reaches
<1>10. \A x : Followable(x)' = Followable(x)
  <2>1. Passed' = Passed
    BY <1>1 DEF Passed
  <2>2. \A x, m1, n, m2 : Joins(x, m1, n, m2)' = Joins(x, m1, n, m2)
    BY <1>1 DEF Joins
  <2> QED BY <1>1, <1>2, <1>9, <2>1, <2>2 DEF Followable
<1>11. \A f : TauOf(f)' = TauOf(f)
  BY <1>1 DEF TauOf, Tau, drainable
<1>12. \A f : Balanced(f)' = Balanced(f)
  BY <1>1 DEF Balanced
<1>13. \A s : Sound(s)' = Sound(s)
  BY <1>1, <1>11, <1>12 DEF Sound
<1> QED BY <1>1, <1>2, <1>3, <1>4, <1>6, <1>7, <1>8, <1>9, <1>10, <1>11, <1>13

LEMMA SameZones ==
  ASSUME req' = req
  PROVE  \A q, s : InSearch(q)' = InSearch(q) /\ InZones(q, s)' = InZones(q, s)
<1>1. /\ g' = g /\ inp' = inp /\ coms' = coms
      /\ Triggered' = Triggered /\ Turns' = Turns /\ ZoneSet' = ZoneSet
  BY SameRequest DEF inp, coms, g
<1>2. \A q : InSearch(q)' = InSearch(q)
  BY <1>1 DEF InSearch
<1>3. \A z : Outside(z)' = Outside(z)
  BY <1>1 DEF Outside
<1>4. \A z, f : ZoneNetSupply(z, f)' = ZoneNetSupply(z, f)
  BY <1>1, <1>3 DEF ZoneNetSupply
<1>5. \A edges, f : Tau(edges, f)' = Tau(edges, f)
  BY <1>1 DEF Tau, drainable
<1>6. \A z, x1, x2 : SameOutside(z, x1, x2)' = SameOutside(z, x1, x2)
  BY <1>3 DEF SameOutside
<1>7. \A q, s : ZoneSearched(q, s)' = ZoneSearched(q, s)
  BY <1>1, <1>4, <1>5, <1>6 DEF ZoneSearched
<1>8. \A q, s : InZones(q, s)' = InZones(q, s)
  BY <1>1, <1>7 DEF InZones
<1> QED BY <1>2, <1>8

LEMMA SameAnswers ==
  ASSUME req' = req, first' = first
  PROVE  \A a : AnswerOk(a)' = AnswerOk(a)
<1>1. /\ g' = g /\ isOpen' = isOpen /\ Turns' = Turns
      /\ \A x : Followable(x)' = Followable(x) /\ Reaches(x)' = Reaches(x)
      /\ \A f : TauOf(f)' = TauOf(f)
  BY SameRequest
<1>2. \A a : Helpful(a)' = Helpful(a)
  BY <1>1 DEF Helpful
<1> QED BY <1>1, <1>2 DEF AnswerOk

\* A step that gives an answer.
LEMMA FinishKeeps ==
  ASSUME IInv, NEW a, Finish(a), AnswerOk(a)
  PROVE  IInv'
<1>1. /\ req' = req /\ first' = first /\ sol' = sol /\ late' = late /\ search' = search
      /\ answer' = {a} /\ stage' = "DONE"
  BY DEF Finish
<1>2. (\A s : Sound(s)' = Sound(s)) /\ AnswerOk(a)' = AnswerOk(a)
  BY <1>1, SameRequest, SameAnswers
<1>3. Progress'
  BY <1>1, <1>2 DEF IInv, Progress, AtMostOne, Stages
<1>4. InStage'
  BY <1>1 DEF InStage
<1> QED BY <1>1, <1>2, <1>3, <1>4 DEF IInv

\* A step before the answer.
LEMMA WorkKeeps ==
  ASSUME IInv, stage # "DONE", req' = req, answer' = answer, late' \in BOOLEAN,
         stage' \in Stages \ {"DONE"}, AtMostOne(first'), AtMostOne(sol'),
         \A s \in first' \cup sol' : Sound(s), Fields(search'), InStage'
  PROVE  IInv'
<1>1. answer' = {}
  BY DEF IInv, Progress
<1>2. \A s : Sound(s)' = Sound(s)
  BY SameRequest
<1>3. \A s \in first' \cup sol' : Sound(s)'
  BY <1>2
<1>4. stage' \in Stages /\ stage' # "DONE"
  OBVIOUS
<1>5. Progress'
  BY <1>1, <1>3, <1>4 DEF Progress, AtMostOne
<1> QED BY <1>1, <1>5 DEF IInv

-----------------------------------------------------------------------------
(* Directions people can follow *)

LEMMA LocalIsFollowable ==
  ASSUME req \in Requests, NEW x \in SUBSET Arcs(g), LocalReachabilityOk(g, x), NEW n \in Passed
  PROVE  \E m1, m2 \in EnabledNodes(g) : Joins(x, m1, n, m2)
<1>1. PICK e \in ActiveEdges(g) : n \in Ends(g, e)
  BY DEF Passed
<1>2. n \in EnabledNodes(g)
  BY <1>1 DEF ActiveEdges
<1>3. <<e, "A_TO_B">> \in Arcs(g) /\ <<e, "B_TO_A">> \in Arcs(g)
  BY DEF Arcs, Directions
<1>4. n = g.edge[e].a \/ n = g.edge[e].b
  BY <1>1 DEF Ends
<1>5. OutArcs(g, n) # {} /\ InArcs(g, n) # {}
  BY <1>3, <1>4 DEF OutArcs, InArcs, From, To
<1>6. PICK out \in OutArcs(g, n) : out \in x
  BY <1>2, <1>5 DEF LocalReachabilityOk
<1>7. PICK in \in InArcs(g, n) : in \in x
  BY <1>2, <1>5 DEF LocalReachabilityOk
<1>8. From(g, out) = n /\ To(g, in) = n
  BY DEF OutArcs, InArcs
<1>9. From(g, in) \in EnabledNodes(g) /\ To(g, out) \in EnabledNodes(g)
  BY <1>6, <1>7, CallFacts, GraphFacts
<1>10. <<From(g, in), To(g, in)>> \in Links(g, x) /\ <<From(g, out), To(g, out)>> \in Links(g, x)
  BY <1>6, <1>7 DEF Links
<1>11. Joins(x, From(g, in), n, To(g, out))
  BY <1>8, <1>10 DEF Joins
<1> QED BY <1>9, <1>11

\* What the search for reachable nodes finds fills the site.
LEMMA ReachedFills ==
  ASSUME NEW links, IsFiniteSet(links), NEW sources, NEW some \in SUBSET sources,
         EnabledNodes(g) \subseteq ReachableFrom(links, some)
  PROVE  Fills(links, sources)
<1> SUFFICES ASSUME NEW nodes \in SUBSET EnabledNodes(g), sources \subseteq nodes,
                    \A l \in links : l[1] \in nodes => l[2] \in nodes
             PROVE  nodes = EnabledNodes(g)
  BY DEF Fills
<1>1. ReachableFrom(links, some) \subseteq nodes
  BY ReachedStaysIn
<1> QED BY <1>1

LEMMA ConnectedReaches ==
  ASSUME req \in Requests, NEW x \in SUBSET Arcs(g), BoundaryConnected(g, Links(g, x))
  PROVE  Reaches(x)
<1>1. IsFiniteSet(Links(g, x)) /\ IsFiniteSet(Backwards(Links(g, x)))
  BY CallFacts, LinksAreFinite
<1>2. EntryNodes(g) # {} => Fills(Links(g, x), EntryNodes(g))
  BY <1>1, ReachedFills DEF BoundaryConnected
<1>3. ExitNodes(g) # {} => Fills(Backwards(Links(g, x)), ExitNodes(g))
  BY <1>1, ReachedFills DEF BoundaryConnected
<1> QED BY <1>2, <1>3 DEF Reaches

LEMMA SafeIsFollowable ==
  ASSUME req \in Requests, NEW x \in SUBSET Arcs(g), Safe(x)
  PROVE  Followable(x)
<1>1. isOpen => Reaches(x)
  BY ConnectedReaches DEF Safe, BoundaryReachabilityOk
<1> QED BY <1>1, LocalIsFollowable DEF Safe, Followable

\* What the integer program chooses.
LEMMA ChoiceFacts ==
  ASSUME req \in Requests, NEW c \in FirstPhase
  PROVE  /\ Sound(Solution(c.x, c.flow, ChoiceTau(c)))
         /\ Followable(c.x) /\ LegalViolations(g, c.x) = {}
<1>1. PICK x \in StrictDirections(g, isOpen) :
        \E f \in AssignmentFlows(g, inp, coms, x) : c = [x |-> x, flow |-> OnArcs(Arcs(g), f)]
  BY DEF FirstPhase, StrictChoices
<1>2. PICK f \in AssignmentFlows(g, inp, coms, x) : c = [x |-> x, flow |-> OnArcs(Arcs(g), f)]
  BY <1>1
<1>3. c.x = x /\ c.flow = OnArcs(Arcs(g), f)
  BY <1>2
<1>4. x \in SUBSET Arcs(g) /\ LegalViolations(g, x) = {} /\ LocalReachabilityOk(g, x)
  BY DEF StrictDirections, PermittedArcs
<1>5. f \in DemandFlows(g, coms, x)
  BY DEF AssignmentFlows, WithinLimits
<1>6. Sound(Solution(c.x, c.flow, ChoiceTau(c)))
  BY <1>3, <1>4, <1>5, WholeFlow DEF Sound, Solution, ChoiceTau
<1>7. IsFiniteSet(Links(g, x)) /\ IsFiniteSet(Backwards(Links(g, x)))
  BY <1>4, CallFacts, LinksAreFinite
<1>8. ASSUME NEW S \in SUBSET EnabledNodes(g), S # {} PROVE {Min(S)} \in SUBSET S
  <2>1. S \in SUBSET Int /\ IsFiniteSet(S)
    BY CallFacts, GraphFacts, FS_Subset
  <2> QED BY <1>8, <2>1, MinFacts
<1>9. isOpen => Reaches(x)
  <2> SUFFICES ASSUME isOpen PROVE Reaches(x)
    OBVIOUS
  <2>1. EntryNodes(g) \in SUBSET EnabledNodes(g) /\ ExitNodes(g) \in SUBSET EnabledNodes(g)
    BY DEF EntryNodes, ExitNodes
  <2>2. /\ EntryNodes(g) # {} =>
             EnabledNodes(g) \subseteq ReachableFrom(Links(g, x), {Min(EntryNodes(g))})
        /\ ExitNodes(g) # {} =>
             EnabledNodes(g) \subseteq ReachableFrom(Backwards(Links(g, x)), {Min(ExitNodes(g))})
    BY DEF StrictDirections
  <2>3. EntryNodes(g) # {} => Fills(Links(g, x), EntryNodes(g))
    BY <1>7, <1>8, <2>1, <2>2, ReachedFills
  <2>4. ExitNodes(g) # {} => Fills(Backwards(Links(g, x)), ExitNodes(g))
    BY <1>7, <1>8, <2>1, <2>2, ReachedFills
  <2> QED BY <2>3, <2>4 DEF Reaches
<1> QED BY <1>3, <1>4, <1>6, <1>9, LocalIsFollowable DEF Followable

-----------------------------------------------------------------------------
(* Candidates *)

LEMMA CurrentIsTurn == ASSUME req \in Requests PROVE CurrentArcs(g) \in Turns
  BY DEF Turns, MayTurn, CurrentArcs

\* A candidate opens one triggered passage as the law allows.
LEMMA CandidateFacts ==
  ASSUME req \in Requests, NEW e \in Triggered, NEW x \in Turns
  PROVE  /\ DirectionCandidates(e, x) \in Seq(Turns)
         /\ \A i \in DOMAIN DirectionCandidates(e, x) : \A zone :
              e \in zone.edges => SameOutside(zone, DirectionCandidates(e, x)[i], x)
<1> DEFINE S     == AllowedWays(e, x)
           ways  == InOrder(S)
           n     == Cardinality(S)
           tries == DirectionCandidates(e, x)
           New(i) == (x \ ArcsOf(e)) \cup ({e} \X WaysToOpen[i])
<1>1. S \subseteq 1 .. 3 /\ \A i \in S : WaysToOpen[i] \subseteq Directions
  BY DEF AllowedWays, WaysToOpen, Directions
<1>2. IsFiniteSet(S) /\ S \subseteq Nat
  <2> HIDE DEF S
  <2>1. 1 \in Int /\ 3 \in Int /\ 1 .. 3 \subseteq Nat
    OBVIOUS
  <2>2. IsFiniteSet(1 .. 3)
    BY <2>1, FS_Interval
  <2> QED BY <1>1, <2>1, <2>2, FS_Subset
<1>3. DOMAIN ways = 1 .. n /\ n \in Nat /\ ways \in [1 .. n -> S]
  <2> HIDE DEF S
  <2> QED BY <1>2, InOrderFacts
<1>4. tries = [i \in 1 .. n |-> New(ways[i])]
  BY <1>3 DEF DirectionCandidates
<1>5. \A i \in S : g.edge[e].constraint \in LegalFixed => WaysToOpen[i] = Permitted(g.edge[e].constraint)
  BY DEF AllowedWays
<1> HIDE DEF ways, n, S, tries
<1>6. e \in ActiveEdges(g) /\ e \in req.triggered
  BY DEF Triggered
<1>7. ASSUME NEW i \in S PROVE New(i) \in Turns
  <2>1. New(i) \in SUBSET Arcs(g)
    BY <1>1, <1>6 DEF Turns, Arcs
  <2>2. Opened(New(i), e) = WaysToOpen[i]
    BY <1>1 DEF Opened, ArcsOf
  <2>3. \A d : d # e => Opened(New(i), d) = Opened(x, d)
    BY DEF Opened, ArcsOf
  <2> HIDE DEF New
  <2>4. ASSUME NEW d \in ActiveEdges(g) PROVE MayTurn(New(i), d)
    <3>1. CASE d = e
      BY <1>5, <1>6, <2>2, <3>1 DEF MayTurn
    <3>2. CASE d # e
      BY <2>3, <3>2 DEF MayTurn, Turns
    <3> QED BY <3>1, <3>2
  <2> QED BY <2>1, <2>4 DEF Turns
<1>8. \A i \in S : \A zone : e \in zone.edges => SameOutside(zone, New(i), x)
  BY DEF SameOutside, Outside, ArcsOf
<1> HIDE DEF New
<1>9. tries \in [1 .. n -> Turns]
  BY <1>3, <1>4, <1>7
<1>10. tries \in Seq(Turns)
  BY <1>3, <1>9
<1>11. \A i \in DOMAIN tries : \A zone : e \in zone.edges => SameOutside(zone, tries[i], x)
  BY <1>3, <1>4, <1>8
<1> QED BY <1>10, <1>11 DEF tries

-----------------------------------------------------------------------------
(* Adopting a candidate in a zone *)

\* What a zone has to route depends on the flow outside it only.
LEMMA SupplyStays ==
  ASSUME req \in Requests, NEW zone, NEW f1 \in [Arcs(g) -> Nat], NEW f2 \in [Arcs(g) -> Nat],
         \A arc \in Outside(zone) : f1[arc] = f2[arc]
  PROVE  ZoneNetSupply(zone, f1) = ZoneNetSupply(zone, f2)
<1>1. \A S \in SUBSET Outside(zone) : SumFunctionOnSet(f1, S) = SumFunctionOnSet(f2, S)
  <2> SUFFICES ASSUME NEW S \in SUBSET Outside(zone)
               PROVE  SumFunctionOnSet(f1, S) = SumFunctionOnSet(f2, S)
    OBVIOUS
  <2>1. S \subseteq Arcs(g)
    BY DEF Outside
  <2>2. IsFiniteSet(S) /\ Integral(f2, S)
    BY <2>1, CallFacts, GraphFacts, FS_Subset DEF Integral
  <2>3. \A arc \in S : f1[arc] = f2[arc]
    OBVIOUS
  <2> QED BY <2>2, <2>3, SumOfSame
<1>2. \A n : /\ Entering(g, Outside(zone), f1, n) = Entering(g, Outside(zone), f2, n)
             /\ Leaving(g, Outside(zone), f1, n) = Leaving(g, Outside(zone), f2, n)
  BY <1>1 DEF Entering, Leaving
<1> QED BY <1>2 DEF ZoneNetSupply

\* The worst stagnation of a zone is some of that of the site.
LEMMA TauOfPart ==
  ASSUME req \in Requests, NEW flow \in [Arcs(g) -> Nat], NEW edges
  PROVE  Tau(edges, flow) <= TauOf(flow)
<1>1. Counted(edges) \subseteq Counted(ActiveEdges(g))
  BY DEF Counted
<1>2. TauOf(flow) \in Int /\ 0 <= TauOf(flow)
      /\ \A e \in Counted(ActiveEdges(g)) : Left(e, flow) <= TauOf(flow)
  BY TauFacts DEF TauOf
<1> QED BY <1>1, <1>2, TauFacts

\* A flow that differs in the zone only, and lowers its worst stagnation,
\* does not raise that of the site.
LEMMA ZoneHelpsSite ==
  ASSUME req \in Requests, NEW zone, NEW f1 \in [Arcs(g) -> Nat], NEW f2 \in [Arcs(g) -> Nat],
         \A arc \in Outside(zone) : f1[arc] = f2[arc],
         Improves(Tau(zone.edges, f1), Tau(zone.edges, f2))
  PROVE  TauOf(f1) <= TauOf(f2)
<1>1. /\ Tau(zone.edges, f1) \in Int /\ Tau(zone.edges, f2) \in Int
      /\ TauOf(f2) \in Int /\ 0 <= TauOf(f2)
      /\ req.cfg.margin \in Nat
  BY TauFacts, CallFacts DEF TauOf
<1>2. Tau(zone.edges, f1) <= TauOf(f2)
  BY <1>1, TauOfPart DEF Improves
<1>3. ASSUME NEW e \in Counted(ActiveEdges(g)) PROVE Left(e, f1) <= TauOf(f2)
  <2>1. e \in ActiveEdges(g) /\ e \in DOMAIN inp.s
    BY DEF Counted
  <2>2. CASE e \in zone.edges
    <3>1. e \in Counted(zone.edges)
      BY <2>2 DEF Counted
    <3>2. Left(e, f1) <= Tau(zone.edges, f1)
      BY <3>1, TauFacts
    <3>3. Left(e, f1) \in Int
      BY <2>1, LeftIsNumber
    <3> QED BY <1>1, <1>2, <3>2, <3>3
  <2>3. CASE e \notin zone.edges
    <3> DEFINE S == ArcsOf(e) \cap Arcs(g)
    <3>1. IsFiniteSet(S) /\ S \subseteq Arcs(g) /\ S \subseteq Outside(zone)
      BY <2>3, CallFacts, GraphFacts, FS_Subset DEF Outside, ArcsOf
    <3>2. Integral(f2, S) /\ \A arc \in S : f1[arc] = f2[arc]
      BY <3>1 DEF Integral
    <3>3. SumFunctionOnSet(f1, S) = SumFunctionOnSet(f2, S)
      <4> HIDE DEF S
      <4> QED BY <3>1, <3>2, SumOfSame
    <3>4. EdgeFlow(f1, e) = EdgeFlow(f2, e)
      BY <3>3 DEF EdgeFlow
    <3>5. Left(e, f1) = Left(e, f2)
      BY <3>4 DEF Left
    <3>6. Left(e, f2) <= TauOf(f2)
      BY TauFacts DEF TauOf
    <3> QED BY <3>5, <3>6
  <2> QED BY <2>2, <2>3
<1>4. \A b \in Int : 0 <= b /\ (\A e \in Counted(ActiveEdges(g)) : Left(e, f1) <= b)
                       => TauOf(f1) <= b
  BY TauFacts DEF TauOf
<1> QED BY <1>1, <1>3, <1>4

-----------------------------------------------------------------------------
(* Closings *)

\* A passage is closed only if the rest of an open site holds together.
LEMMA BuiltCloses ==
  ASSUME req \in Requests, NEW x \in SUBSET Arcs(g),
         NEW residual, NEW danger, NEW edges, NEW flow, NEW importance, NEW outflow, NEW p,
         p = BuildRestriction(g, inp, residual, danger, edges, flow, x, importance, outflow, isOpen),
         p.action = "CLOSE"
  PROVE  isOpen /\ Reaches(x \ ArcsOf(p.edge))
<1> DEFINE feeders == Feeders(g, danger, edges, flow, importance)
           e       == IF feeders # <<>> THEN Head(feeders) ELSE Min(danger)
<1>1. p = IF isOpen /\ ClosePreservesConnectivity(g, e, x, isOpen)
          THEN Proposal(e, "CLOSE", {}, ReasonFor(e, residual))
          ELSE Proposal(e, "LIMIT", LimitValue(inp, e, outflow), ReasonFor(e, residual))
  BY DEF BuildRestriction
<1> HIDE DEF e
<1>2. isOpen /\ ClosePreservesConnectivity(g, e, x, isOpen) /\ p.edge = e
  BY <1>1 DEF Proposal
<1>3. BoundaryConnected(g, Links(g, x \ ArcsOf(e)))
  BY <1>2 DEF ClosePreservesConnectivity
<1>4. x \ ArcsOf(e) \in SUBSET Arcs(g)
  OBVIOUS
<1>5. Reaches(x \ ArcsOf(e))
  BY <1>3, <1>4, ConnectedReaches
<1> QED BY <1>2, <1>5

\* Resuming closes nothing.
LEMMA ResumesFacts ==
  ASSUME NEW previous, IsFiniteSet(DOMAIN previous), NEW restricted,
         \A i \in DOMAIN previous : previous[i].edge \in Nat
  PROVE  \E n \in Nat : /\ DOMAIN BuildResume(previous, restricted) = 1 .. n
                        /\ \A i \in 1 .. n : BuildResume(previous, restricted)[i].action = "RESUME"
<1> DEFINE chosen   == {i \in DOMAIN previous : /\ previous[i].action # "RESUME"
                                                /\ previous[i].edge \notin restricted}
           h        == [i \in chosen |-> previous[i].edge]
           S        == {h[i] : i \in chosen}
           T        == {previous[i].edge : i \in chosen}
           order    == InOrder(T)
           First(e) == previous[Min({i \in chosen : previous[i].edge = e})]
           resumes  == BuildResume(previous, restricted)
<1>1. IsFiniteSet(chosen)
  BY FS_Subset
<1>2. IsFiniteSet(S)
  <2> HIDE DEF h, chosen
  <2> QED BY <1>1, FiniteImage
<1>3. S = T /\ T \subseteq Nat
  OBVIOUS
<1>4. DOMAIN order = 1 .. Cardinality(T) /\ Cardinality(T) \in Nat
  <2> HIDE DEF S, T
  <2> QED BY <1>2, <1>3, InOrderFacts
<1>5. resumes = [i \in DOMAIN order |-> Proposal(order[i], "RESUME", {}, First(order[i]).reason)]
  BY DEF BuildResume, ResumesOf
<1> HIDE DEF order, T, First
<1>6. DOMAIN resumes = DOMAIN order /\ \A i \in DOMAIN order : resumes[i].action = "RESUME"
  BY <1>5 DEF Proposal
<1> HIDE DEF resumes
<1> QED BY <1>4, <1>6 DEF resumes

LEMMA RestrictionsClose ==
  ASSUME req \in Requests, NEW s, s.x \in SUBSET Arcs(g), NEW call, call.isOpen = isOpen,
         NEW importance, NEW zones, NEW n \in Nat, DOMAIN zones = 1 .. n,
         NEW p \in ToSet(ComputeRestrictions(g, inp, zones, s, call, importance,
                                             req.previous.restrictions)),
         p.action = "CLOSE"
  PROVE  isOpen /\ Reaches(s.x \ ArcsOf(p.edge))
<1> DEFINE S        == {i \in DOMAIN zones : Asks(g, inp, zones[i], s.flow, call)}
           asking   == InOrder(S)
           previous == req.previous.restrictions
           m        == Cardinality(S)
           Of(k)    == ZoneRestriction(g, inp, zones[asking[k]], s, call, importance)
           now      == [k \in DOMAIN asking |-> Of(k)]
           edges    == {now[i].edge : i \in DOMAIN now}
           after    == BuildResume(previous, edges)
           all      == ComputeRestrictions(g, inp, zones, s, call, importance, previous)
<1>1. PICK i \in DOMAIN all : p = all[i]
  BY DEF ToSet
<1>2. DOMAIN asking = 1 .. m /\ m \in Nat
  <2>1. IsFiniteSet(1 .. n) /\ 1 .. n \subseteq Nat
    BY FS_Interval
  <2>2. S \subseteq 1 .. n
    OBVIOUS
  <2> HIDE DEF S
  <2>3. IsFiniteSet(S) /\ S \subseteq Nat
    BY <2>1, <2>2, FS_Subset
  <2> QED BY <2>3, InOrderFacts
<1>3. all = IF ~call.cfg.restrict \/ call.cfg.theta = {} THEN <<>> ELSE now \o after
  BY DEF ComputeRestrictions, WithResumes
<1>4. PICK r \in Nat : DOMAIN after = 1 .. r /\ \A k \in 1 .. r : after[k].action = "RESUME"
  <2>1. IsFiniteSet(DOMAIN previous) /\ \A k \in DOMAIN previous : previous[k].edge \in Nat
    BY RequestsAssumption
  <2> HIDE DEF previous, edges
  <2> QED BY <2>1, ResumesFacts
<1>5. DOMAIN now = 1 .. m /\ \A k \in 1 .. m : now[k] = Of(k)
  BY <1>2
<1> HIDE DEF all, now, after, asking, S, m, edges
<1>6. all = now \o after /\ i \in DOMAIN (now \o after)
  BY <1>1, <1>3
<1>7. (\E k \in 1 .. m : p = now[k]) \/ \E k \in 1 .. r : p = after[k]
  <2>1. Len(now) = m /\ Len(after) = r
    BY <1>2, <1>4, <1>5
  <2> QED BY <1>1, <1>2, <1>4, <1>6, <2>1
<1>8. PICK k \in 1 .. m : p = Of(k)
  BY <1>4, <1>5, <1>7
<1>9. \E residual, danger, inside, flow, outflow :
        p = BuildRestriction(g, inp, residual, danger, inside, flow, s.x, importance, outflow, isOpen)
  BY <1>8 DEF ZoneRestriction
<1> HIDE DEF Of
<1> QED BY <1>9, BuiltCloses

-----------------------------------------------------------------------------
(* The steps of the search *)

LEMMA TheOnly == ASSUME NEW s PROVE The({s}) = s
  BY DEF The

LEMMA TauOnArcs ==
  ASSUME req \in Requests, NEW x \in SUBSET Arcs(g), NEW f \in [x -> Nat]
  PROVE  TauOf(OnArcs(Arcs(g), f)) = TauOf(f)
<1> DEFINE flow == OnArcs(Arcs(g), f)
<1>1. ASSUME NEW e PROVE EdgeFlow(flow, e) = EdgeFlow(f, e)
  <2>1. DOMAIN flow = Arcs(g) /\ DOMAIN f = x
    BY DEF OnArcs
  <2>2. ArcsOf(e) \cap Arcs(g) \in SUBSET Arcs(g)
        /\ (ArcsOf(e) \cap Arcs(g)) \cap x = ArcsOf(e) \cap x
    OBVIOUS
  <2>3. SumFunctionOnSet(flow, ArcsOf(e) \cap Arcs(g)) = SumFunctionOnSet(f, ArcsOf(e) \cap x)
    BY <2>2, SumOnArcs
  <2> QED BY <2>1, <2>3 DEF EdgeFlow
<1> HIDE DEF flow
<1>2. ASSUME NEW edges PROVE ResidualTau(g, inp, edges, flow) = ResidualTau(g, inp, edges, f)
  <2> DEFINE counted == edges \cap DOMAIN inp.s \cap ActiveEdges(g)
  <2>1. {Stress(inp, e, Residual(inp, e, EdgeFlow(flow, e))) : e \in counted}
        = {Stress(inp, e, Residual(inp, e, EdgeFlow(f, e))) : e \in counted}
    BY <1>1
  <2> QED BY <2>1 DEF ResidualTau
<1>3. TauOf(flow) = TauOf(f)
  BY <1>2 DEF TauOf, Tau
<1> QED BY <1>3 DEF flow

LEMMA WholeSolution ==
  ASSUME req \in Requests, NEW x \in SUBSET Arcs(g), NEW f \in DemandFlows(g, coms, x)
  PROVE  /\ Sound(Solution(x, OnArcs(Arcs(g), f), TauOf(OnArcs(Arcs(g), f))))
         /\ TauOf(OnArcs(Arcs(g), f)) = TauOf(f)
<1>1. Sound(Solution(x, OnArcs(Arcs(g), f), TauOf(OnArcs(Arcs(g), f))))
  BY WholeFlow DEF Sound, Solution
<1> QED BY <1>1, DemandFlowIsNat, TauOnArcs

LEMMA StartLightweightKeeps == ASSUME IInv, StartLightweight PROVE IInv'
<1> DEFINE x     == CurrentArcs(g)
           flows == AssignmentFlows(g, inp, coms, x)
           Of(f) == Solution(x, OnArcs(Arcs(g), f), TauOf(f))
<1>1. /\ req \in Requests /\ stage = "CALLED"
      /\ req' = req /\ answer' = answer /\ late' = late /\ sol' = first'
      /\ IF first' # {}
         THEN stage' = "ZONES" /\ search' = [NoSearch EXCEPT !.zones = zonesOfCall.zones]
         ELSE /\ stage' = "RESCUE"
              /\ search' = [NoSearch EXCEPT !.edges = InOrder(req.triggered \cap ActiveEdges(g))]
  BY DEF StartLightweight, IInv
<1>2. PICK found \in Flows(flows, Least(flows, TotalFlow)) : first' = {Of(f) : f \in found}
  BY DEF StartLightweight
<1>3. Least(flows, TotalFlow) \in SUBSET flows
  BY DEF Least
<1>4. found = {} \/ \E f \in flows : found = {f}
  <2> HIDE DEF flows
  <2> QED BY <1>3, FoundFacts
<1>5. x \in SUBSET Arcs(g) /\ x \in Turns
  BY <1>1, CurrentIsTurn DEF CurrentArcs
<1>6. flows \subseteq DemandFlows(g, coms, x)
  BY DEF AssignmentFlows, WithinLimits
<1>7. first' = {} \/ \E s : first' = {s} /\ Sound(s) /\ s.x = x
  <2>1. ASSUME NEW f \in flows PROVE Sound(Of(f)) /\ Of(f).x = x
    <3> HIDE DEF flows, x
    <3> QED BY <1>1, <1>5, <1>6, WholeSolution DEF Solution
  <2> HIDE DEF flows, Of, x
  <2> QED BY <1>2, <1>4, <2>1
<1>8. late' \in BOOLEAN /\ stage' \in Stages \ {"DONE"}
  BY <1>1 DEF IInv, Progress, Stages
<1>9. CASE first' = {}
  <2> DEFINE edges == InOrder(Triggered)
  <2>1. stage' = "RESCUE" /\ search' = [NoSearch EXCEPT !.edges = edges]
    BY <1>1, <1>9 DEF Triggered
  <2>2. edges \in Seq(Triggered)
    <3>1. IsFiniteSet(Triggered) /\ Triggered \subseteq Nat
      BY <1>1, CallFacts, GraphFacts, FS_Subset DEF Triggered
    <3>2. Cardinality(Triggered) \in Nat /\ edges \in [1 .. Cardinality(Triggered) -> Triggered]
      BY <3>1, InOrderFacts
    <3> HIDE DEF edges
    <3> QED BY <3>2
  <2> HIDE DEF edges
  <2>3. search'.edges = edges /\ search'.tries = <<>> /\ Fields(search')
    BY <2>1 DEF NoSearch, Fields
  <2>4. InSearch(search')
    BY <2>2, <2>3 DEF InSearch
  <2>5. InStage'
    BY <1>1, <1>9, <2>1, <2>4, SameZones DEF InStage
  <2> QED BY <1>1, <1>8, <1>9, <2>3, <2>5, WorkKeeps DEF AtMostOne
<1>10. CASE first' # {}
  <2>1. PICK s : first' = {s} /\ Sound(s) /\ s.x = x
    BY <1>7, <1>10
  <2>2. stage' = "ZONES" /\ search' = [NoSearch EXCEPT !.zones = zonesOfCall.zones]
    BY <1>1, <1>10
  <2>3. /\ search'.zones = zonesOfCall.zones /\ search'.edges = <<>> /\ search'.tries = <<>>
        /\ Fields(search')
    BY <2>2 DEF NoSearch, Fields
  <2>4. InSearch(search') /\ InZones(search', s)
    BY <1>1, <2>3, ZoneFacts DEF InSearch, InZones
  <2>5. s.tau <= s.tau
    <3>1. s.tau \in Int
      BY <1>1, <2>1, TauFacts DEF Sound, TauOf
    <3> QED BY <3>1
  <2>6. InStage'
    <3>1. Turns' = Turns
      BY <1>1, SameRequest
    <3> HIDE DEF x
    <3> QED BY <1>1, <1>5, <2>1, <2>2, <2>4, <2>5, <3>1, SameZones DEF InStage
  <2> QED BY <1>1, <1>8, <2>1, <2>3, <2>6, WorkKeeps DEF AtMostOne
<1> QED BY <1>9, <1>10

LEMMA EnterZoneKeeps == ASSUME IInv, EnterZone PROVE IInv'
<1> DEFINE zone   == Head(search.zones)
           s      == The(sol)
           seeds  == zone.seedEdges
           Before(e1, e2) == \/ severity[e1] > severity[e2]
                             \/ severity[e1] = severity[e2] /\ e1 < e2
           before == {p \in seeds \X seeds : Before(p[1], p[2])}
           order  == OrderedBy(seeds, before)
<1>1. /\ req \in Requests /\ stage = "ZONES" /\ search.tries = <<>> /\ search.zones # <<>>
      /\ req' = req /\ stage' = stage /\ late' = late /\ first' = first /\ sol' = sol
      /\ answer' = answer
      /\ search' = [search EXCEPT !.zones = Tail(search.zones), !.zone = zone,
                                  !.supply = ZoneNetSupply(zone, s.flow),
                                  !.tau = Tau(zone.edges, s.flow), !.edges = order]
  BY DEF EnterZone, IInv
<1>2. PICK t \in sol : InZones(search, t)
  BY <1>1 DEF IInv, InStage
<1>3. sol = {t} /\ s = t
  BY <1>2, TheOnly DEF IInv, Progress, AtMostOne
<1>4. Tail(search.zones) \in Seq(ZoneSet) /\ zone \in ZoneSet
  BY <1>1, <1>2 DEF InZones
<1>5. seeds \in SUBSET Triggered
  BY <1>1, <1>4, ZoneFacts DEF ZoneOk
<1>6. IsFiniteSet(seeds) /\ seeds \subseteq Nat /\ seeds \subseteq ActiveEdges(g)
  BY <1>1, <1>5, CallFacts, GraphFacts, FS_Subset DEF Triggered
<1>7. StrictOrder(before, seeds)
  <2>1. \A e1, e2 \in seeds : <<e1, e2>> \in before <=> Before(e1, e2)
    OBVIOUS
  <2>2. \A e \in seeds : severity[e] \in Int /\ e \in Int
    BY <1>1, <1>6, SeverityIsNumber
  <2> HIDE DEF before, seeds
  <2>3. \A e1, e2 \in seeds : e1 # e2 => Before(e1, e2) \/ Before(e2, e1)
    BY <2>2
  <2>4. \A e1, e2 \in seeds : ~(Before(e1, e2) /\ Before(e2, e1))
    BY <2>2
  <2>5. \A e1, e2, e3 \in seeds : Before(e1, e2) /\ Before(e2, e3) => Before(e1, e3)
    BY <2>2
  <2> HIDE DEF Before
  <2> QED BY <2>1, <2>3, <2>4, <2>5 DEF StrictOrder
<1>8. order \in Seq(seeds)
  <2> DEFINE n == Cardinality(seeds)
  <2> HIDE DEF before, seeds
  <2>1. n \in Nat /\ order \in [1 .. n -> seeds]
    BY <1>6, <1>7, OrderedByFacts
  <2> HIDE DEF n, order
  <2> QED BY <2>1
<1> HIDE DEF order, before
<1>9. \E zs, sup, tau :
        /\ zs = Tail(search.zones) /\ sup = ZoneNetSupply(zone, s.flow)
        /\ tau = Tau(zone.edges, s.flow)
        /\ search' = [search EXCEPT !.zones = zs, !.zone = zone, !.supply = sup,
                                    !.tau = tau, !.edges = order]
  BY <1>1
<1> HIDE DEF zone, s
<1>10. /\ search'.zones = Tail(search.zones) /\ search'.zone = zone
       /\ search'.supply = ZoneNetSupply(zone, s.flow) /\ search'.tau = Tau(zone.edges, s.flow)
       /\ search'.edges = order /\ search'.tries = <<>> /\ Fields(search')
  <2>1. PICK zs, sup, tau :
          /\ zs = Tail(search.zones) /\ sup = ZoneNetSupply(zone, s.flow)
          /\ tau = Tau(zone.edges, s.flow)
          /\ search' = [search EXCEPT !.zones = zs, !.zone = zone, !.supply = sup,
                                      !.tau = tau, !.edges = order]
    BY <1>9
  <2>2. Fields(search)
    BY DEF IInv, Progress
  <2> QED BY <1>1, <2>1, <2>2 DEF Fields
<1>11. ZoneSearched(search', s) /\ InZones(search', s)
  BY <1>4, <1>8, <1>10 DEF ZoneSearched, InZones, seeds
<1>12. InSearch(search')
  <2>1. order \in Seq(Triggered)
    BY <1>5, <1>8
  <2> QED BY <1>10, <2>1 DEF InSearch
<1>13. InStage'
  <2>1. Turns' = Turns /\ (\A q, t1 : InSearch(q)' = InSearch(q) /\ InZones(q, t1)' = InZones(q, t1))
    BY <1>1, SameRequest, SameZones
  <2>2. \A t1 \in sol : t1.x \in Turns /\ \A f \in first : t1.tau <= f.tau
    BY <1>1 DEF IInv, InStage
  <2> QED BY <1>1, <1>3, <1>11, <1>12, <2>1, <2>2 DEF InStage
<1> QED BY <1>1, <1>10, <1>13, WorkKeeps DEF IInv, Progress, Stages

LEMMA NextEdgeKeeps == ASSUME IInv, NextEdge PROVE IInv'
<1> DEFINE x     == IF sol = {} THEN CurrentArcs(g) ELSE The(sol).x
           e     == Head(search.edges)
           tries == DirectionCandidates(e, x)
<1>1. /\ req \in Requests /\ stage \in {"ZONES", "RESCUE"} /\ search.edges # <<>>
      /\ req' = req /\ stage' = stage /\ late' = late /\ first' = first /\ sol' = sol
      /\ answer' = answer
      /\ search' = [search EXCEPT !.edges = Tail(search.edges), !.tries = tries]
  BY DEF NextEdge, IInv
<1>2. InSearch(search) /\ \A t \in sol : t.x \in Turns /\ \A f \in first : t.tau <= f.tau
  BY <1>1 DEF IInv, InStage
<1>3. sol # {} => sol = {The(sol)}
  BY TheOnly DEF IInv, Progress, AtMostOne
<1>4. x \in Turns /\ e \in Triggered /\ Tail(search.edges) \in Seq(Triggered)
  BY <1>1, <1>2, <1>3, CurrentIsTurn DEF InSearch
<1>5. /\ tries \in Seq(Turns)
      /\ \A i \in DOMAIN tries : \A zone : e \in zone.edges => SameOutside(zone, tries[i], x)
  <2> HIDE DEF x, e
  <2> QED BY <1>1, <1>4, CandidateFacts
<1> HIDE DEF tries
<1>6. /\ search'.zones = search.zones /\ search'.zone = search.zone
      /\ search'.supply = search.supply /\ search'.tau = search.tau
      /\ search'.edges = Tail(search.edges) /\ search'.tries = tries /\ Fields(search')
  <2>1. Fields(search)
    BY DEF IInv, Progress
  <2>2. PICK es : es = Tail(search.edges) /\ search' = [search EXCEPT !.edges = es, !.tries = tries]
    BY <1>1
  <2> QED BY <2>1, <2>2 DEF Fields
<1>7. InSearch(search')
  BY <1>4, <1>5, <1>6 DEF InSearch
<1>8. ASSUME stage = "ZONES" PROVE \E s \in sol : InZones(search', s)
  <2>1. PICK s \in sol : InZones(search, s)
    BY <1>8 DEF IInv, InStage
  <2>2. sol = {s} /\ x = s.x
    BY <1>3, <2>1
  <2>3. ZoneSearched(search, s) /\ search.zones \in Seq(ZoneSet)
    BY <1>1, <2>1 DEF InZones
  <2>4. search.zone \in ZoneSet /\ search.edges \in Seq(search.zone.seedEdges)
    BY <2>3 DEF ZoneSearched
  <2>5. e \in search.zone.edges /\ Tail(search.edges) \in Seq(search.zone.seedEdges)
    <3>1. e \in search.zone.seedEdges /\ Tail(search.edges) \in Seq(search.zone.seedEdges)
      <4> DEFINE S == search.zone.seedEdges
      <4> HIDE DEF S
      <4>1. search.edges \in Seq(S)
        BY <2>4 DEF S
      <4>2. e \in S /\ Tail(search.edges) \in Seq(S)
        BY <1>1, <4>1
      <4> QED BY <4>2 DEF S
    <3> HIDE DEF e
    <3> QED BY <1>1, <2>4, <3>1, ZoneFacts DEF ZoneOk
  <2> HIDE DEF e, x
  <2>6. \A i \in DOMAIN tries : SameOutside(search.zone, tries[i], s.x)
    BY <1>5, <2>2, <2>5
  <2>7. ZoneSearched(search', s)
    BY <1>6, <2>3, <2>5, <2>6 DEF ZoneSearched
  <2> QED BY <1>6, <2>1, <2>3, <2>7 DEF InZones
<1>9. InStage'
  <2>1. Turns' = Turns /\ (\A q, t : InSearch(q)' = InSearch(q) /\ InZones(q, t)' = InZones(q, t))
    BY <1>1, SameRequest, SameZones
  <2>2. stage = "RESCUE" => first = {}
    BY DEF IInv, InStage
  <2> HIDE DEF x, e
  <2>3. stage = "ZONES" => \E s \in sol' : InZones(search, s)'
    BY <1>1, <1>8, <2>1
  <2> QED BY <1>1, <1>2, <1>7, <2>1, <2>2, <2>3 DEF InStage
<1> QED BY <1>1, <1>6, <1>9, WorkKeeps DEF IInv, Progress, Stages

\* Going on to the next candidate.
LEMMA TailFacts ==
  ASSUME NEW S, NEW q \in Seq(S), q # <<>>
  PROVE  /\ Head(q) \in S /\ Head(q) = q[1] /\ 1 \in DOMAIN q
         /\ Tail(q) \in Seq(S)
         /\ \A i \in DOMAIN Tail(q) : i + 1 \in DOMAIN q /\ Tail(q)[i] = q[i + 1]
  OBVIOUS

\* The solution a zone's candidate gives, if it is adopted.
LEMMA AdoptedIsSound ==
  ASSUME req \in Requests, NEW zone \in ZoneSet, NEW old, Sound(old),
         NEW x \in SUBSET Arcs(g), SameOutside(zone, x, old.x),
         NEW f \in ZoneFlows(g, inp, zone, x, ZoneNetSupply(zone, old.flow))
  PROVE  LET flow == Composed(zone, f, old.flow)
         IN  /\ Sound(Solution(x, flow, TauOf(flow)))
             /\ ZoneNetSupply(zone, flow) = ZoneNetSupply(zone, old.flow)
             /\ Improves(Tau(zone.edges, flow), Tau(zone.edges, old.flow)) =>
                  TauOf(flow) <= old.tau
<1> DEFINE arcs == ZoneArcs(zone, x)
           flow == Composed(zone, f, old.flow)
<1>1. f \in Routings(g, arcs, ZoneNetSupply(zone, old.flow))
  BY DEF ZoneFlows, WithinLimits
<1>2. /\ old.flow \in [Arcs(g) -> Nat] /\ Balanced(old.flow) /\ Carrying(old.flow) \subseteq old.x
      /\ old.tau = TauOf(old.flow)
  BY DEF Sound
<1>3. Inner(zone)
  BY ZoneFacts DEF ZoneOk
<1>4. flow \in [Arcs(g) -> Nat] /\ Balanced(flow)
  BY <1>1, <1>2, <1>3, ComposedBalance
<1>5. Carrying(flow) \subseteq x
  <2> SUFFICES ASSUME NEW arc \in Arcs(g), flow[arc] > 0 PROVE arc \in x
    BY <1>4 DEF Carrying
  <2>1. CASE arc[1] \in zone.edges
    <3>1. flow[arc] = Or(f, arc, 0)
      BY <2>1 DEF Composed
    <3>2. arc \in DOMAIN f
      BY <3>1 DEF Or
    <3>3. DOMAIN f = arcs
      BY <1>1 DEF Routings
    <3> QED BY <3>2, <3>3 DEF ZoneArcs
  <2>2. CASE arc[1] \notin zone.edges
    <3>1. flow[arc] = old.flow[arc] /\ arc \in Outside(zone)
      BY <2>2 DEF Composed, Outside
    <3>2. arc \in old.x
      BY <1>2, <3>1 DEF Carrying
    <3> QED BY <3>1, <3>2 DEF SameOutside
  <2> QED BY <2>1, <2>2
<1>6. \A arc \in Outside(zone) : flow[arc] = old.flow[arc]
  BY DEF Composed, Outside
<1>7. Solution(x, flow, TauOf(flow)).x = x /\ Solution(x, flow, TauOf(flow)).flow = flow
      /\ Solution(x, flow, TauOf(flow)).tau = TauOf(flow)
  BY DEF Solution
<1> HIDE DEF flow
<1>8. Sound(Solution(x, flow, TauOf(flow)))
  BY <1>4, <1>5, <1>7 DEF Sound
<1>9. ZoneNetSupply(zone, flow) = ZoneNetSupply(zone, old.flow)
  BY <1>2, <1>4, <1>6, SupplyStays
<1>10. Improves(Tau(zone.edges, flow), Tau(zone.edges, old.flow)) => TauOf(flow) <= old.tau
  BY <1>2, <1>4, <1>6, ZoneHelpsSite
<1> QED BY <1>8, <1>9, <1>10 DEF flow

LEMMA TryInZoneKeeps == ASSUME IInv, TryInZone PROVE IInv'
<1> DEFINE zone  == search.zone
           x     == Head(search.tries)
           flows == ZoneFlows(g, inp, zone, x, search.supply)
<1>1. PICK old \in sol : InZones(search, old)
  BY DEF TryInZone, IInv, InStage
<1>2. sol = {old} /\ The(sol) = old /\ Sound(old)
  BY <1>1, TheOnly DEF IInv, Progress, AtMostOne
<1> DEFINE Made(f)   == Composed(zone, f, The(sol).flow)
           Better(f) == Safe(x) /\ Improves(Tau(zone.edges, Made(f)), search.tau)
<1>3. /\ req \in Requests /\ stage = "ZONES" /\ search.tries # <<>>
      /\ req' = req /\ stage' = stage /\ late' = late /\ first' = first /\ answer' = answer
  BY DEF TryInZone, IInv
<1>4. ZoneSearched(search, old) /\ search.zones \in Seq(ZoneSet)
  BY <1>1, <1>3 DEF InZones
<1>5. InSearch(search) /\ old.x \in Turns /\ \A s \in first : old.tau <= s.tau
  BY <1>2, <1>3 DEF IInv, InStage
<1>6. /\ x \in Turns /\ Tail(search.tries) \in Seq(Turns) /\ SameOutside(zone, x, old.x)
      /\ \A i \in DOMAIN Tail(search.tries) : SameOutside(zone, Tail(search.tries)[i], old.x)
  <2>1. search.tries \in Seq(Turns)
    BY <1>5 DEF InSearch
  <2>2. \A i \in DOMAIN search.tries : SameOutside(zone, search.tries[i], old.x)
    BY <1>4 DEF ZoneSearched
  <2> QED BY <1>3, <2>1, <2>2, TailFacts
<1>7. zone \in ZoneSet /\ search.supply = ZoneNetSupply(zone, old.flow)
      /\ search.tau = Tau(zone.edges, old.flow)
  BY <1>4 DEF ZoneSearched
<1>8. PICK found \in Flows(flows, Least(flows, TotalFlow)) :
        LET better == {Made(f) : f \in {h \in found : Better(h)}}
        IN  /\ sol' = IF better = {} THEN sol
                      ELSE {Solution(x, flow, TauOf(flow)) : flow \in better}
            /\ search' = [search EXCEPT !.tries = Tail(search.tries),
                            !.tau = IF better = {} THEN search.tau
                                    ELSE Tau(zone.edges, The(better))]
  BY DEF TryInZone, Composed
<1>9. found = {} \/ \E f \in flows : found = {f}
  <2>1. Least(flows, TotalFlow) \in SUBSET flows
    BY DEF Least
  <2> HIDE DEF flows
  <2> QED BY <2>1, FoundFacts
<1> DEFINE better == {Made(f) : f \in {h \in found : Better(h)}}
\* Whether or not a candidate is adopted, a sound solution remains that
\* differs in the zone only and is no worse.
<1>10. \E new, tau :
         /\ sol' = {new} /\ Sound(new) /\ new.x \in Turns /\ new.tau <= old.tau
         /\ search' = [search EXCEPT !.tries = Tail(search.tries), !.tau = tau]
         /\ tau = Tau(zone.edges, new.flow) /\ search.supply = ZoneNetSupply(zone, new.flow)
         /\ SameOutside(zone, new.x, old.x)
  <2>1. CASE better = {}
    <3>1. sol' = sol /\ search' = [search EXCEPT !.tries = Tail(search.tries), !.tau = search.tau]
      BY <1>8, <2>1
    <3>2. old.tau <= old.tau
      <4>1. old.tau \in Int
        BY <1>2, <1>3, TauFacts DEF Sound, TauOf
      <4> QED BY <4>1
    <3>3. SameOutside(zone, old.x, old.x)
      BY DEF SameOutside
    <3> QED BY <1>2, <1>5, <1>7, <3>1, <3>2, <3>3
  <2>2. CASE better # {}
    <3>1. PICK f \in flows : found = {f} /\ Better(f)
      BY <1>9, <2>2
    <3> DEFINE flow == Made(f)
               new  == Solution(x, flow, TauOf(flow))
    <3>2. better = {flow}
      <4> HIDE DEF Made, Better
      <4> QED BY <3>1
    <3>3. The(better) = flow
      <4> HIDE DEF better, flow
      <4> QED BY <3>2, TheOnly
    <3>4. sol' = {new}
          /\ search' = [search EXCEPT !.tries = Tail(search.tries), !.tau = Tau(zone.edges, flow)]
      <4>1. /\ sol' = {Solution(x, h, TauOf(h)) : h \in better}
            /\ search' = [search EXCEPT !.tries = Tail(search.tries),
                                        !.tau = Tau(zone.edges, The(better))]
        BY <1>8, <2>2
      <4>2. {Solution(x, h, TauOf(h)) : h \in {flow}} = {new}
        <5> HIDE DEF flow
        <5> QED OBVIOUS
      <4> HIDE DEF better, flow
      <4> QED BY <3>2, <3>3, <4>1, <4>2
    <3>5. x \in SUBSET Arcs(g) /\ f \in ZoneFlows(g, inp, zone, x, ZoneNetSupply(zone, old.flow))
      BY <1>6, <1>7 DEF Turns
    <3>6. /\ Sound(new) /\ ZoneNetSupply(zone, flow) = ZoneNetSupply(zone, old.flow)
          /\ Improves(Tau(zone.edges, flow), Tau(zone.edges, old.flow)) => TauOf(flow) <= old.tau
      <4> HIDE DEF zone, x
      <4> QED BY <1>2, <1>3, <1>6, <1>7, <3>5, AdoptedIsSound
    <3>7. TauOf(flow) <= old.tau
      BY <1>7, <3>1, <3>6
    <3>8. new.x = x /\ new.flow = flow /\ new.tau = TauOf(flow)
      BY DEF Solution
    <3> HIDE DEF new, flow, x, zone
    <3> QED BY <1>6, <1>7, <3>4, <3>6, <3>7, <3>8
  <2> QED BY <2>1, <2>2
<1>11. PICK new, tau :
         /\ sol' = {new} /\ Sound(new) /\ new.x \in Turns /\ new.tau <= old.tau
         /\ search' = [search EXCEPT !.tries = Tail(search.tries), !.tau = tau]
         /\ tau = Tau(zone.edges, new.flow) /\ search.supply = ZoneNetSupply(zone, new.flow)
         /\ SameOutside(zone, new.x, old.x)
  BY <1>10
<1> HIDE DEF better, flows, Made, Better
<1>12. /\ search'.zones = search.zones /\ search'.zone = zone
       /\ search'.supply = search.supply /\ search'.tau = tau
       /\ search'.edges = search.edges /\ search'.tries = Tail(search.tries) /\ Fields(search')
  <2>1. Fields(search)
    BY DEF IInv, Progress
  <2>2. PICK ts : ts = Tail(search.tries) /\ search' = [search EXCEPT !.tries = ts, !.tau = tau]
    BY <1>11
  <2> QED BY <2>1, <2>2 DEF Fields
<1>13. ZoneSearched(search', new)
  <2>1. search.edges \in Seq(zone.seedEdges)
    BY <1>4 DEF ZoneSearched
  <2>2. \A i \in DOMAIN search'.tries : SameOutside(zone, search'.tries[i], new.x)
    BY <1>6, <1>11, <1>12 DEF SameOutside
  <2> QED BY <1>7, <1>11, <1>12, <2>1, <2>2 DEF ZoneSearched
<1>14. InZones(search', new) /\ InSearch(search')
  BY <1>4, <1>5, <1>6, <1>12, <1>13 DEF InZones, InSearch
<1>15. \A s \in first : new.tau <= s.tau
  <2>1. \A s : Sound(s) => s.tau \in Int
    BY <1>3, TauFacts DEF Sound, TauOf
  <2>2. \A s \in first : Sound(s)
    BY DEF IInv, Progress
  <2> QED BY <1>2, <1>5, <1>11, <2>1, <2>2
<1>16. InStage'
  <2>1. Turns' = Turns /\ (\A q, s : InSearch(q)' = InSearch(q) /\ InZones(q, s)' = InZones(q, s))
    BY <1>3, SameRequest, SameZones
  <2> QED BY <1>3, <1>11, <1>14, <1>15, <2>1 DEF InStage
<1>17. \A s \in first' \cup sol' : Sound(s)
  BY <1>3, <1>11 DEF IInv, Progress
<1>18. AtMostOne(sol')
  BY <1>11 DEF AtMostOne
<1> QED BY <1>3, <1>12, <1>16, <1>17, <1>18, WorkKeeps DEF IInv, Progress, Stages

LEMMA TryWholeKeeps == ASSUME IInv, TryWhole PROVE IInv'
<1> DEFINE x         == Head(search.tries)
           flows     == AssignmentFlows(g, inp, coms, x)
           Better(f) == Safe(x) /\ (sol # {} => Improves(TauOf(f), The(sol).tau))
           Whole(f)  == OnArcs(Arcs(g), f)
<1>1. /\ req \in Requests /\ stage = "RESCUE" /\ search.tries # <<>>
      /\ req' = req /\ stage' = stage /\ late' = late /\ first' = first /\ answer' = answer
      /\ search' = [search EXCEPT !.tries = Tail(search.tries)]
  BY DEF TryWhole, IInv
<1>2. /\ first = {} /\ InSearch(search) /\ AtMostOne(sol)
      /\ \A s \in sol : Sound(s) /\ s.x \in Turns
  BY <1>1 DEF IInv, InStage, Progress
<1>3. x \in Turns /\ Tail(search.tries) \in Seq(Turns)
  BY <1>1, <1>2, TailFacts DEF InSearch
<1>4. PICK found \in Flows(flows, Least(flows, TotalFlow)) :
        LET better == {Whole(f) : f \in {h \in found : Better(h)}}
        IN  sol' = IF better = {} THEN sol
                   ELSE {Solution(x, flow, TauOf(flow)) : flow \in better}
  BY DEF TryWhole
<1>5. found = {} \/ \E f \in flows : found = {f}
  <2>1. Least(flows, TotalFlow) \in SUBSET flows
    BY DEF Least
  <2> HIDE DEF flows
  <2> QED BY <2>1, FoundFacts
<1> DEFINE better == {Whole(f) : f \in {h \in found : Better(h)}}
<1>6. AtMostOne(sol') /\ \A s \in sol' : Sound(s) /\ s.x \in Turns
  <2>1. CASE better = {}
    BY <1>2, <1>4, <2>1
  <2>2. CASE better # {}
    <3>1. PICK f \in flows : found = {f} /\ Better(f)
      BY <1>5, <2>2
    <3> DEFINE flow == Whole(f)
               new  == Solution(x, flow, TauOf(flow))
    <3>2. better = {flow}
      <4> HIDE DEF Whole, Better
      <4> QED BY <3>1
    <3>3. sol' = {new}
      <4>1. sol' = {Solution(x, h, TauOf(h)) : h \in better}
        BY <1>4, <2>2
      <4>2. {Solution(x, h, TauOf(h)) : h \in {flow}} = {new}
        <5> HIDE DEF flow
        <5> QED OBVIOUS
      <4> HIDE DEF better, flow
      <4> QED BY <3>2, <4>1, <4>2
    <3>4. x \in SUBSET Arcs(g) /\ f \in DemandFlows(g, coms, x)
      BY <1>3 DEF Turns, AssignmentFlows, WithinLimits
    <3>5. Sound(new)
      <4> HIDE DEF x
      <4> QED BY <1>1, <3>4, WholeSolution
    <3>6. new.x = x
      BY DEF Solution
    <3> HIDE DEF new, x
    <3> QED BY <1>3, <3>3, <3>5, <3>6 DEF AtMostOne
  <2> QED BY <2>1, <2>2
<1> HIDE DEF better, flows, Better, Whole
<1>7. search'.edges = search.edges /\ search'.tries = Tail(search.tries) /\ Fields(search')
  <2>1. Fields(search)
    BY DEF IInv, Progress
  <2>2. PICK ts : ts = Tail(search.tries) /\ search' = [search EXCEPT !.tries = ts]
    BY <1>1
  <2> QED BY <2>1, <2>2 DEF Fields
<1>8. InSearch(search')
  BY <1>2, <1>3, <1>7 DEF InSearch
<1>9. InStage'
  <2>1. Turns' = Turns /\ (\A q : InSearch(q)' = InSearch(q))
    BY <1>1, SameRequest, SameZones
  <2> QED BY <1>1, <1>2, <1>6, <1>8, <2>1 DEF InStage
<1>10. \A s \in first' \cup sol' : Sound(s)
  BY <1>1, <1>6 DEF IInv, Progress
<1> QED BY <1>1, <1>6, <1>7, <1>9, <1>10, WorkKeeps DEF IInv, Progress, Stages

LEMMA EndSearchKeeps == ASSUME IInv, EndSearch PROVE IInv'
<1>1. /\ req \in Requests /\ stage \in {"ZONES", "RESCUE"}
      /\ stage' = IF \E s \in sol : Safe(s.x) THEN "SPREAD" ELSE "FALLBACK"
      /\ search' = NoSearch
      /\ req' = req /\ late' = late /\ first' = first /\ sol' = sol /\ answer' = answer
  BY DEF EndSearch, IInv
<1>2. \A s \in sol : s.x \in Turns /\ \A f \in first : s.tau <= f.tau
  BY <1>1 DEF IInv, InStage
<1>3. Fields(search')
  BY <1>1 DEF Fields, NoSearch
<1>4. InStage'
  <2>1. Turns' = Turns /\ \A x : Safe(x)' = Safe(x)
    BY <1>1, SameRequest
  <2> QED BY <1>1, <1>2, <2>1 DEF InStage
<1> QED BY <1>1, <1>3, <1>4, WorkKeeps DEF IInv, Progress, Stages

-----------------------------------------------------------------------------
(* The answers of the search *)

\* Whatever is presented for a solution of the search that is safe to follow.
LEMMA PresentedIsOk ==
  ASSUME req \in Requests, NEW status, NEW shown, NEW importance, NEW s, NEW a,
         s.x \in Turns, Safe(s.x), Carrying(s.flow) \subseteq s.x,
         \A f \in first : TauOf(s.flow) <= f.tau + req.cfg.epsilon,
         s.tau <= TauOf(s.flow), TauOf(s.flow) <= s.tau + req.cfg.epsilon,
         a = Presented("SEARCH", status, s, shown,
               ComputeRestrictions(g, inp, zonesOfCall.zones, s,
                 [cfg |-> req.cfg, drainable |-> drainable, undrainable |-> undrainable,
                  detours |-> req.detours, triggered |-> req.triggered,
                  outflow |-> req.outflow, isOpen |-> isOpen],
                 importance, req.previous.restrictions))
  PROVE  AnswerOk(a)
<1> DEFINE call == [cfg |-> req.cfg, drainable |-> drainable, undrainable |-> undrainable,
                    detours |-> req.detours, triggered |-> req.triggered,
                    outflow |-> req.outflow, isOpen |-> isOpen]
           zones == zonesOfCall.zones
           restrictions == ComputeRestrictions(g, inp, zones, s, call, importance,
                                               req.previous.restrictions)
<1>1. a.origin = "SEARCH" /\ a.x = s.x /\ a.flow = s.flow /\ a.tau = s.tau
      /\ a.restrictions = restrictions
  <2> HIDE DEF call
  <2>1. a = Presented("SEARCH", status, s, shown, restrictions)
    BY DEF call
  <2> HIDE DEF restrictions
  <2> QED BY <2>1 DEF Presented, About
<1>2. s.x \in SUBSET Arcs(g)
  BY DEF Turns
<1>3. Followable(s.x)
  BY <1>2, SafeIsFollowable
<1>4. Helpful(a)
  BY <1>1 DEF Helpful
<1>5. ASSUME NEW e \in Closed(a) PROVE isOpen /\ Reaches(s.x \ ArcsOf(e))
  <2>1. PICK p \in ToSet(restrictions) : p.action = "CLOSE" /\ p.edge = e
    BY <1>1 DEF Closed
  <2>2. call.isOpen = isOpen
    OBVIOUS
  <2>3. \E n \in Nat : DOMAIN zones = 1 .. n
    BY ZoneFacts
  <2> HIDE DEF call, zones
  <2> QED BY <1>2, <2>1, <2>2, <2>3, RestrictionsClose
<1> HIDE DEF restrictions
<1> QED BY <1>1, <1>3, <1>4, <1>5 DEF AnswerOk

LEMMA PresentSearchKeeps == ASSUME IInv, PresentSearch PROVE IInv'
<1>1. req \in Requests /\ stage = "SPREAD"
  BY DEF PresentSearch, IInv
<1>2. PICK s : sol = {s} /\ The(sol) = s /\ Sound(s) /\ Safe(s.x)
  BY <1>1, TheOnly DEF IInv, InStage, Progress, AtMostOne
<1>3. s.x \in Turns /\ \A f \in first : s.tau <= f.tau
  BY <1>1, <1>2 DEF IInv, InStage
<1>4. PICK shown : Present(s, shown)
  BY <1>2 DEF PresentSearch
<1>5. PICK a : /\ Finish(a)
               /\ a = Presented("SEARCH", "LIGHTWEIGHT", s, shown,
                        ComputeRestrictions(g, inp, zonesOfCall.zones, s,
                          [cfg |-> req.cfg, drainable |-> drainable, undrainable |-> undrainable,
                           detours |-> req.detours, triggered |-> req.triggered,
                           outflow |-> req.outflow, isOpen |-> isOpen],
                          RouteImportance(g, shown), req.previous.restrictions))
  BY <1>4 DEF Present
<1>6. /\ s.tau = TauOf(s.flow) /\ Carrying(s.flow) \subseteq s.x /\ s.tau \in Int
      /\ \A f \in first : f.tau \in Int
      /\ req.cfg.epsilon \in Nat
  <2>1. \A t : Sound(t) => t.tau \in Int
    BY <1>1, TauFacts DEF Sound, TauOf
  <2> QED BY <1>1, <1>2, <2>1, CallFacts DEF IInv, Progress, Sound
<1>7. /\ \A f \in first : TauOf(s.flow) <= f.tau + req.cfg.epsilon
      /\ s.tau <= TauOf(s.flow) /\ TauOf(s.flow) <= s.tau + req.cfg.epsilon
  BY <1>3, <1>6
<1>8. AnswerOk(a)
  BY <1>1, <1>2, <1>3, <1>5, <1>6, <1>7, PresentedIsOk
<1> QED BY <1>5, <1>8, FinishKeeps

LEMMA PresentSpreadKeeps == ASSUME IInv, PresentSpread PROVE IInv'
<1> DEFINE best == The(sol)
           eps  == req.cfg.epsilon
<1>1. req \in Requests /\ stage = "SPREAD"
  BY DEF PresentSpread, IInv
<1>2. sol = {best} /\ Sound(best) /\ Safe(best.x)
  BY <1>1, TheOnly DEF IInv, InStage, Progress, AtMostOne
<1>3. best.x \in Turns /\ \A f \in first : best.tau <= f.tau
  BY <1>1, <1>2 DEF IInv, InStage
<1>4. PICK h \in SpreadFlows(g, inp, coms, best.x, drainable, best.tau + eps) :
        LET flow == OnArcs(Arcs(g), h)
        IN  /\ TauOf(flow) <= best.tau + eps
            /\ Present(Solution(best.x, flow, Min({best.tau, TauOf(flow)})), flow)
  BY DEF PresentSpread
<1> DEFINE flow == OnArcs(Arcs(g), h)
           s    == Solution(best.x, flow, Min({best.tau, TauOf(flow)}))
<1>5. best.x \in SUBSET Arcs(g) /\ h \in DemandFlows(g, coms, best.x)
  BY <1>3 DEF Turns, SpreadFlows, AssignmentFlows, WithinLimits
<1>6. flow \in [Arcs(g) -> Nat] /\ Carrying(flow) \subseteq best.x
  <2> HIDE DEF best
  <2> QED BY <1>1, <1>5, WholeFlow
<1>7. s.x = best.x /\ s.flow = flow /\ s.tau = Min({best.tau, TauOf(flow)})
  BY DEF Solution
<1>8. TauOf(flow) <= best.tau + eps /\ Present(s, flow)
  BY <1>4
<1>9. /\ best.tau \in Int /\ TauOf(flow) \in Int /\ eps \in Nat
      /\ \A f \in first : f.tau \in Int
  <2>1. \A t : Sound(t) => t.tau \in Int
    BY <1>1, TauFacts DEF Sound, TauOf
  <2>2. TauOf(flow) \in Int
    <3> HIDE DEF flow
    <3> QED BY <1>1, <1>6, TauFacts DEF TauOf
  <2> QED BY <1>1, <1>2, <2>1, <2>2, CallFacts DEF IInv, Progress
<1> HIDE DEF s, flow, best, eps
<1>10. s.tau \in {best.tau, TauOf(flow)} /\ s.tau <= TauOf(flow)
  <2>1. IsFiniteSet({best.tau, TauOf(flow)})
    BY PairIsFinite
  <2>2. {best.tau, TauOf(flow)} \in SUBSET Int /\ {best.tau, TauOf(flow)} # {}
    BY <1>9
  <2> QED BY <1>7, <2>1, <2>2, MinFacts
<1>11. /\ \A f \in first : TauOf(s.flow) <= f.tau + eps
       /\ s.tau <= TauOf(s.flow) /\ TauOf(s.flow) <= s.tau + eps
  BY <1>3, <1>7, <1>8, <1>9, <1>10
<1>12. PICK a : /\ Finish(a)
                /\ a = Presented("SEARCH", "LIGHTWEIGHT", s, flow,
                         ComputeRestrictions(g, inp, zonesOfCall.zones, s,
                           [cfg |-> req.cfg, drainable |-> drainable, undrainable |-> undrainable,
                            detours |-> req.detours, triggered |-> req.triggered,
                            outflow |-> req.outflow, isOpen |-> isOpen],
                           RouteImportance(g, flow), req.previous.restrictions))
  BY <1>8 DEF Present
<1>13. AnswerOk(a)
  BY <1>1, <1>2, <1>3, <1>6, <1>7, <1>11, <1>12, PresentedIsOk DEF eps
<1> QED BY <1>12, <1>13, FinishKeeps

-----------------------------------------------------------------------------
(* The other answers *)

\* An answer without directions.
LEMMA EmptyIsOk ==
  ASSUME NEW a, a.x = {}, a.flow = NoFlow(Arcs(g)), a.origin \notin {"SEARCH", "STRICT"}
  PROVE  AnswerOk(a)
<1>1. Carrying(a.flow) = {}
  BY DEF Carrying, NoFlow
<1> QED BY <1>1 DEF AnswerOk

LEMMA OutOfTimeKeeps == ASSUME IInv, OutOfTime PROVE IInv'
<1>1. AnswerOk(Empty("TIMEOUT"))
  BY EmptyIsOk DEF Empty
<1> QED BY <1>1, FinishKeeps DEF OutOfTime

LEMMA AnswerPreviousKeeps == ASSUME IInv, AnswerPrevious PROVE IInv'
<1> DEFINE kept == [Empty("INFEASIBLE") EXCEPT !.restrictions = req.previous.restrictions,
                                               !.boundary = req.previous.boundary]
           a    == [kept EXCEPT !.origin = IF req.previous.exists THEN "PREVIOUS_RESULT"
                                           ELSE "NO_RESULT"]
<1>1. Finish(a)
  BY DEF AnswerPrevious
<1>2. a.x = {} /\ a.flow = NoFlow(Arcs(g)) /\ a.origin \notin {"SEARCH", "STRICT"}
  BY DEF Empty
<1> HIDE DEF a
<1>3. AnswerOk(a)
  BY <1>2, EmptyIsOk
<1> QED BY <1>1, <1>3, FinishKeeps

LEMMA AnswerSlackKeeps == ASSUME IInv, AnswerSlack PROVE IInv'
<1> DEFINE x == CurrentArcs(g)
<1>1. req \in Requests /\ x \in SUBSET Arcs(g)
  BY DEF IInv, CurrentArcs
<1>2. PICK f \in FallbackFlows \cup DemandFlows(g, coms, x) :
        \E limits, tau :
          LET flow == OnArcs(Arcs(g), f)
          IN  Finish(About("SLACK_LP", "INFEASIBLE", Solution(x, flow, tau), flow, limits, {},
                           NoFlow(Arcs(g))))
  BY DEF AnswerSlack
<1>3. f \in DemandFlows(g, coms, x)
  BY DEF FallbackFlows, SlackFlows, Least
<1> DEFINE flow == OnArcs(Arcs(g), f)
<1>4. Carrying(flow) \subseteq x
  <2> HIDE DEF x
  <2> QED BY <1>1, <1>3, WholeFlow
<1>5. PICK limits, tau :
        Finish(About("SLACK_LP", "INFEASIBLE", Solution(x, flow, tau), flow, limits, {},
                     NoFlow(Arcs(g))))
  BY <1>2
<1> HIDE DEF flow, x
<1>6. AnswerOk(About("SLACK_LP", "INFEASIBLE", Solution(x, flow, tau), flow, limits, {},
                     NoFlow(Arcs(g))))
  BY <1>4 DEF AnswerOk, About, Solution
<1> QED BY <1>5, <1>6, FinishKeeps

\* What the strict program presents is one of its choices.
LEMMA StrictIsOk ==
  ASSUME req \in Requests, NEW c \in FirstPhase, NEW tau, NEW status,
         ChoiceTau(c) <= tau + req.cfg.epsilon
  PROVE  AnswerOk(Presented("STRICT", status, Solution(c.x, c.flow, tau), c.flow, <<>>))
<1> DEFINE a == Presented("STRICT", status, Solution(c.x, c.flow, tau), c.flow, <<>>)
<1>1. a.origin = "STRICT" /\ a.x = c.x /\ a.flow = c.flow /\ a.tau = tau
  BY DEF Presented, About, Solution
<1> HIDE DEF a
<1>2. Followable(c.x) /\ LegalViolations(g, c.x) = {} /\ Carrying(c.flow) \subseteq c.x
  BY ChoiceFacts DEF Sound, Solution
<1>3. AnswerOk(a)
  BY <1>1, <1>2 DEF AnswerOk, ChoiceTau
<1> QED BY <1>3 DEF a

LEMMA SolvePhase1Keeps == ASSUME IInv, SolvePhase1 PROVE IInv'
<1>1. req \in Requests /\ stage = "CALLED"
  BY DEF IInv, SolvePhase1
<1>2. PICK end \in SolverEnds(FirstPhase, Least(FirstPhase, ChoiceTau)) :
        \/ stage' = "FALLBACK" /\ UNCHANGED <<req, late, first, sol, search, answer>>
        \/ Finish(Empty(end.status))
        \/ /\ end.found # {}
           /\ first' = {Solution(c.x, c.flow, ChoiceTau(c)) : c \in end.found}
           /\ sol' = first'
           /\ search' = [NoSearch EXCEPT !.status = end.status]
           /\ stage' = "PHASE2"
           /\ UNCHANGED <<req, late, answer>>
  BY DEF SolvePhase1
<1>3. CASE stage' = "FALLBACK" /\ UNCHANGED <<req, late, first, sol, search, answer>>
  <2>1. InStage'
    BY <1>3 DEF InStage
  <2> QED BY <1>1, <1>3, <2>1, WorkKeeps DEF IInv, Progress, Stages
<1>4. CASE Finish(Empty(end.status))
  <2>1. AnswerOk(Empty(end.status))
    BY EmptyIsOk DEF Empty
  <2> QED BY <1>4, <2>1, FinishKeeps
<1>5. CASE /\ end.found # {}
           /\ first' = {Solution(c.x, c.flow, ChoiceTau(c)) : c \in end.found}
           /\ sol' = first'
           /\ search' = [NoSearch EXCEPT !.status = end.status]
           /\ stage' = "PHASE2"
           /\ UNCHANGED <<req, late, answer>>
  <2>1. end.found \in Flows(FirstPhase, Least(FirstPhase, ChoiceTau))
        /\ Least(FirstPhase, ChoiceTau) \in SUBSET FirstPhase
    BY DEF Flows, Found, Least
  <2>2. PICK c \in FirstPhase : end.found = {c}
    BY <1>5, <2>1, FoundFacts
  <2>3. sol' = {Solution(c.x, c.flow, ChoiceTau(c))} /\ first' = sol'
    BY <1>5, <2>2
  <2>4. Sound(Solution(c.x, c.flow, ChoiceTau(c)))
    BY <1>1, ChoiceFacts
  <2>5. Fields(search')
    BY <1>5 DEF NoSearch, Fields
  <2>6. InStage'
    <3>1. FirstPhase' = FirstPhase /\ ChoiceTau(c)' = ChoiceTau(c)
      BY <1>5, SameRequest DEF ChoiceTau
    <3>2. FromFirstPhase(c)'
      BY <2>3, <3>1 DEF FromFirstPhase
    <3> QED BY <1>5, <2>3, <3>2 DEF InStage
  <2> QED BY <1>1, <1>5, <2>3, <2>4, <2>5, <2>6, WorkKeeps DEF IInv, Progress, Stages, AtMostOne
<1> QED BY <1>2, <1>3, <1>4, <1>5

LEMMA SkipPhase2Keeps == ASSUME IInv, SkipPhase2 PROVE IInv'
<1>1. req \in Requests /\ stage = "PHASE2"
  BY DEF IInv, SkipPhase2
<1>2. PICK c : FromFirstPhase(c) /\ first = sol
  BY <1>1 DEF IInv, InStage
<1> DEFINE s == Solution(c.x, c.flow, ChoiceTau(c))
<1>3. c \in FirstPhase /\ The(sol) = s /\ The(first) = s
  BY <1>2, TheOnly DEF FromFirstPhase
<1>4. ChoiceTau(c) \in Int /\ req.cfg.epsilon \in Nat
  BY <1>1, <1>3, ChoiceFacts, TauFacts, CallFacts DEF Sound, Solution, ChoiceTau, TauOf
<1>5. [s EXCEPT !.tau = s.tau] = s /\ s.flow = c.flow
  BY DEF Solution
<1>6. Finish(Presented("STRICT", search.status, s, c.flow, <<>>))
  <2> HIDE DEF s
  <2> QED BY <1>3, <1>5 DEF SkipPhase2, PresentStrict
<1>7. AnswerOk(Presented("STRICT", search.status, s, c.flow, <<>>))
  BY <1>1, <1>3, <1>4, StrictIsOk
<1> QED BY <1>6, <1>7, FinishKeeps

LEMMA StrictShows ==
  ASSUME NEW x, NEW flow, NEW tau, NEW t, t = The(first).tau,
         PresentStrict(Solution(x, flow, tau))
  PROVE  Finish(Presented("STRICT", search.status, Solution(x, flow, t), flow, <<>>))
<1> DEFINE s == Solution(x, flow, tau)
<1>1. [s EXCEPT !.tau = t] = Solution(x, flow, t) /\ s.flow = flow
  BY DEF Solution
<1> HIDE DEF s
<1> QED BY <1>1 DEF PresentStrict, s

LEMMA SolvePhase2Keeps == ASSUME IInv, SolvePhase2 PROVE IInv'
<1> DEFINE cap    == The(sol).tau + req.cfg.epsilon
           within == Phase2Choices(g, inp, coms, isOpen, drainable, cap)
           Loss(c) == -Through(c.flow, throughputEdges)
<1>1. req \in Requests /\ stage = "PHASE2"
  BY DEF IInv, SolvePhase2
<1>2. PICK c1 : FromFirstPhase(c1) /\ first = sol
  BY <1>1 DEF IInv, InStage
<1>3. The(first) = The(sol)
  BY <1>2
<1>4. PICK end \in SolverEnds(within, Least(within, Loss)) :
        /\ end.found # {}
        /\ LET c == The(end.found) IN PresentStrict(Solution(c.x, c.flow, ChoiceTau(c)))
  BY DEF SolvePhase2
<1>5. end.found \in Flows(within, Least(within, Loss)) /\ Least(within, Loss) \in SUBSET within
  BY DEF Flows, Found, Least
<1>6. PICK c \in within : end.found = {c}
  <2> HIDE DEF within, Loss
  <2> QED BY <1>4, <1>5, FoundFacts
<1>7. c \in FirstPhase /\ ResidualTau(g, inp, drainable, c.flow) <= cap
  BY DEF Phase2Choices, FirstPhase
<1>8. ChoiceTau(c) <= cap
  <2>1. drainable \cap ActiveEdges(g) = drainable
    BY DEF drainable, Drainable
  <2> QED BY <1>7, <2>1 DEF ChoiceTau, TauOf, Tau
<1> DEFINE t == The(sol).tau
<1>9. PresentStrict(Solution(c.x, c.flow, ChoiceTau(c)))
  BY <1>4, <1>6, TheOnly
<1>10. Finish(Presented("STRICT", search.status, Solution(c.x, c.flow, t), c.flow, <<>>))
  <2>1. t = The(first).tau
    BY <1>3
  <2> HIDE DEF t
  <2> QED BY <1>9, <2>1, StrictShows
<1>11. AnswerOk(Presented("STRICT", search.status, Solution(c.x, c.flow, t), c.flow, <<>>))
  BY <1>1, <1>7, <1>8, StrictIsOk
<1> QED BY <1>10, <1>11, FinishKeeps

LEMMA DeadlinePassesKeeps == ASSUME IInv, DeadlinePasses PROVE IInv'
<1>1. /\ req \in Requests /\ stage # "DONE" /\ late' = TRUE
      /\ req' = req /\ stage' = stage /\ first' = first /\ sol' = sol /\ search' = search
      /\ answer' = answer
  BY DEF IInv, DeadlinePasses
<1>2. InStage'
  <2>1. /\ Turns' = Turns /\ FirstPhase' = FirstPhase
        /\ \A x : Safe(x)' = Safe(x)
        /\ \A q, s : InSearch(q)' = InSearch(q) /\ InZones(q, s)' = InZones(q, s)
    BY <1>1, SameRequest, SameZones
  <2>2. \A c : FromFirstPhase(c)' = FromFirstPhase(c)
    <3>1. \A c : ChoiceTau(c)' = ChoiceTau(c)
      BY <1>1, SameRequest DEF ChoiceTau
    <3> QED BY <1>1, <2>1, <3>1 DEF FromFirstPhase
  <2>3. InStage
    BY DEF IInv
  <2> QED BY <1>1, <2>1, <2>2, <2>3 DEF InStage
<1> QED BY <1>1, <1>2, WorkKeeps DEF IInv, Progress, Stages

LEMMA InitKeeps == ASSUME Init PROVE IInv
<1>1. Progress
  BY DEF Init, Progress, Stages, AtMostOne, Fields, NoSearch
<1> QED BY <1>1 DEF Init, IInv, InStage

LEMMA StepKeeps == ASSUME IInv, [Next]_vars PROVE IInv'
<1>1. CASE Lightweight
  BY <1>1, StartLightweightKeeps, EnterZoneKeeps, NextEdgeKeeps, TryInZoneKeeps, TryWholeKeeps,
     EndSearchKeeps, PresentSearchKeeps, PresentSpreadKeeps DEF Lightweight
<1>2. CASE Strict
  BY <1>2, SolvePhase1Keeps, SkipPhase2Keeps, SolvePhase2Keeps DEF Strict
<1>3. CASE Fallback
  BY <1>3, OutOfTimeKeeps, AnswerSlackKeeps, AnswerPreviousKeeps DEF Fallback
<1>4. CASE DeadlinePasses
  BY <1>4, DeadlinePassesKeeps
<1>5. CASE UNCHANGED vars
  <2>1. /\ req' = req /\ stage' = stage /\ late' = late /\ first' = first /\ sol' = sol
        /\ search' = search /\ answer' = answer
    BY <1>5 DEF vars
  <2>2. /\ Turns' = Turns /\ FirstPhase' = FirstPhase
        /\ \A x : Safe(x)' = Safe(x)
        /\ \A s : Sound(s)' = Sound(s)
        /\ \A q, s : InSearch(q)' = InSearch(q) /\ InZones(q, s)' = InZones(q, s)
        /\ \A a : AnswerOk(a)' = AnswerOk(a)
    BY <2>1, SameRequest, SameZones, SameAnswers
  <2>3. \A c : FromFirstPhase(c)' = FromFirstPhase(c)
    <3>1. \A c : ChoiceTau(c)' = ChoiceTau(c)
      BY <2>1, SameRequest DEF ChoiceTau
    <3> QED BY <2>1, <2>2, <3>1 DEF FromFirstPhase
  <2>4. InStage'
    BY <2>1, <2>2, <2>3 DEF IInv, InStage
  <2>5. Progress'
    BY <2>1, <2>2 DEF IInv, Progress, AtMostOne
  <2> QED BY <2>1, <2>2, <2>4, <2>5 DEF IInv
<1> QED BY <1>1, <1>2, <1>3, <1>4, <1>5 DEF Next

-----------------------------------------------------------------------------
(* The theorems *)

\* Whatever the requests, the solver and the clock do, the call's state is
\* always one the inductive invariant describes: a solution is balanced and
\* keeps to its directions, a search knows its zone, and an answer is right
\* the moment it is given.
THEOREM Invariance == Spec => []IInv
<1>1. Init => IInv
  BY InitKeeps
<1>2. IInv /\ [Next]_vars => IInv'
  BY StepKeeps
<1> QED BY <1>1, <1>2, PTL DEF Spec

LEMMA AtMostOneCounts == ASSUME NEW S, AtMostOne(S) PROVE Cardinality(S) <= 1
<1>1. CASE S = {}
  BY <1>1, FS_EmptySet
<1>2. CASE \E s \in S : S = {s}
  BY <1>2, FS_Singleton
<1> QED BY <1>1, <1>2 DEF AtMostOne

\* Type correctness (TypeOK): a call is done exactly when it has answered, it
\* has at most one solution and one answer, and a solution is about the arcs
\* of the request's graph.
THEOREM TypeCorrect == Spec => []TypeOK
<1>1. IInv => TypeOK
  BY AtMostOneCounts DEF IInv, Progress, Stages, Sound, TypeOK
<1> QED BY <1>1, Invariance, PTL

\* The net supply of _zone_net_supply and the composition in
\* _optimize_lightweight keep every solution balanced (SolutionBalanced):
\* the flow carries the demand through every node, for any graph, demand and
\* zones, however many candidates of however many zones are adopted.
THEOREM FlowsAreBalanced == Spec => []SolutionBalanced
<1>1. IInv => SolutionBalanced
  BY DEF IInv, Progress, Sound, Balanced, SolutionBalanced
<1> QED BY <1>1, Invariance, PTL

\* No flow, of a solution or of an answer from the search, the strict program
\* or a fallback, uses an arc that is not opened with it
\* (FlowKeepsToDirections).
THEOREM FlowsKeepToDirections == Spec => []FlowKeepsToDirections
<1>1. IInv => FlowKeepsToDirections
  BY DEF IInv, Progress, Sound, AnswerOk, FlowKeepsToDirections
<1> QED BY <1>1, Invariance, PTL

\* Directions that are proposed anew leave every node on a passage a way in
\* and a way out, and connect an open site with its entries and exits, by a
\* definition of reachability that is not the code's (SafeToFollow): the
\* checks of _local_reachability_ok and _boundary_reachability_ok, and the
\* constraints of the strict program, are enough for that.
THEOREM DirectionsAreSafe == Spec => []SafeToFollow
<1>1. ASSUME IInv, NEW a \in Fresh PROVE Followable(a.x)
  BY <1>1 DEF IInv, AnswerOk, Fresh
<1>2. IInv => SafeToFollow
  <2>1. ASSUME IInv, NEW a \in Fresh, NEW n \in Passed
        PROVE  \E m1, m2 \in EnabledNodes(g) : {<<m1, n>>, <<n, m2>>} \subseteq Links(g, a.x)
    <3>1. PICK m1, m2 \in EnabledNodes(g) : Joins(a.x, m1, n, m2)
      BY <1>1, <2>1 DEF Followable
    <3> QED BY <3>1 DEF Joins
  <2>2. ASSUME IInv, NEW a \in Fresh PROVE isOpen => Reaches(a.x)
    BY <1>1, <2>2 DEF Followable
  <2> QED BY <2>1, <2>2 DEF SafeToFollow, Passed
<1> QED BY <1>2, Invariance, PTL

\* An answer of the search turns triggered passages only, and those the law
\* fixes only to what the law says (TurnsAreAllowed), through any number of
\* adopted candidates.
THEOREM SearchTurnsWhatItMay == Spec => []TurnsAreAllowed
<1>1. ASSUME IInv, NEW a \in FromSearch, NEW e \in ActiveEdges(g) PROVE MayTurn(a.x, e)
  BY <1>1 DEF IInv, AnswerOk, FromSearch, Turns
<1>2. IInv => TurnsAreAllowed
  BY <1>1 DEF TurnsAreAllowed, MayTurn
<1> QED BY <1>2, Invariance, PTL

\* The search judges a candidate by the worst stagnation in its zone and still
\* never makes that of the whole site worse than keeping all directions does,
\* but for the tolerance of the spread (SearchHelps).
THEOREM SearchNeverHarms == Spec => []SearchHelps
<1>1. IInv => SearchHelps
  BY DEF IInv, AnswerOk, Helpful, FromSearch, SearchHelps
<1> QED BY <1>1, Invariance, PTL

\* _merge_overlapping divides the neighbourhoods of any triggers in any graph
\* into its connected parts: zones have no node in common and none of them
\* falls apart (ZonesArePartition).
THEOREM ZonesAreConnectedParts == Spec => []ZonesArePartition
<1>1. IInv => ZonesArePartition
  BY ZonesOfRequest DEF IInv
<1> QED BY <1>1, Invariance, PTL

\* The second phase of the strict program costs at most epsilon of the value
\* the first phase has reached, and no law is broken (StrictKeepsFirstPhase).
THEOREM SecondPhaseCostsLittle == Spec => []StrictKeepsFirstPhase
<1>1. IInv => StrictKeepsFirstPhase
  BY DEF IInv, AnswerOk, StrictKeepsFirstPhase
<1> QED BY <1>1, Invariance, PTL

\* Closing a passage that an answer proposes to close leaves the rest of an
\* open site connected with its entries and exits (ClosingIsSafe).
THEOREM ClosingLeavesWays == Spec => []ClosingIsSafe
<1>1. IInv => ClosingIsSafe
  BY DEF IInv, AnswerOk, FromSearch, ClosingIsSafe
<1> QED BY <1>1, Invariance, PTL
=============================================================================
