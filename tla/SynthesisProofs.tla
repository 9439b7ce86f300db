---------------------------- MODULE SynthesisProofs ----------------------------
(***************************************************************************)
(* Theorems about Synthesis, for every number and mixture of findings.  The *)
(* partition into clusters and the order of the rendered items need nothing *)
(* but the type of the findings.  What is kept of a narration rests on the   *)
(* clusters not changing under it, since judging the pairs comes first.  That*)
(* the clusters are the components of the SAME verdicts rests on the parents *)
(* being a forest: some function r names every finding's root, and some h    *)
(* gives heights that fall along the parents.  Neither is a variable of the  *)
(* model; the invariant says only that they exist, and each union says what  *)
(* they become.                                                              *)
(***************************************************************************)
EXTENDS Synthesis, FiniteSetTheorems, WellFoundedInduction, TLAPS

FindingsTyped == finding \in [Findings -> Kinds]

\* A narration is taken after the last pair was judged, and what was kept of it
\* matches the clusters still.
NarratedLast ==
  /\ strikes > 0 \/ narration # "pending" => Clustered
  /\ strikes \in Nat
  /\ narration = "pending" => echo = NoEcho
  /\ narration = "kept" => EchoesStructure(echo)
  /\ narration = "fell_back" => echo = NoEcho /\ strikes = 2

-----------------------------------------------------------------------------
(* A finding is in its own cluster, and in no other: whatever cluster holds it *)
(* is the one named after it.                                                *)
LEMMA OwnCluster ==
  ASSUME NEW i \in Valid
  PROVE  i \in Cluster(i) /\ (i \in Gaps \/ i \in Others)
BY DEF Cluster, Half, Gaps, Others

LEMMA SharedCluster ==
  ASSUME NEW k \in Valid, NEW i \in Cluster(k)
  PROVE  i \in Valid /\ Cluster(i) = Cluster(k) /\ (i \in Gaps <=> k \in Gaps)
<1>1. i \in Valid /\ Half(i) = Half(k) /\ (i \in Gaps <=> k \in Gaps)
  BY DEF Cluster, Half, Gaps, Others
<1>2. RootIn(parent, i) = RootIn(parent, k)
  BY DEF Cluster
<1> QED
  BY <1>1, <1>2 DEF Cluster

(* The three kinds of rendered cluster, told apart by the findings in it.      *)
LEMMA ClusterOfBand ==
  ASSUME NEW i \in Valid
  PROVE  /\ \A c \in OtherClusters : i \in c => c = Cluster(i) /\ i \in Others
         /\ \A c \in GapClusters : i \in c => c = Cluster(i) /\ i \in Gaps
         /\ i \in Others => Cluster(i) \in OtherClusters
         /\ i \in Gaps => Cluster(i) \in GapClusters
<1>1. ASSUME NEW c \in OtherClusters, i \in c PROVE c = Cluster(i) /\ i \in Others
  <2>1. PICK k \in Others : c = Cluster(k)
    BY DEF OtherClusters
  <2> QED
    BY <1>1, <2>1, SharedCluster DEF Others
<1>2. ASSUME NEW c \in GapClusters, i \in c PROVE c = Cluster(i) /\ i \in Gaps
  <2>1. PICK k \in Gaps : c = Cluster(k)
    BY DEF GapClusters
  <2> QED
    BY <1>2, <2>1, SharedCluster DEF Gaps
<1> QED
  BY <1>1, <1>2 DEF OtherClusters, GapClusters

(* Every finding with a claim is rendered in exactly one cluster, and a        *)
(* contradicted one never in an agreement (synthesizer.py:334-401).           *)
THEOREM Partition == NothingIsLost
<1> DEFINE bands == <<Agreements, Contradictions, {c \in GapClusters : IsWeak(c)},
                      {c \in GapClusters : ~ IsWeak(c)}>>
<1> SUFFICES ASSUME NEW i \in Valid
             PROVE  /\ \E b \in 1 .. 4 : \E c \in bands[b] : i \in c
                    /\ \A b, d \in 1 .. 4 : \A c \in bands[b], e \in bands[d] :
                         i \in c /\ i \in e => b = d /\ c = e
                    /\ finding[i].verification = "contradicted" =>
                         \A c \in Agreements : i \notin c
  BY DEF NothingIsLost
<1>1. /\ bands[1] = {c \in OtherClusters : ~ IsContradicted(c)}
      /\ bands[2] = {c \in OtherClusters : IsContradicted(c)}
      /\ bands[3] = {c \in GapClusters : IsWeak(c)}
      /\ bands[4] = {c \in GapClusters : ~ IsWeak(c)}
  BY DEF Agreements, Contradictions
<1> HIDE DEF bands
<1>2. i \in Cluster(i) /\ (i \in Gaps \/ i \in Others) /\ ~ (i \in Gaps /\ i \in Others)
  BY OwnCluster DEF Others
<1>3. /\ \A c \in OtherClusters : i \in c => c = Cluster(i) /\ i \in Others
      /\ \A c \in GapClusters : i \in c => c = Cluster(i) /\ i \in Gaps
      /\ i \in Others => Cluster(i) \in OtherClusters
      /\ i \in Gaps => Cluster(i) \in GapClusters
  BY ClusterOfBand
<1>4. \E b \in 1 .. 4 : \E c \in bands[b] : i \in c
  <2>1. CASE i \in Others
    BY <1>1, <1>2, <1>3, <2>1
  <2>2. CASE i \in Gaps
    BY <1>1, <1>2, <1>3, <2>2
  <2> QED
    BY <1>2, <2>1, <2>2
<1>5. ASSUME NEW b \in 1 .. 4, NEW d \in 1 .. 4, NEW c \in bands[b], NEW e \in bands[d],
             i \in c, i \in e
      PROVE  b = d /\ c = e
  <2>1. c = Cluster(i) /\ e = Cluster(i)
    BY <1>1, <1>3, <1>5
  <2>2. /\ b = 1 <=> i \in Others /\ ~ IsContradicted(c)
        /\ b = 2 <=> i \in Others /\ IsContradicted(c)
        /\ b = 3 <=> i \in Gaps /\ IsWeak(c)
        /\ b = 4 <=> i \in Gaps /\ ~ IsWeak(c)
    BY <1>1, <1>2, <1>3, <1>5
  <2>3. /\ d = 1 <=> i \in Others /\ ~ IsContradicted(e)
        /\ d = 2 <=> i \in Others /\ IsContradicted(e)
        /\ d = 3 <=> i \in Gaps /\ IsWeak(e)
        /\ d = 4 <=> i \in Gaps /\ ~ IsWeak(e)
    BY <1>1, <1>2, <1>3, <1>5
  <2> QED
    BY <2>1, <2>2, <2>3
<1>6. finding[i].verification = "contradicted" => \A c \in Agreements : i \notin c
  BY DEF Agreements, Contradictions, IsContradicted
<1> QED
  BY <1>4, <1>5, <1>6

THEOREM NothingLost == Spec => []NothingIsLost
BY Partition, PTL
-----------------------------------------------------------------------------
(* Among numbers there is a least one: the one place where induction over the  *)
(* height of the parents is needed, and only for one given function.           *)
LEMMA LeastNatural ==
  ASSUME NEW T \in SUBSET Nat, T # {}
  PROVE  \E m \in T : \A k \in T : m <= k
<1>1. PICK m \in T : \A k \in T : ~ (<<k, m>> \in OpToRel(<, Nat))
  BY NatLessThanWellFounded, WFMin
<1>2. \A k \in T : ~ (k < m)
  BY <1>1 DEF OpToRel
<1> QED
  BY <1>2

\* up hangs every finding under another one of smaller height, or is its own root,
\* and r names the roots.
Forest(up, r, h) ==
  /\ up \in [Findings -> Findings]
  /\ r \in [Findings -> Findings]
  /\ h \in [Findings -> Nat]
  /\ \A y \in Findings :
       /\ up[y] = y => r[y] = y
       /\ up[y] # y => r[y] = r[up[y]] /\ h[up[y]] < h[y]
       /\ up[r[y]] = r[y]

(* find (clusterer.py:167-171) returns the root, if the parents are a forest: two*)
(* functions that solve its equation cannot differ at a finding of least height.*)
LEMMA RootIs ==
  ASSUME NEW up, NEW r, NEW h, Forest(up, r, h), NEW x \in Findings
  PROVE  RootIn(up, x) = r[x]
<1> DEFINE Eq(g) == g = [y \in Findings |-> IF up[y] = y THEN y ELSE g[up[y]]]
<1>1. Eq(r)
  BY DEF Forest
<1>2. RootIn(up, x) = (CHOOSE g : Eq(g))[x]
  BY DEF RootIn
<1> HIDE DEF Eq
<1>3. PICK g : g = (CHOOSE f : Eq(f)) /\ Eq(g)
  BY <1>1
<1>4. ASSUME NEW y \in Findings, g[y] # r[y] PROVE FALSE
  <2> DEFINE Wrong == {n \in Nat : \E z \in Findings : h[z] = n /\ g[z] # r[z]}
  <2>1. h[y] \in Wrong
    BY <1>4 DEF Forest
  <2>2. PICK m \in Wrong : \A k \in Wrong : m <= k
    BY <2>1, LeastNatural
  <2>3. PICK z \in Findings : h[z] = m /\ g[z] # r[z]
    BY <2>2
  <2>4. g[z] = IF up[z] = z THEN z ELSE g[up[z]]
    BY <1>3 DEF Eq
  <2>5. up[z] # z
    BY <2>3, <2>4 DEF Forest
  <2>6. up[z] \in Findings /\ h[up[z]] \in Nat /\ h[up[z]] < m /\ g[up[z]] # r[up[z]]
    BY <2>3, <2>4, <2>5 DEF Forest
  <2>7. h[up[z]] \in Wrong
    BY <2>6
  <2>8. m <= h[up[z]]
    BY <2>2, <2>7
  <2> HIDE DEF Wrong
  <2> QED
    BY <2>3, <2>6, <2>8 DEF Forest
<1> QED
  BY <1>2, <1>3, <1>4

(* Path halving (clusterer.py:169) moves a finding up its own path, and so   *)
(* changes neither a root nor an order of heights.                             *)
LEMMA HalvedKeeps ==
  ASSUME NEW up, NEW r, NEW h, Forest(up, r, h), NEW x
  PROVE  Forest(HalvedIn(up, x), r, h)
<1>1. PICK visited : HalvedIn(up, x) =
        [y \in Findings |-> IF y \in visited THEN up[up[y]] ELSE up[y]]
  BY DEF HalvedIn
<1> DEFINE new == HalvedIn(up, x)
<1>2. new \in [Findings -> Findings]
  BY <1>1 DEF Forest
<1>3. ASSUME NEW y \in Findings
      PROVE  /\ new[y] = y => r[y] = y
             /\ new[y] # y => r[y] = r[new[y]] /\ h[new[y]] < h[y]
             /\ new[r[y]] = r[y]
  <2>1. new[y] \in {up[y], up[up[y]]} /\ new[r[y]] \in {up[r[y]], up[up[r[y]]]}
    BY <1>1 DEF Forest
  <2>2. new[r[y]] = r[y]
    BY <2>1 DEF Forest
  <2>3. up[y] \in Findings /\ up[up[y]] \in Findings
    BY DEF Forest
  <2>4. h[y] \in Nat /\ h[up[y]] \in Nat /\ h[up[up[y]]] \in Nat
    BY <2>3 DEF Forest
  <2>5. CASE up[y] = y
    BY <2>1, <2>2, <2>5 DEF Forest
  <2>6. CASE up[y] # y
    <3>1. r[y] = r[up[y]] /\ h[up[y]] < h[y]
      BY <2>6 DEF Forest
    <3>2. r[up[up[y]]] = r[up[y]] /\ h[up[up[y]]] <= h[up[y]]
      BY <2>3, <2>4 DEF Forest
    <3>3. h[new[y]] < h[y] /\ r[new[y]] = r[y]
      BY <2>1, <2>4, <3>1, <3>2
    <3> QED
      BY <2>2, <3>3, <2>4
  <2> QED
    BY <2>5, <2>6
<1> QED
  BY <1>2, <1>3 DEF Forest

\* The roots and heights once the root of x hangs under the root of y.
JoinedRoots(r, x, y) == [z \in Findings |-> IF r[z] = r[x] THEN r[y] ELSE r[z]]
JoinedHeights(r, h, x, y) ==
  [z \in Findings |-> IF r[z] = r[x] /\ r[x] # r[y] THEN h[z] + h[r[y]] + 1 ELSE h[z]]

(* union (clusterer.py:173-176) makes one tree of the two, whichever paths were*)
(* halved on the way, and leaves the other trees alone.                        *)
LEMMA JoinsForest ==
  ASSUME NEW up, NEW r, NEW h, Forest(up, r, h), NEW x \in Findings, NEW y \in Findings
  PROVE  Forest(Joins(up, x, y), JoinedRoots(r, x, y), JoinedHeights(r, h, x, y))
<1>1. PICK seen : seen = HalvedIn(HalvedIn(up, x), y) /\ Forest(seen, r, h)
  BY HalvedKeeps
<1>2. Joins(up, x, y) = [seen EXCEPT ![r[x]] = r[y]]
  BY <1>1, RootIs DEF Joins
<1>3. r[x] \in Findings /\ r[y] \in Findings /\ r[r[x]] = r[x] /\ r[r[y]] = r[y]
  BY <1>1 DEF Forest
<1>4. CASE r[x] = r[y]
  <2>1. Joins(up, x, y) = seen
    BY <1>1, <1>2, <1>3, <1>4 DEF Forest
  <2>2. JoinedRoots(r, x, y) = r /\ JoinedHeights(r, h, x, y) = h
    BY <1>1, <1>4 DEF Forest, JoinedRoots, JoinedHeights
  <2> QED
    BY <1>1, <2>1, <2>2
<1>5. CASE r[x] # r[y]
  <2> DEFINE new == [seen EXCEPT ![r[x]] = r[y]]
             rr == JoinedRoots(r, x, y)
             hh == JoinedHeights(r, h, x, y)
  <2>1. /\ new \in [Findings -> Findings]
        /\ rr \in [Findings -> Findings] /\ hh \in [Findings -> Nat]
    BY <1>1, <1>3 DEF Forest, JoinedRoots, JoinedHeights
  <2>2. ASSUME NEW z \in Findings
        PROVE  /\ new[z] = z => rr[z] = z
               /\ new[z] # z => rr[z] = rr[new[z]] /\ hh[new[z]] < hh[z]
               /\ new[rr[z]] = rr[z]
    <3>0. /\ seen[z] \in Findings /\ r[z] \in Findings
          /\ h[z] \in Nat /\ h[seen[z]] \in Nat /\ h[r[y]] \in Nat /\ h[r[x]] \in Nat
          /\ seen[z] = z => r[z] = z
          /\ seen[z] # z => r[z] = r[seen[z]] /\ h[seen[z]] < h[z]
          /\ seen[r[z]] = r[z] /\ seen[r[y]] = r[y]
      BY <1>1, <1>3 DEF Forest
    <3>1. /\ \A w \in Findings : rr[w] = IF r[w] = r[x] THEN r[y] ELSE r[w]
          /\ \A w \in Findings : hh[w] = IF r[w] = r[x] THEN h[w] + h[r[y]] + 1 ELSE h[w]
          /\ \A w \in Findings : new[w] = IF w = r[x] THEN r[y] ELSE seen[w]
      BY <1>1, <1>5 DEF Forest, JoinedRoots, JoinedHeights
    <3> HIDE DEF new, rr, hh
    <3>2. new[rr[z]] = rr[z]
      BY <1>3, <1>5, <3>0, <3>1
    <3>3. CASE z = r[x]
      BY <1>3, <1>5, <3>0, <3>1, <3>2, <3>3
    <3>4. CASE z # r[x]
      <4>1. CASE seen[z] = z
        BY <1>3, <1>5, <3>0, <3>1, <3>2, <3>4, <4>1
      <4>2. CASE seen[z] # z
        <5>1. new[z] = seen[z] /\ r[seen[z]] = r[z]
          BY <3>0, <3>1, <3>4, <4>2
        <5>2. rr[seen[z]] = rr[z]
          BY <3>0, <3>1, <5>1
        <5>3. hh[seen[z]] < hh[z]
          BY <3>0, <3>1, <5>1, <4>2
        <5> QED
          BY <3>2, <4>2, <5>1, <5>2, <5>3
      <4> QED
        BY <4>1, <4>2
    <3> QED
      BY <3>3, <3>4
  <2> QED
    BY <1>2, <2>1, <2>2 DEF Forest
<1> QED
  BY <1>4, <1>5

-----------------------------------------------------------------------------
\* The roots tell apart what no SAME verdict links: findings judged the same have
\* one root, a set closed under the verdicts is a union of whole trees, and only
\* findings with a claim were ever joined, each with its own half.
Linked(r) ==
  /\ \A p \in Findings \X Findings :
       /\ Judged(p) => p \in Pairs
       /\ judged[p] = "same" => r[p[1]] = r[p[2]]
  /\ \A members \in SUBSET Findings :
       IsClosed(members) =>
         \A i, j \in Findings : r[i] = r[j] => (i \in members <=> j \in members)
  /\ \A j \in Findings : IF j \in Valid THEN r[j] \in Half(j) ELSE r[j] = j

IsLinked == \E r, h : Forest(parent, r, h) /\ Linked(r)

\* The part of the type invariant that needs no forest.
Shapes ==
  /\ finding \in [Findings -> Kinds]
  /\ flags \in 0 .. FlagBound
  /\ judged \in [Findings \X Findings -> Judgements \cup {"none"}]
  /\ strikes \in 0 .. 2
  /\ narration \in {"pending", "kept", "fell_back"}
  /\ echo \in [agreements : SUBSET SUBSET Findings, gaps : SUBSET SUBSET Findings]

LEMMA PairOfValid ==
  ASSUME NEW p \in Pairs
  PROVE  /\ p = <<p[1], p[2]>> /\ p \in Findings \X Findings
         /\ p[1] \in Valid /\ p[2] \in Valid /\ p[1] \in Findings /\ p[2] \in Findings
         /\ Half(p[1]) = Half(p[2])
BY DEF Pairs, Half, Others, Gaps, Valid

LEMMA HalvesApart ==
  ASSUME NEW i, NEW j, NEW k \in Half(i), k \in Half(j)
  PROVE  Half(i) = Half(j) /\ k \in Valid
BY DEF Half, Others, Gaps

LEMMA ShapesInv == Spec => []Shapes
<1>1. Init => Shapes
  BY DEF Init, Shapes, NoEcho
<1>2. ASSUME Shapes, [Next]_vars PROVE Shapes'
  <2>1. ASSUME NEW p \in Findings \X Findings, Judge(p) PROVE Shapes'
    BY <1>2, <2>1 DEF Judge, Shapes
  <2>2. CASE NarrationAccepted
    <3>1. Agreements \in SUBSET SUBSET Findings /\ GapClusters \in SUBSET SUBSET Findings
      BY DEF Agreements, Contradictions, OtherClusters, GapClusters, Cluster, Half, Others,
         Gaps, Valid
    <3>2. PICK candidate \in Echoes : EchoesStructure(candidate) /\ echo' = candidate
      BY <2>2 DEF NarrationAccepted
    <3>3. echo' \in [agreements : SUBSET SUBSET Findings, gaps : SUBSET SUBSET Findings]
      BY <3>1, <3>2 DEF Echoes, EchoesStructure
    <3> QED
      BY <1>2, <2>2, <3>3 DEF NarrationAccepted, Shapes
  <2>3. CASE NarrationRejected
    BY <1>2, <2>3 DEF NarrationRejected, Shapes
  <2>4. CASE FallBack
    BY <1>2, <2>4 DEF FallBack, Shapes, NoEcho
  <2>5. CASE UNCHANGED vars
    BY <1>2, <2>5 DEF vars, Shapes
  <2> QED
    BY <1>2, <2>1, <2>2, <2>3, <2>4, <2>5 DEF Next
<1> QED
  BY <1>1, <1>2, PTL DEF Spec

\* The pairs are judged in their order.
InOrder ==
  \A p \in Findings \X Findings :
    Judged(p) => p \in Pairs /\ \A q \in Pairs : Before(q, p) => Judged(q)

LEMMA InOrderInv == Spec => []InOrder
<1>1. Init => InOrder
  BY DEF Init, InOrder, Judged
<1>2. ASSUME Shapes, InOrder, [Next]_vars PROVE InOrder'
  <2>1. ASSUME UNCHANGED finding
        PROVE  Pairs' = Pairs /\ \A q, p : Before(q, p)' <=> Before(q, p)
    BY <2>1 DEF Pairs, Before, Others, Gaps, Valid
  <2>2. ASSUME NEW p \in Findings \X Findings, Judge(p) PROVE InOrder'
    <3>1. PICK judgement \in Judgements : judged' = [judged EXCEPT ![p] = judgement]
      BY <2>2 DEF Judge
    <3>2. /\ p \in Pairs /\ UNCHANGED finding
          /\ \A q \in Pairs : Before(q, p) => Judged(q)
      BY <2>2 DEF Judge
    <3>3. judgement # "none"
      BY JudgementsAssumption DEF AllJudgements
    <3>4. \A q \in Findings \X Findings : Judged(q)' <=> Judged(q) \/ q = p
      BY <1>2, <3>1, <3>3 DEF Shapes, Judged
    <3>5. Pairs \subseteq Findings \X Findings
      BY PairOfValid
    <3> QED
      BY <1>2, <2>1, <3>2, <3>4, <3>5 DEF InOrder
  <2>3. ASSUME UNCHANGED <<finding, judged>> PROVE InOrder'
    BY <1>2, <2>1, <2>3 DEF InOrder, Judged
  <2> QED
    BY <1>2, <2>2, <2>3 DEF Next, NarrationAccepted, NarrationRejected, FallBack, vars
<1> QED
  BY <1>1, <1>2, ShapesInv, PTL DEF Spec

LEMMA LinkedInitially == Init => IsLinked
<1> SUFFICES ASSUME Init PROVE IsLinked
  OBVIOUS
<1> DEFINE r == [i \in Findings |-> i]
           h == [i \in Findings |-> 0]
<1>1. Forest(parent, r, h)
  BY DEF Forest, Init
<1>2. Linked(r)
  BY DEF Linked, Init, Judged, Half, Others, Gaps, Valid
<1> QED
  BY <1>1, <1>2 DEF IsLinked

(* A SAME verdict: a set closed under the verdicts so far and this one holds both*)
(* trees or neither.                                                           *)
LEMMA LinkedByMerge ==
  ASSUME Shapes, NEW r, NEW h, Forest(parent, r, h), Linked(r), NEW p \in Pairs, ~ Judged(p),
         UNCHANGED finding, judged' = [judged EXCEPT ![p] = "same"],
         parent' = Joins(parent, p[1], p[2])
  PROVE  IsLinked'
<1>1. /\ p \in Findings \X Findings
      /\ p[1] \in Valid /\ p[2] \in Valid /\ p[1] \in Findings /\ p[2] \in Findings
  BY PairOfValid
<1>2. PICK s, g : /\ s = JoinedRoots(r, p[1], p[2])
                  /\ g = JoinedHeights(r, h, p[1], p[2])
                  /\ Forest(parent', s, g)
  BY <1>1, JoinsForest
<1>3. Valid' = Valid /\ Pairs' = Pairs /\ \A z : Half(z)' = Half(z)
  BY DEF Pairs, Half, Others, Gaps, Valid
<1>4. /\ \A z \in Findings : s[z] = IF r[z] = r[p[1]] THEN r[p[2]] ELSE r[z]
      /\ \A z \in Findings : r[z] \in Findings
  BY <1>2 DEF JoinedRoots, Forest
<1>5. \A q \in Findings \X Findings : judged'[q] = IF q = p THEN "same" ELSE judged[q]
  BY <1>1 DEF Shapes
<1>6. ASSUME NEW q \in Findings \X Findings
      PROVE  /\ judged'[q] # "none" => q \in Pairs
             /\ judged'[q] = "same" => s[q[1]] = s[q[2]]
  <2>1. CASE q = p
    BY <1>1, <1>4, <2>1
  <2>2. CASE q # p
    <3>1. judged'[q] = judged[q]
      BY <1>5, <2>2
    <3>2. /\ judged[q] # "none" => q \in Pairs
          /\ judged[q] = "same" => r[q[1]] = r[q[2]]
      BY DEF Linked, Judged
    <3> QED
      BY <1>4, <3>1, <3>2
  <2> QED
    BY <2>1, <2>2
<1>7. ASSUME NEW members \in SUBSET Findings, IsClosed(members)',
             NEW i \in Findings, NEW j \in Findings, s[i] = s[j]
      PROVE  i \in members <=> j \in members
  <2>1. IsClosed(members) /\ (p[1] \in members <=> p[2] \in members)
    <3>1. \A q \in Findings \X Findings :
            judged'[q] = "same" => (q[1] \in members <=> q[2] \in members)
      BY <1>7 DEF IsClosed
    <3> QED
      BY <1>1, <1>5, <3>1 DEF IsClosed
  <2>2. \A k, l \in Findings : r[k] = r[l] => (k \in members <=> l \in members)
    BY <2>1 DEF Linked
  <2>3. r[i] = r[j] \/ (r[i] \in {r[p[1]], r[p[2]]} /\ r[j] \in {r[p[1]], r[p[2]]})
    BY <1>4, <1>7
  <2> QED
    BY <1>1, <2>1, <2>2, <2>3
<1>8. ASSUME NEW j \in Findings
      PROVE  IF j \in Valid THEN s[j] \in Half(j) ELSE s[j] = j
  <2>1. r[p[1]] \in Half(p[1]) /\ r[p[2]] \in Half(p[1])
    BY <1>1, PairOfValid DEF Linked
  <2>2. CASE j \in Valid /\ r[j] = r[p[1]]
    <3>1. Half(j) = Half(p[1])
      BY <2>1, <2>2, HalvesApart DEF Linked
    <3> QED
      BY <1>4, <2>1, <2>2, <3>1
  <2>3. CASE j \in Valid /\ r[j] # r[p[1]]
    BY <1>4, <2>3 DEF Linked
  <2>4. CASE j \notin Valid
    <3>1. r[j] = j /\ r[p[1]] \in Valid
      BY <2>1, <2>4, HalvesApart DEF Linked
    <3> QED
      BY <1>4, <2>4, <3>1
  <2> QED
    BY <2>2, <2>3, <2>4
<1>9. Linked(s)'
  BY <1>3, <1>6, <1>7, <1>8 DEF Linked, Judged
<1> QED
  BY <1>2, <1>9 DEF IsLinked

(* Any other verdict, and every step of the narration, leaves the forest alone.*)
LEMMA LinkedKept ==
  ASSUME IsLinked, UNCHANGED <<finding, parent>>,
         \A p \in Findings \X Findings :
           /\ judged'[p] # "none" => Judged(p) \/ p \in Pairs
           /\ judged'[p] = "same" <=> judged[p] = "same"
  PROVE  IsLinked'
<1>1. PICK r, h : Forest(parent, r, h) /\ Linked(r)
  BY DEF IsLinked
<1>2. Valid' = Valid /\ Pairs' = Pairs /\ \A z : Half(z)' = Half(z)
  BY DEF Pairs, Half, Others, Gaps, Valid
<1>3. \A members \in SUBSET Findings : IsClosed(members)' => IsClosed(members)
  BY DEF IsClosed
<1>4. Linked(r)'
  BY <1>1, <1>2, <1>3 DEF Linked, Judged
<1>5. Forest(parent', r, h)
  BY <1>1
<1> QED
  BY <1>4, <1>5 DEF IsLinked

LEMMA LinkedInv == Spec => []IsLinked
<1>1. ASSUME Shapes, IsLinked, [Next]_vars PROVE IsLinked'
  <2>1. ASSUME NEW p \in Findings \X Findings, Judge(p) PROVE IsLinked'
    <3>1. PICK judgement \in Judgements :
            /\ judged' = [judged EXCEPT ![p] = judgement]
            /\ parent' = IF Merges(judgement) THEN Joins(parent, p[1], p[2]) ELSE parent
      BY <2>1 DEF Judge
    <3>2. p \in Pairs /\ ~ Judged(p) /\ UNCHANGED finding
      BY <2>1 DEF Judge
    <3>3. CASE judgement = "same"
      <4>1. PICK r, h : Forest(parent, r, h) /\ Linked(r)
        BY <1>1 DEF IsLinked
      <4> QED
        BY <1>1, <3>1, <3>2, <3>3, <4>1, LinkedByMerge DEF Merges
    <3>4. CASE judgement # "same"
      <4>1. UNCHANGED <<finding, parent>>
        BY <3>1, <3>2, <3>4 DEF Merges
      <4>2. \A q \in Findings \X Findings :
              /\ judged'[q] # "none" => Judged(q) \/ q \in Pairs
              /\ judged'[q] = "same" <=> judged[q] = "same"
        BY <1>1, <3>1, <3>2, <3>4 DEF Shapes, Judged
      <4> QED
        BY <1>1, <4>1, <4>2, LinkedKept
    <3> QED
      BY <3>3, <3>4
  <2>2. ASSUME UNCHANGED <<finding, parent, judged>> PROVE IsLinked'
    BY <1>1, <2>2, LinkedKept DEF Judged
  <2> QED
    BY <1>1, <2>1, <2>2 DEF Next, NarrationAccepted, NarrationRejected, FallBack, vars
<1> QED
  BY <1>1, LinkedInitially, ShapesInv, PTL DEF Spec

(* Every variable has its type; the pairs are judged in their order, and only   *)
(* they (clusterer.py:199-217); and whatever path halving and unions leave     *)
(* behind, a parent is a clustered finding of the same half.                  *)
THEOREM TypeCorrect == Spec => []TypeOK
<1>1. Shapes /\ InOrder /\ IsLinked => TypeOK
  <2> SUFFICES ASSUME Shapes, InOrder, IsLinked PROVE TypeOK
    OBVIOUS
  <2>1. PICK r, h : Forest(parent, r, h) /\ Linked(r)
    BY DEF IsLinked
  <2>2. ASSUME NEW i \in Findings
        PROVE  IF i \in Valid THEN parent[i] \in Half(i) ELSE parent[i] = i
    <3>1. CASE i \notin Valid
      <4>1. r[i] = i
        BY <2>1, <3>1 DEF Linked
      <4> QED
        BY <2>1, <3>1, <4>1 DEF Forest
    <3>2. CASE i \in Valid
      <4>1. parent[i] \in Findings /\ r[parent[i]] = r[i]
        BY <2>1 DEF Forest
      <4>2. r[i] \in Half(i)
        BY <2>1, <3>2 DEF Linked
      <4>3. parent[i] \in Valid
        <5>1. r[i] \in Valid
          BY <4>2, HalvesApart
        <5>2. parent[i] \notin Valid => r[parent[i]] = parent[i]
          BY <2>1, <4>1 DEF Linked
        <5> QED
          BY <4>1, <5>1, <5>2
      <4>4. Half(parent[i]) = Half(i)
        BY <2>1, <4>1, <4>2, <4>3, HalvesApart DEF Linked
      <4>5. parent[i] \in Half(parent[i])
        BY <4>3 DEF Half, Others, Gaps
      <4> QED
        BY <3>2, <4>4, <4>5
    <3> QED
      BY <3>1, <3>2
  <2>3. ASSUME NEW i \in Findings, parent[i] # i
        PROVE  /\ finding[i].text = "claim" /\ finding[parent[i]].text = "claim"
               /\ finding[i].type = "gap" <=> finding[parent[i]].type = "gap"
    BY <2>2, <2>3 DEF Half, Others, Gaps, Valid
  <2> QED
    BY <2>1, <2>3 DEF TypeOK, Shapes, InOrder, Forest
<1> QED
  BY <1>1, ShapesInv, InOrderInv, LinkedInv, PTL

(* The clusters are exactly the components of the SAME verdicts, for every number*)
(* of findings and every order of judging and halving (clusterer.py:217-242).  *)
THEOREM ClustersCorrect == Spec => []ClustersAreComponents
<1>1. IsLinked => ClustersAreComponents
  <2> SUFFICES ASSUME IsLinked, NEW i \in Valid
               PROVE  /\ IsClosed(Cluster(i))
                      /\ \A members \in SUBSET Cluster(i) :
                           i \in members /\ IsClosed(members) => members = Cluster(i)
    BY DEF ClustersAreComponents
  <2>1. PICK r, h : Forest(parent, r, h) /\ Linked(r)
    BY DEF IsLinked
  <2>2. \A j \in Findings : RootIn(parent, j) = r[j]
    BY <2>1, RootIs
  <2>3. i \in Findings /\ Half(i) \subseteq Findings
    BY DEF Half, Others, Gaps, Valid
  <2>4. Cluster(i) = {j \in Half(i) : r[j] = r[i]}
    BY <2>2, <2>3 DEF Cluster
  <2>5. IsClosed(Cluster(i))
    <3> SUFFICES ASSUME NEW p \in Findings \X Findings, judged[p] = "same"
                 PROVE  p[1] \in Cluster(i) <=> p[2] \in Cluster(i)
      BY DEF IsClosed
    <3>1. p \in Pairs /\ r[p[1]] = r[p[2]]
      BY <2>1 DEF Linked, Judged
    <3>2. p[1] \in Half(i) <=> p[2] \in Half(i)
      BY <3>1 DEF Pairs, Half, Others
    <3> QED
      BY <2>4, <3>1, <3>2
  <2>6. ASSUME NEW members \in SUBSET Cluster(i), i \in members, IsClosed(members)
        PROVE  members = Cluster(i)
    <3>1. members \in SUBSET Findings
      BY <2>3 DEF Cluster
    <3>2. \A j \in Findings : r[j] = r[i] => j \in members
      BY <2>1, <2>3, <2>6, <3>1 DEF Linked
    <3> QED
      BY <2>3, <2>4, <2>6, <3>2
  <2> QED
    BY <2>5, <2>6
<1> QED
  BY <1>1, LinkedInv, PTL

-----------------------------------------------------------------------------
THEOREM Typed == Spec => []FindingsTyped
<1>1. Init => FindingsTyped
  BY DEF Init, FindingsTyped
<1>2. FindingsTyped /\ [Next]_vars => FindingsTyped'
  BY DEF FindingsTyped, Next, Judge, NarrationAccepted, NarrationRejected, FallBack, vars
<1> QED
  BY <1>1, <1>2, PTL DEF Spec

(* The strongest confidence is one of the three tiers, of a member if any.    *)
LEMMA StrongestType ==
  ASSUME FindingsTyped, NEW members \in SUBSET Findings
  PROVE  Strongest(members) \in 1 .. 3
<1>1. CASE members = {}
  BY <1>1 DEF Strongest
<1>2. CASE members # {}
  <2> DEFINE Has(r) == \E i \in members : Rank(finding[i].confidence) = r
             Tops(r) == Has(r) /\ \A i \in members : Rank(finding[i].confidence) <= r
  <2>1. \A i \in members : finding[i].confidence \in Confidences
    BY KindsAssumption DEF FindingsTyped
  <2>2. \A i \in members : Rank(finding[i].confidence) \in 1 .. 3
    BY <2>1 DEF Rank, Confidences
  <2>3. \E r \in 1 .. 3 : Tops(r)
    <3>1. CASE Has(3)
      BY <2>2, <3>1
    <3>2. CASE ~ Has(3) /\ Has(2)
      BY <2>2, <3>2
    <3>3. CASE ~ Has(3) /\ ~ Has(2)
      BY <1>2, <2>2, <3>3
    <3> QED
      BY <3>1, <3>2, <3>3
  <2> HIDE DEF Tops
  <2>4. (CHOOSE r \in 1 .. 3 : Tops(r)) \in 1 .. 3
    BY <2>3
  <2>5. Strongest(members) = CHOOSE r \in 1 .. 3 : Tops(r)
    BY <1>2 DEF Strongest, Tops
  <2> QED
    BY <2>4, <2>5
<1> QED
  BY <1>1, <1>2

LEMMA CountBound ==
  ASSUME NEW members \in SUBSET Findings
  PROVE  /\ Cardinality(members) \in 0 .. FindingCount
         /\ members # {} => Cardinality(members) > 0
<1>1. IsFiniteSet(Findings) /\ Cardinality(Findings) = FindingCount
  BY FS_Interval, CountAssumption DEF Findings
<1>2. IsFiniteSet(members) /\ Cardinality(members) <= FindingCount
  BY <1>1, FS_Subset
<1>3. Cardinality(members) \in Nat
  BY <1>2, FS_CardinalityType
<1>4. members # {} => Cardinality(members) # 0
  BY <1>2, FS_EmptySet
<1> QED
  BY <1>2, <1>3, <1>4, CountAssumption

(* The severity of an item, from its kind, strength and count.                *)
LEMMA ItemSeverity ==
  ASSUME FindingsTyped, NEW item \in Primary
  PROVE  /\ item.count \in 0 .. FindingCount
         /\ item.strongest \in 1 .. 3
         /\ item.kind \in {"tension", "declared_gap"}
         /\ item.kind = "declared_gap" => item.count > 0
         /\ item.alarming \in BOOLEAN
<1>1. PICK kind \in {"tension", "declared_gap"}, members \in SUBSET Findings :
        item = Item(kind, members) /\ (kind = "declared_gap" => members # {})
  <2>1. \A c \in OtherClusters \cup GapClusters : c \in SUBSET Findings
    BY DEF OtherClusters, GapClusters, Cluster, Half, Others, Gaps, Valid
  <2>2. \A g \in GapClusters : g # {}
    BY OwnCluster DEF GapClusters, Gaps
  <2>3. \A p \in OpposingPairs : {p[1], p[2]} \in SUBSET Findings
    BY DEF OpposingPairs, Pairs, Others, Gaps, Valid
  <2>4. ASSUME item \in Tensions
        PROVE  \E members \in SUBSET Findings : item = Item("tension", members)
    BY <2>1, <2>3, <2>4 DEF Tensions, Contradictions
  <2>5. ASSUME item \notin Tensions
        PROVE  \E members \in SUBSET Findings :
                 item = Item("declared_gap", members) /\ members # {}
    BY <2>1, <2>2, <2>5 DEF Primary
  <2> QED
    BY <2>4, <2>5
<1>2. /\ item.count = Cardinality(members)
      /\ item.strongest = Strongest(members)
      /\ item.kind = kind
      /\ item.alarming \in BOOLEAN
  BY <1>1 DEF Item, Alarming
<1> QED
  BY <1>1, <1>2, StrongestType, CountBound

(* The tensions that do not alarm are small: a contradiction of one finding, an  *)
(* opposing pair or a flag.                                                   *)
LEMMA QuietTension ==
  ASSUME FindingsTyped, NEW item \in Primary, item.kind = "tension", ~ item.alarming
  PROVE  item.count <= 2
<1>1. item \in Tensions
  BY DEF Primary, Item
<1>2. CASE \E c \in Contradictions : item = Item("tension", c)
  <2>1. PICK c \in Contradictions : item = Item("tension", c)
    BY <1>2
  <2>2. "contradicted" \in Markers(c)
    BY DEF Contradictions, IsContradicted, Markers
  <2>3. c \in SUBSET Findings
    BY DEF Contradictions, OtherClusters, Cluster, Half, Gaps, Others, Valid
  <2>4. Cardinality(c) \in Nat
    BY <2>3, CountBound, CountAssumption
  <2>5. ~ (Cardinality(c) >= 2) /\ item.count = Cardinality(c)
    BY <2>1, <2>2 DEF Item, Alarming
  <2> QED
    BY <2>4, <2>5
<1>3. CASE \E p \in OpposingPairs : item = Item("tension", {p[1], p[2]})
  <2>1. PICK p \in OpposingPairs : item = Item("tension", {p[1], p[2]})
    BY <1>3
  <2>2. Cardinality({p[1], p[2]}) <= 2
    <3>1. IsFiniteSet({p[1]}) /\ Cardinality({p[1]}) = 1
      BY FS_Singleton
    <3>2. \/ Cardinality({p[1]} \cup {p[2]}) = Cardinality({p[1]})
          \/ Cardinality({p[1]} \cup {p[2]}) = Cardinality({p[1]}) + 1
      BY <3>1, FS_AddElement
    <3>3. {p[1], p[2]} = {p[1]} \cup {p[2]}
      OBVIOUS
    <3> QED
      BY <3>1, <3>2, <3>3
  <2> QED
    BY <2>1, <2>2 DEF Item
<1>4. CASE item = Item("tension", {})
  BY <1>4, FS_EmptySet DEF Item
<1> QED
  BY <1>1, <1>2, <1>3, <1>4 DEF Tensions

(* An alarming tension is led by nothing but alarms, and gaps with at least 70    *)
(* findings more (synthesizer.py:487-496), for any number of findings.         *)
THEOREM AlarmsFirst == Spec => []AlarmsLead
<1>1. FindingsTyped => AlarmsLead
  <2> SUFFICES ASSUME FindingsTyped, NEW a \in Primary, NEW b \in Primary,
                      IsAlarm(a), ~ IsAlarm(b), Severity(b) >= Severity(a)
               PROVE  b.kind = "declared_gap" /\ b.count >= a.count + 70
    BY DEF AlarmsLead
  <2>1. a.count \in Nat /\ b.count \in Nat /\ b.strongest \in 1 .. 3
    BY ItemSeverity, CountAssumption
  <2>2. Severity(a) = 100 + a.count
    BY DEF IsAlarm, Severity
  <2>3. ASSUME b.kind = "tension" PROVE FALSE
    <3>1. ~ b.alarming /\ b.count <= 2
      BY <2>3, QuietTension DEF IsAlarm
    <3>2. Severity(b) = 50 + b.count
      BY <2>3, <3>1 DEF Severity
    <3> QED
      BY <2>1, <2>2, <3>1, <3>2
  <2>4. b.kind = "declared_gap"
    BY <2>3, ItemSeverity
  <2>5. Severity(b) = 10 * b.strongest + b.count
    BY <2>4 DEF Severity
  <2> QED
    BY <2>1, <2>2, <2>4, <2>5
<1> QED
  BY <1>1, Typed, PTL

-----------------------------------------------------------------------------
(* What was kept of a narration was written over the clusters as rendered.     *)
LEMMA EchoIsRendered ==
  ASSUME EchoesStructure(echo)
  PROVE  /\ \A i \in Gaps : Cluster(i) \in echo.gaps
         /\ \A i \in Others :
              IF IsContradicted(Cluster(i))
              THEN \A group \in echo.agreements : i \notin group
              ELSE Cluster(i) \in echo.agreements
<1>1. \A i \in Gaps : Cluster(i) \in echo.gaps
  BY DEF EchoesStructure, GapClusters
<1>2. ASSUME NEW i \in Others, IsContradicted(Cluster(i)), NEW group \in echo.agreements
      PROVE  i \notin group
  <2>1. group \in OtherClusters /\ ~ IsContradicted(group)
    BY DEF EchoesStructure, Agreements, Contradictions
  <2>2. i \in group => group = Cluster(i)
    BY <2>1, ClusterOfBand DEF Others
  <2> QED
    BY <1>2, <2>1, <2>2
<1>3. ASSUME NEW i \in Others, ~ IsContradicted(Cluster(i))
      PROVE  Cluster(i) \in echo.agreements
  BY <1>3 DEF EchoesStructure, Agreements, Contradictions, OtherClusters
<1> QED
  BY <1>1, <1>2, <1>3

THEOREM NarratedInv == Spec => []NarratedLast
<1>1. Init => NarratedLast
  BY DEF Init, NarratedLast
<1>2. ASSUME NarratedLast, [Next]_vars PROVE NarratedLast'
  <2>1. ASSUME NEW p \in Findings \X Findings, Judge(p) PROVE NarratedLast'
    <3>1. ~ Clustered
      BY <2>1 DEF Judge, Clustered
    <3>2. strikes = 0 /\ narration = "pending" /\ echo = NoEcho
      BY <1>2, <3>1 DEF NarratedLast
    <3> QED
      BY <2>1, <3>2 DEF Judge, NarratedLast
  <2>2. ASSUME UNCHANGED <<finding, judged, parent>>
        PROVE  /\ Clustered' <=> Clustered
               /\ Agreements' = Agreements /\ GapClusters' = GapClusters
    BY <2>2 DEF Clustered, Judged, Pairs, Agreements, Contradictions, OtherClusters,
         GapClusters, IsContradicted, Cluster, Half, Gaps, Others, Valid
  <2>3. CASE NarrationAccepted
    BY <1>2, <2>2, <2>3 DEF NarrationAccepted, NarratedLast, EchoesStructure
  <2>4. CASE NarrationRejected
    BY <1>2, <2>2, <2>4 DEF NarrationRejected, NarratedLast
  <2>5. CASE FallBack
    BY <1>2, <2>2, <2>5 DEF FallBack, NarratedLast
  <2>6. CASE UNCHANGED vars
    BY <1>2, <2>2, <2>6 DEF vars, NarratedLast, EchoesStructure
  <2> QED
    BY <1>2, <2>1, <2>3, <2>4, <2>5, <2>6 DEF Next
<1> QED
  BY <1>1, <1>2, PTL DEF Spec

(* Prose is kept only over the clusters that are rendered (synthesizer.py:     *)
(* 428-466), for any findings and any answers of the narrator.                *)
THEOREM ProseIsOfTheClusters == Spec => []ProseNeedsTheEcho
<1>1. NarratedLast => ProseNeedsTheEcho
  BY EchoIsRendered DEF NarratedLast, ProseNeedsTheEcho
<1> QED
  BY <1>1, NarratedInv, PTL

-----------------------------------------------------------------------------
(* When a pair that was not judged the same ends in one cluster after all: then, *)
(* and only then, the cluster has a third finding.                            *)
ApartButForAThird ==
  \A p \in Pairs :
    p[2] \in Cluster(p[1]) /\ judged[p] # "same" =>
      \E k \in Cluster(p[1]) : k \notin {p[1], p[2]}

(* A pair that was compared and not judged the same is in one cluster only with a *)
(* third finding, for any findings and verdicts; a cluster of two is a pair     *)
(* judged the same.  So the split of clusterer.py:226-228 is kept between two   *)
(* findings, and can be lost among three.                                     *)
THEOREM ThirdFinding == Spec => []ApartButForAThird
<1>1. IsLinked /\ ClustersAreComponents => ApartButForAThird
  <2> SUFFICES ASSUME IsLinked, ClustersAreComponents, NEW p \in Pairs,
                      p[2] \in Cluster(p[1]), judged[p] # "same",
                      \A k \in Cluster(p[1]) : k \in {p[1], p[2]}
               PROVE  FALSE
    BY DEF ApartButForAThird
  <2>1. p[1] \in Valid /\ p[1] \in Cluster(p[1]) /\ p[1] # p[2] /\ p = <<p[1], p[2]>>
    <3>1. p[1] \in Findings /\ p[2] \in Findings /\ p[1] < p[2]
      BY PairOfValid DEF Pairs
    <3> QED
      BY <3>1, PairOfValid, OwnCluster DEF Findings
  <2>2. IsClosed(Cluster(p[1]))
    BY <2>1 DEF ClustersAreComponents
  <2>3. IsClosed({p[1]})
    <3> SUFFICES ASSUME NEW q \in Findings \X Findings, judged[q] = "same"
                 PROVE  q[1] = p[1] <=> q[2] = p[1]
      BY DEF IsClosed
    <3>1. q \in Pairs
      BY DEF IsLinked, Linked, Judged
    <3>2. q = <<q[1], q[2]>> /\ q[1] \in Findings /\ q[2] \in Findings /\ q[1] < q[2]
      BY <3>1, PairOfValid DEF Pairs
    <3>3. p[1] \in Findings /\ p[2] \in Findings /\ p[1] < p[2]
      BY PairOfValid DEF Pairs
    <3>4. q[1] \in Cluster(p[1]) <=> q[2] \in Cluster(p[1])
      BY <2>2 DEF IsClosed
    <3>5. ASSUME q[1] \in {p[1], p[2]}, q[2] \in {p[1], p[2]} PROVE q = p
      BY <2>1, <3>2, <3>3, <3>5 DEF Findings
    <3> QED
      BY <2>1, <3>4, <3>5
  <2>4. {p[1]} = Cluster(p[1])
    BY <2>1, <2>3 DEF ClustersAreComponents
  <2> QED
    BY <2>1, <2>4
<1> QED
  BY <1>1, LinkedInv, ClustersCorrect, PTL
=============================================================================
