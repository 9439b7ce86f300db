------------------------------- MODULE Synthesis -------------------------------
(***************************************************************************)
(* One synthesis: same-claim clustering (synthesis/clusterer.py) and the    *)
(* structure, narration and rendering built on it                           *)
(* (synthesis/synthesizer.py).  Pairs of findings are judged one by one and  *)
(* merged in a union-find; code computes agreements, tensions and gaps from  *)
(* the clusters; a narrator may only add prose, and only if it echoes the    *)
(* clusters unchanged, which it gets two attempts to do.                    *)
(*                                                                          *)
(* The findings are the winners (Challenge models which those are),          *)
(* numbered in input order.  Similarity and adjudication are answers from    *)
(* outside.  Texts, descriptions, zero-finding anomalies and the markers     *)
(* that only decorate an item are left out.                                  *)
(***************************************************************************)
EXTENDS Integers, Sequences, FiniteSets

CONSTANTS
  FindingCount,  \* winning findings of the session
  Kinds,         \* the findings there can be: claim type, confidence, status, text
  Judgements,    \* what can be said of a pair
  FlagBound      \* bound: sibling-impact flags on the runs

ClaimTypes == {"gap", "failure_mode", "mechanism_hypothesis", "other"}
Confidences == {"exploratory", "supporting", "load_bearing"}
Verifications == {"verified", "contradicted"}
Texts == {"claim", "degenerate"}
OpposingClaimTypes == {"failure_mode", "mechanism_hypothesis"}
\* "unlike": below the similarity threshold, never sent to the adjudicator.
AllJudgements == {"unlike", "same", "different", "uncertain"}

ASSUME CountAssumption == FindingCount \in Nat
ASSUME KindsAssumption ==
  Kinds \subseteq [type : ClaimTypes, confidence : Confidences,
                   verification : Verifications, text : Texts]
ASSUME JudgementsAssumption == Judgements \subseteq AllJudgements
ASSUME FlagAssumption == FlagBound \in Nat

Findings == 1 .. FindingCount

VARIABLES
  finding,   \* finding[i]: the i-th finding
  flags,     \* sibling-impact flags of the runs
  judged,    \* judged[p]: the judgement of pair p, or "none" so far
  parent,    \* _UnionFind._parent
  strikes,   \* narrations that were rejected
  narration, \* "pending", "kept" or "fell_back"
  echo       \* the echo of the narration that was kept

vars == <<finding, flags, judged, parent, strikes, narration, echo>>

NoEcho == [agreements |-> {}, gaps |-> {}]

\* Mutant: nothing is excluded.
Everything == Findings

\* _exclusion_reason: degenerate claims do not take part in the clustering.
Valid == {i \in Findings : finding[i].text = "claim"}
Gaps == {i \in Valid : finding[i].type = "gap"}
Others == Valid \ Gaps
\* The findings that i is clustered with: the gaps, or all the others.
Half(i) == IF finding[i].type = "gap" THEN Gaps ELSE Others

\* combinations(valid, 2), once over the gaps and once over the other findings.
Pairs == {p \in (Gaps \X Gaps) \cup (Others \X Others) : p[1] < p[2]}
Before(p, q) ==
  \/ p[1] \in Gaps /\ q[1] \in Others
  \/ (p[1] \in Gaps <=> q[1] \in Gaps) /\ (p[1] < q[1] \/ (p[1] = q[1] /\ p[2] < q[2]))

Init ==
  /\ finding \in [Findings -> Kinds]
  /\ flags \in 0 .. FlagBound
  /\ judged = [p \in Findings \X Findings |-> "none"]
  /\ parent = [i \in Findings |-> i]
  /\ strikes = 0
  /\ narration = "pending"
  /\ echo = NoEcho

-----------------------------------------------------------------------------
\* find: the root above x, and the parents with the path to it halved.
RootIn(up, x) ==
  LET root[y \in Findings] == IF up[y] = y THEN y ELSE root[up[y]]
  IN root[x]

HalvedIn(up, x) ==
  LET visited[y \in Findings] ==
        IF up[y] = y THEN {} ELSE {y} \cup visited[up[up[y]]]
  IN [y \in Findings |-> IF y \in visited[x] THEN up[up[y]] ELSE up[y]]

\* Mutant: hangs the finding itself under the other, not its root.
JoinsFindings(up, x, y) == [up EXCEPT ![x] = y]

\* union: hangs one root under the other.
Joins(up, x, y) ==
  LET seen == HalvedIn(HalvedIn(up, x), y)
  IN [seen EXCEPT ![RootIn(up, x)] = RootIn(up, y)]

\* Split on uncertainty: only SAME merges.
Merges(judgement) == judgement = "same"

Judged(p) == judged[p] # "none"
Clustered == \A p \in Pairs : Judged(p)

\* The next pair in order is compared and, if similar, adjudicated.
Judge(p) ==
  /\ p \in Pairs
  /\ ~ Judged(p)
  /\ \A q \in Pairs : Before(q, p) => Judged(q)
  /\ \E judgement \in Judgements :
       /\ judged' = [judged EXCEPT ![p] = judgement]
       /\ parent' = IF Merges(judgement) THEN Joins(parent, p[1], p[2]) ELSE parent
  /\ UNCHANGED <<finding, flags, strikes, narration, echo>>

-----------------------------------------------------------------------------
\* compute_structure.
Cluster(i) == {j \in Half(i) : RootIn(parent, j) = RootIn(parent, i)}
GapClusters == {Cluster(i) : i \in Gaps}
OtherClusters == {Cluster(i) : i \in Others}

\* Mutant: a cluster is contradicted if all of its findings are.
WhollyContradicted(members) ==
  \A i \in members : finding[i].verification = "contradicted"

IsContradicted(members) == \E i \in members : finding[i].verification = "contradicted"

Contradictions == {c \in OtherClusters : IsContradicted(c)}
Agreements == OtherClusters \ Contradictions

OpposingPairs ==
  {p \in Pairs : /\ judged[p] \in {"different", "uncertain"}
                 /\ {finding[p[1]].type, finding[p[2]].type} \subseteq OpposingClaimTypes}

Rank(confidence) ==
  CASE confidence = "exploratory" -> 1
    [] confidence = "supporting" -> 2
    [] confidence = "load_bearing" -> 3

\* _strongest, as a rank; of a tension without findings, the lowest tier.
Strongest(members) ==
  IF members = {} THEN 1
  ELSE CHOOSE r \in 1 .. 3 :
         /\ \E i \in members : Rank(finding[i].confidence) = r
         /\ \A i \in members : Rank(finding[i].confidence) <= r

\* is_weak: exploratory, and nobody else says it.
IsWeak(gap) == Strongest(gap) = 1 /\ Cardinality(gap) < 2

\* _markers: what verification found, but for the clean state.
Markers(members) == {finding[i].verification : i \in members} \ {"verified"}

\* A cluster of one contradicted finding is not alarming.
Alarming(members) == "contradicted" \in Markers(members) /\ Cardinality(members) >= 2

\* What is rendered of a cluster, an opposing pair or a flag.
Item(kind, members) ==
  [kind |-> kind, refs |-> members, count |-> Cardinality(members),
   strongest |-> Strongest(members), alarming |-> Alarming(members)]

Tensions ==
  {Item("tension", c) : c \in Contradictions}
    \cup {Item("tension", {p[1], p[2]}) : p \in OpposingPairs}
    \cup (IF flags > 0 THEN {Item("tension", {})} ELSE {})
Minor == {Item("declared_gap", g) : g \in {c \in GapClusters : IsWeak(c)}}
Primary == Tensions \cup {Item("declared_gap", g) : g \in {c \in GapClusters : ~ IsWeak(c)}}

\* Mutant: the alarm is not looked at.
FlatSeverity(item) ==
  IF item.kind = "tension" THEN 50 + item.count ELSE 10 * item.strongest + item.count

\* _severity: primary is sorted by it, in descending order.
Severity(item) ==
  IF item.kind = "tension" THEN (IF item.alarming THEN 100 ELSE 50) + item.count
  ELSE 10 * item.strongest + item.count

-----------------------------------------------------------------------------
\* Mutant: the gaps are not compared.
EchoesAgreements(candidate) == candidate.agreements = Agreements

\* validate_narration: the echo names the computed clusters, compared as sets.
EchoesStructure(candidate) ==
  candidate.agreements = Agreements /\ candidate.gaps = GapClusters

\* What a narrator may echo: the clusters as they are, without one of them, or
\* two of them merged.
Distortions(clusters) ==
  {clusters} \cup {clusters \ {c} : c \in clusters}
             \cup {(clusters \ {c, d}) \cup {c \cup d} : c, d \in clusters}
Echoes == [agreements : Distortions(Agreements), gaps : Distortions(GapClusters)]

\* _run_narration: an attempt whose echo is valid is kept with its prose ...
NarrationAccepted ==
  /\ Clustered
  /\ narration = "pending"
  /\ strikes < 2
  /\ \E candidate \in Echoes :
       /\ EchoesStructure(candidate)
       /\ echo' = candidate
  /\ narration' = "kept"
  /\ UNCHANGED <<finding, flags, judged, parent, strikes>>

\* ... any other is discarded.
NarrationRejected ==
  /\ Clustered
  /\ narration = "pending"
  /\ strikes < 2
  /\ \E candidate \in Echoes : ~ EchoesStructure(candidate)
  /\ strikes' = strikes + 1
  /\ UNCHANGED <<finding, flags, judged, parent, narration, echo>>

\* _structure_only_narration, after the second rejection.
FallBack ==
  /\ strikes = 2
  /\ narration = "pending"
  /\ narration' = "fell_back"
  /\ echo' = NoEcho
  /\ UNCHANGED <<finding, flags, judged, parent, strikes>>

Next ==
  \/ \E p \in Findings \X Findings : Judge(p)
  \/ NarrationAccepted
  \/ NarrationRejected
  \/ FallBack

Spec == Init /\ [][Next]_vars

-----------------------------------------------------------------------------
(* Every variable has its type; only pairs of findings with a claim, of one    *)
(* half, are judged, each after all the pairs before it (clusterer.py:217);   *)
(* and a finding with a claim is only ever hung under another one of its half, *)
(* a gap under a gap and any other under another that is no gap.              *)
TypeOK ==
  /\ finding \in [Findings -> Kinds]
  /\ flags \in 0 .. FlagBound
  /\ judged \in [Findings \X Findings -> Judgements \cup {"none"}]
  /\ \A p \in Findings \X Findings :
       Judged(p) => p \in Pairs /\ \A q \in Pairs : Before(q, p) => Judged(q)
  /\ parent \in [Findings -> Findings]
  /\ \A i \in Findings :
       parent[i] # i =>
         /\ finding[i].text = "claim" /\ finding[parent[i]].text = "claim"
         /\ finding[i].type = "gap" <=> finding[parent[i]].type = "gap"
  /\ strikes \in 0 .. 2
  /\ narration \in {"pending", "kept", "fell_back"}
  /\ echo \in [agreements : SUBSET SUBSET Findings, gaps : SUBSET SUBSET Findings]

\* Nothing outside the set was judged the same as something inside.
IsClosed(members) ==
  \A p \in Findings \X Findings : judged[p] = "same" => (p[1] \in members <=> p[2] \in members)

(* Whatever the order of the pairs and the parents that path halving left, two *)
(* findings share a cluster exactly if a chain of SAME verdicts links them     *)
(* (the union-find of clusterer.py:162-176 and the grouping of 236-242).  So a *)
(* pair judged DIFFERENT or UNCERTAIN is in one cluster all the same if such a *)
(* chain leads around it: the comment at clusterer.py:226-228, that it is left *)
(* in separate components, is true of the verdict and not of the result.      *)
ClustersAreComponents ==
  \A i \in Valid :
    /\ IsClosed(Cluster(i))
    /\ \A members \in SUBSET Cluster(i) :
         i \in members /\ IsClosed(members) => members = Cluster(i)

(* Every finding with a claim is rendered in exactly one cluster, an agreement,*)
(* a contradiction, a gap of the primary list or a minor one; and one that     *)
(* verification contradicted never reassures, not even as a member of an       *)
(* agreement of others (synthesizer.py:315-321, 334-358).                     *)
NothingIsLost ==
  LET bands == <<Agreements, Contradictions, {c \in GapClusters : IsWeak(c)},
                 {c \in GapClusters : ~ IsWeak(c)}>>
  IN \A i \in Valid :
       /\ \E b \in 1 .. 4 : \E c \in bands[b] : i \in c
       /\ \A b, d \in 1 .. 4 : \A c \in bands[b], e \in bands[d] :
            i \in c /\ i \in e => b = d /\ c = e
       /\ finding[i].verification = "contradicted" => \A c \in Agreements : i \notin c

(* Prose is kept only if it was written over the clusters that are rendered:   *)
(* each gap and each agreement as it is, and no contradicted cluster among     *)
(* them; otherwise nothing of the narrator's is, and it had two attempts       *)
(* (synthesizer.py:428-466).                                                  *)
ProseNeedsTheEcho ==
  /\ narration = "kept" =>
       /\ \A i \in Gaps : Cluster(i) \in echo.gaps
       /\ \A i \in Others :
            IF IsContradicted(Cluster(i))
            THEN \A group \in echo.agreements : i \notin group
            ELSE Cluster(i) \in echo.agreements
  /\ narration = "fell_back" => echo = NoEcho /\ strikes = 2

IsAlarm(item) == item.kind = "tension" /\ item.alarming

(* "Contradictions lead" (synthesizer.py:487-496): nothing is rendered ahead of *)
(* an alarming tension, or level with it, but another one or a gap with at      *)
(* least 70 findings more.  A contradiction of one finding is no alarm; and the *)
(* docstring's next band, load-bearing gaps ahead of opposing pairs, is what   *)
(* the code does only if the gap has more than 22 findings.                   *)
AlarmsLead ==
  \A a, b \in Primary :
    IsAlarm(a) /\ ~ IsAlarm(b) /\ Severity(b) >= Severity(a) =>
      b.kind = "declared_gap" /\ b.count >= a.count + 70
=============================================================================
