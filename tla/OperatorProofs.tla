--------------------------- MODULE OperatorProofs ---------------------------
(***************************************************************************)
(* Facts about the operators that the models are built from, which the     *)
(* proofs of the searches, of build_blocks(), of the state graph and of    *)
(* the commands share: reachability and reversed chains of edges, the      *)
(* arithmetic of cells and tapes, matching brackets, folded blocks, and    *)
(* the transitions of the state graph.                                     *)
(***************************************************************************)
EXTENDS RunFormulas, Kripke, FiniteSetTheorems, TLAPS

(* Start is reachable, and so is every successor of a reachable node.      *)
LEMMA StartReachable == \A g \in Graphs : Start \in Reachable(g)
  BY GraphAssumption DEF Reachable

LEMMA SuccessorReachable ==
    ASSUME NEW g \in Graphs, NEW m \in Node, m \in Reachable(g),
           NEW i \in 1..Len(g[m])
    PROVE  g[m][i] \in Reachable(g)
<1>1. g[m] \in Seq(Node)
  BY GraphAssumption
<1>2. g[m][i] \in Node
  BY <1>1
<1>3. ASSUME NEW S \in SUBSET Node, Start \in S, Closed(g, S)
      PROVE  g[m][i] \in S
  <2>1. m \in S
    BY <1>3 DEF Reachable
  <2>. QED
    BY <2>1, <1>3 DEF Closed
<1>. QED
  BY <1>2, <1>3 DEF Reachable

(* A closed set that contains Start contains every reachable node.         *)
LEMMA ReachableInClosed ==
    ASSUME NEW g, NEW S \in SUBSET Node, Start \in S, Closed(g, S)
    PROVE  Reachable(g) \subseteq S
  BY DEF Reachable

-----------------------------------------------------------------------------
(* What std::reverse returns.                                              *)
LEMMA ReverseFacts ==
    ASSUME NEW T, NEW s \in Seq(T)
    PROVE  /\ Reverse(s) \in Seq(T)
           /\ Len(Reverse(s)) = Len(s)
           /\ \A i \in 1..Len(s) : Reverse(s)[i] = s[Len(s) - i + 1]
           /\ Reverse(s) = << >> <=> s = << >>
           /\ s # << >> => Reverse(s)[1] = s[Len(s)] /\ Reverse(s)[Len(s)] = s[1]
<1>1. Len(s) \in Nat /\ \A i \in 1..Len(s) : Len(s) - i + 1 \in 1..Len(s)
  OBVIOUS
<1>2. Reverse(s) = [i \in 1..Len(s) |-> s[Len(s) - i + 1]]
  BY DEF Reverse
<1>3. \A i \in 1..Len(s) : s[Len(s) - i + 1] \in T
  BY <1>1
<1>4. Reverse(s) \in [1..Len(s) -> T]
  BY <1>2, <1>3
<1>5. Reverse(s) \in Seq(T) /\ Len(Reverse(s)) = Len(s)
  BY <1>1, <1>4
<1>6. Reverse(s) = << >> <=> s = << >>
  BY <1>5
<1>7. \A i \in 1..Len(s) : Reverse(s)[i] = s[Len(s) - i + 1]
  BY <1>2
<1>8. s # << >> => Reverse(s)[1] = s[Len(s)] /\ Reverse(s)[Len(s)] = s[1]
  BY <1>1, <1>7
<1>. QED
  BY <1>5, <1>6, <1>7, <1>8

(* A chain that was followed from child to parent becomes a path.          *)
LEMMA ReversedChain ==
    ASSUME NEW g, NEW T, NEW s \in Seq(T),
           \A i \in 1..(Len(s) - 1) : Edge(g, s[i + 1], s[i])
    PROVE  IsPath(g, Reverse(s))
<1> DEFINE r == Reverse(s)
<1>1. Len(r) = Len(s) /\ \A i \in 1..Len(s) : r[i] = s[Len(s) - i + 1]
  BY ReverseFacts
<1> SUFFICES ASSUME NEW i \in 1..(Len(r) - 1) PROVE Edge(g, r[i], r[i + 1])
  BY DEF IsPath
<1> DEFINE j == Len(s) - i
<1>2. j \in 1..(Len(s) - 1) /\ Len(s) - i + 1 = j + 1 /\ Len(s) - (i + 1) + 1 = j
  BY <1>1
<1>3. i \in 1..Len(s) /\ i + 1 \in 1..Len(s)
  BY <1>1
<1>. HIDE DEF r, j
<1>4. r[i] = s[j + 1] /\ r[i + 1] = s[j]
  BY <1>1, <1>2, <1>3
<1>. QED
  BY <1>2, <1>4

-----------------------------------------------------------------------------
(* A run that is being collected backwards: its last element has an edge   *)
(* to target, and each element has an edge to the one collected before it. *)
Collected(g, trail, target) ==
    /\ \A i \in 1..(Len(trail) - 1) : Edge(g, trail[i + 1], trail[i])
    /\ trail # << >> => Edge(g, trail[1], target)

(* The node that the next element of the trail must have an edge to.       *)
Joint(trail, target) == IF trail = << >> THEN target ELSE trail[Len(trail)]

LEMMA AppendFacts ==
    ASSUME NEW T, NEW s \in Seq(T), NEW x \in T
    PROVE  /\ Append(s, x) \in Seq(T)
           /\ Append(s, x) # << >>
           /\ Len(Append(s, x)) = Len(s) + 1
           /\ Append(s, x)[Len(s) + 1] = x
           /\ \A i \in 1..Len(s) : Append(s, x)[i] = s[i]
           /\ \A i \in 1..(Len(s) + 1) : i \in 1..Len(s) \/ i = Len(s) + 1
  OBVIOUS

(* Assigning to one element of a vector.                                   *)
LEMMA ExceptFacts ==
    ASSUME NEW T, NEW s \in Seq(T), NEW c \in 1..Len(s), NEW x \in T
    PROVE  /\ [s EXCEPT ![c] = x] \in Seq(T)
           /\ Len([s EXCEPT ![c] = x]) = Len(s)
           /\ [s EXCEPT ![c] = x][c] = x
           /\ \A i \in 1..Len(s) : i # c => [s EXCEPT ![c] = x][i] = s[i]
<1> DEFINE t == [s EXCEPT ![c] = x]
<1>1. s \in [1..Len(s) -> T] /\ Len(s) \in Nat
  OBVIOUS
<1>2. t \in [1..Len(s) -> T]
  BY <1>1
<1>3. t \in Seq(T) /\ Len(t) = Len(s)
  BY <1>1, <1>2
<1>. QED
  BY <1>1, <1>3

LEMMA CollectOneMore ==
    ASSUME NEW g, NEW target, NEW T, NEW trail \in Seq(T), NEW n \in T,
           Collected(g, trail, target),
           Edge(g, n, Joint(trail, target))
    PROVE  Collected(g, Append(trail, n), target)
<1> DEFINE t == Append(trail, n)
<1>1. /\ Len(t) = Len(trail) + 1
      /\ Len(trail) \in Nat
      /\ t[Len(trail) + 1] = n
      /\ \A i \in 1..Len(trail) : t[i] = trail[i]
  BY AppendFacts
<1>. HIDE DEF t
<1>2. Edge(g, t[1], target)
  <2>1. CASE trail = << >>
    BY <2>1, <1>1 DEF Joint
  <2>2. CASE trail # << >>
    <3>1. Len(trail) >= 1
      BY <2>2
    <3>. QED
      BY <3>1, <2>2, <1>1 DEF Collected
  <2>. QED
    BY <2>1, <2>2
<1>3. ASSUME NEW i \in 1..(Len(t) - 1) PROVE Edge(g, t[i + 1], t[i])
  <2>1. CASE i = Len(trail)
    <3>1. trail # << >> /\ Len(trail) \in 1..Len(trail)
      BY <2>1, <1>1
    <3>. QED
      BY <2>1, <3>1, <1>1 DEF Joint
  <2>2. CASE i # Len(trail)
    <3>1. i \in 1..(Len(trail) - 1) /\ i \in 1..Len(trail) /\ i + 1 \in 1..Len(trail)
      BY <2>2, <1>1
    <3>. QED
      BY <3>1, <1>1 DEF Collected
  <2>. QED
    BY <2>1, <2>2
<1>. QED
  BY <1>2, <1>3 DEF Collected, t

LEMMA CollectedCycle ==
    ASSUME NEW g, NEW P, NEW n, NEW T, NEW trail \in Seq(T),
           Collected(g, trail, n), trail # << >>, trail[Len(trail)] = n,
           \A i \in 1..Len(trail) : trail[i] \in P
    PROVE  IsCycle(g, P, Reverse(trail)) /\ Reverse(trail)[1] = n
<1> DEFINE r == Reverse(trail)
<1>1. /\ Len(r) = Len(trail) /\ r # << >>
      /\ r[1] = trail[Len(trail)] /\ r[Len(r)] = trail[1]
      /\ \A i \in 1..Len(trail) : r[i] = trail[Len(trail) - i + 1]
  BY ReverseFacts
<1>2. IsPath(g, r)
  BY ReversedChain DEF Collected
<1>3. \A i \in 1..Len(r) : r[i] \in P
  <2>1. \A i \in 1..Len(trail) : Len(trail) - i + 1 \in 1..Len(trail)
    OBVIOUS
  <2>. QED
    BY <1>1, <2>1
<1>. HIDE DEF r
<1>. QED
  BY <1>1, <1>2, <1>3 DEF IsCycle, Collected, r

LEMMA CollectedLeads ==
    ASSUME NEW g, NEW n, NEW T, NEW trail \in Seq(T),
           Collected(g, trail, n), Joint(trail, n) = Start
    PROVE  LeadsTo(g, Reverse(trail), n)
<1> DEFINE r == Reverse(trail)
<1>1. /\ r = << >> <=> trail = << >>
      /\ trail # << >> => r[1] = trail[Len(trail)] /\ r[Len(trail)] = trail[1]
      /\ Len(r) = Len(trail)
  BY ReverseFacts
<1>2. IsPath(g, r)
  BY ReversedChain DEF Collected
<1>. HIDE DEF r
<1>. QED
  BY <1>1, <1>2 DEF LeadsTo, Collected, Joint, r

-----------------------------------------------------------------------------
(* A lasso of atom states is a run that never leaves the atom.             *)
LEMMA LassoStays ==
    ASSUME NEW g, NEW P \in SUBSET Node, NEW prefix \in Seq(Node), NEW cycle \in Seq(Node),
           IsCycle(g, P, cycle), LeadsTo(g, prefix, cycle[1]),
           \A i \in 1..Len(prefix) : prefix[i] \in P
    PROVE  EG(g, P)
<1> DEFINE S == {prefix[i] : i \in 1..Len(prefix)} \cup {cycle[i] : i \in 1..Len(cycle)}
<1>1. S \in SUBSET P
  BY DEF IsCycle
<1>2. Len(cycle) \in Nat \ {0} /\ Len(prefix) \in Nat
  BY DEF IsCycle
<1>3. cycle[1] \in S
  BY <1>2
<1>4. Start \in S
  <2>1. CASE prefix = << >>
    BY <2>1, <1>3 DEF LeadsTo
  <2>2. CASE prefix # << >>
    <3>1. 1 \in 1..Len(prefix)
      BY <2>2
    <3>. QED
      BY <2>2, <3>1 DEF LeadsTo
  <2>. QED
    BY <2>1, <2>2
<1>5. ASSUME NEW i \in 1..Len(cycle) PROVE \E n \in S : Edge(g, cycle[i], n)
  <2>1. CASE i = Len(cycle)
    BY <2>1, <1>3 DEF IsCycle
  <2>2. CASE i # Len(cycle)
    <3>1. i \in 1..(Len(cycle) - 1) /\ i + 1 \in 1..Len(cycle)
      BY <2>2, <1>2
    <3>. QED
      BY <3>1 DEF IsCycle, IsPath
  <2>. QED
    BY <2>1, <2>2
<1>6. ASSUME NEW i \in 1..Len(prefix) PROVE \E n \in S : Edge(g, prefix[i], n)
  <2>0. prefix # << >>
    BY <1>2
  <2>1. CASE i = Len(prefix)
    BY <2>0, <2>1, <1>3 DEF LeadsTo
  <2>2. CASE i # Len(prefix)
    <3>1. i \in 1..(Len(prefix) - 1) /\ i + 1 \in 1..Len(prefix)
      BY <2>2, <1>2
    <3>. QED
      BY <3>1, <2>0 DEF LeadsTo, IsPath
  <2>. QED
    BY <2>1, <2>2
<1>7. Sustains(g, S)
  BY <1>5, <1>6 DEF Sustains
<1>. QED
  BY <1>1, <1>4, <1>7 DEF EG

-----------------------------------------------------------------------------
(* Every non-empty set of naturals has a least element: induction in the   *)
(* form the provers can use.  It follows from the well-foundedness of the  *)
(* strict subset ordering on the finite sets 0..(n-1).                     *)
LEMMA LeastElement ==
    ASSUME NEW T \in SUBSET Nat, T # {}
    PROVE  \E x \in T : \A y \in T : x <= y
<1>1. PICK m \in T : TRUE
  OBVIOUS
<1> DEFINE Below(n) == {k \in 0..m : k < n}
           D == {Below(n) : n \in {t \in T : t <= m}}
           R == StrictSubsetOrdering(0..m)
<1>2. IsWellFoundedOn(R, FiniteSubsetsOf(0..m))
  BY FS_StrictSubsetOrderingWellFounded
<1>3. IsFiniteSet(0..m)
  BY FS_Interval
<1>4. D \subseteq FiniteSubsetsOf(0..m)
  BY <1>3, FS_Subset DEF FiniteSubsetsOf
<1>5. D # {}
  <2>1. m \in {t \in T : t <= m}
    OBVIOUS
  <2>2. Below(m) \in D
    BY <2>1
  <2>. QED
    BY <2>2
<1>6. PICK d \in D : \A e \in D : ~(<<e, d>> \in R)
  <2> HIDE DEF D, R
  <2>. QED
    BY <1>2, <1>4, <1>5, WFMin
<1>7. PICK x \in T : x <= m /\ d = Below(x)
  OBVIOUS
<1>8. ASSUME NEW y \in T, y < x PROVE FALSE
  <2>1. y <= m /\ Below(y) \in D
    BY <1>7, <1>8
  <2>2. Below(y) \subseteq Below(x) /\ y \in Below(x) /\ y \notin Below(y)
    BY <1>7, <1>8
  <2>3. <<Below(y), Below(x)>> \in R
    BY <2>2 DEF StrictSubsetOrdering
  <2>. QED
    BY <2>1, <2>3, <1>6, <1>7
<1>. QED
  BY <1>8

(* The breadth-first layers of stored states st with parents par, of which *)
(* the first cur - 1 are expanded: d[i] is the number of nodes on the tree *)
(* path to st[i], it never decreases in discovery order, no state is more  *)
(* than one layer below the one being expanded, and the edges of expanded  *)
(* states lead at most one layer down.                                     *)
Layers(g, st, par, cur, d) ==
    /\ d \in [1..Len(st) -> Nat]
    /\ d[1] = 1
    /\ \A i \in 2..Len(st) : d[i] = d[par[i]] + 1
    /\ \A i, j \in 1..Len(st) : i <= j => d[i] <= d[j]
    /\ cur \in 1..Len(st) => \A i \in 1..Len(st) : d[i] <= d[cur] + 1
    /\ \A i \in 1..Len(st) :
          i < cur => \A j \in 1..Len(g[st[i]]) :
                        \A m \in 1..Len(st) : st[m] = g[st[i]][j] => d[m] <= d[i] + 1

(* All successors of the first cur - 1 stored states are stored.           *)
Expanded(g, st, cur) ==
    \A i \in 1..Len(st) :
        i < cur => \A j \in 1..Len(g[st[i]]) : \E m \in 1..Len(st) : st[m] = g[st[i]][j]

LEMMA LayersInit ==
    ASSUME NEW g, NEW x, NEW y
    PROVE  Layers(g, <<x>>, <<y>>, 1, [i \in 1..1 |-> 1])
  BY DEF Layers

(* A new state is stored as a child of the one that is being expanded.     *)
LEMMA LayersAppend ==
    ASSUME NEW g, NEW S, NEW st \in Seq(S), NEW par \in Seq(Nat), Len(par) = Len(st),
           \A i \in 2..Len(st) : par[i] \in 1..(i - 1),
           NEW cur \in 1..Len(st), NEW d, Layers(g, st, par, cur, d), Expanded(g, st, cur),
           NEW n \in S, \A i \in 1..Len(st) : st[i] # n
    PROVE  Layers(g, Append(st, n), Append(par, cur), cur,
                  [i \in 1..(Len(st) + 1) |-> IF i = Len(st) + 1 THEN d[cur] + 1 ELSE d[i]])
<1> DEFINE t == Append(st, n)
           q == Append(par, cur)
           e == [i \in 1..(Len(st) + 1) |-> IF i = Len(st) + 1 THEN d[cur] + 1 ELSE d[i]]
<1>1. /\ Len(st) \in Nat /\ Len(t) = Len(st) + 1 /\ t[Len(st) + 1] = n
      /\ \A i \in 1..Len(st) : t[i] = st[i]
      /\ \A i \in 1..Len(t) : i \in 1..Len(st) \/ i = Len(st) + 1
  BY AppendFacts
<1>2. q[Len(st) + 1] = cur /\ \A i \in 1..Len(st) : q[i] = par[i]
  <2>1. cur \in Nat
    BY <1>1
  <2>. QED
    BY <2>1, <1>1, AppendFacts
<1>3. d \in [1..Len(st) -> Nat] /\ d[cur] \in Nat
  BY DEF Layers
<1>4. /\ Len(st) + 1 \in 1..(Len(st) + 1)
      /\ \A i \in 1..Len(st) : i \in 1..(Len(st) + 1) /\ i # Len(st) + 1
      /\ e[Len(st) + 1] = d[cur] + 1
      /\ \A i \in 1..Len(st) : e[i] = d[i] /\ d[i] \in Nat
  <2>1. /\ Len(st) + 1 \in 1..(Len(st) + 1)
        /\ \A i \in 1..Len(st) : i \in 1..(Len(st) + 1) /\ i # Len(st) + 1
    BY <1>1
  <2>. QED
    BY <2>1, <1>3
<1>5. e \in [1..Len(t) -> Nat]
  <2>1. \A i \in 1..(Len(st) + 1) : e[i] \in Nat
    BY <1>1, <1>3, <1>4
  <2>. QED
    BY <1>1, <2>1
<1>. HIDE DEF t, q, e
<1>6. e[1] = 1 /\ e[cur] = d[cur]
  BY <1>1, <1>4 DEF Layers
<1>7. ASSUME NEW i \in 2..Len(t) PROVE e[i] = e[q[i]] + 1
  <2>1. CASE i = Len(st) + 1
    BY <2>1, <1>2, <1>4, <1>6
  <2>2. CASE i # Len(st) + 1
    <3>1. i \in 2..Len(st) /\ i \in 1..Len(st)
      BY <2>2, <1>1
    <3>2. par[i] \in 1..Len(st)
      BY <3>1, <1>1
    <3>. QED
      BY <3>1, <3>2, <1>2, <1>4 DEF Layers
  <2>. QED
    BY <2>1, <2>2
<1>8. \A i \in 1..Len(t) : e[i] <= e[cur] + 1
  <2>1. \A i \in 1..Len(st) : e[i] <= e[cur] + 1
    BY <1>4, <1>6 DEF Layers
  <2>2. e[Len(st) + 1] <= e[cur] + 1
    BY <1>4, <1>6, <1>3
  <2>. QED
    BY <1>1, <2>1, <2>2
<1>9. ASSUME NEW i \in 1..Len(t), NEW j \in 1..Len(t), i <= j PROVE e[i] <= e[j]
  <2>1. CASE j = Len(st) + 1
    BY <2>1, <1>4, <1>6, <1>8
  <2>2. CASE j # Len(st) + 1
    <3>1. i \in 1..Len(st) /\ j \in 1..Len(st)
      BY <2>2, <1>1, <1>9
    <3>. QED
      BY <3>1, <1>4, <1>9 DEF Layers
  <2>. QED
    BY <2>1, <2>2
<1>10. ASSUME NEW i \in 1..Len(t), i < cur, NEW j \in 1..Len(g[t[i]]),
              NEW m \in 1..Len(t), t[m] = g[t[i]][j]
       PROVE  e[m] <= e[i] + 1
  <2>1. i \in 1..Len(st) /\ t[i] = st[i]
    BY <1>1, <1>10
  <2>2. PICK l \in 1..Len(st) : st[l] = g[st[i]][j]
    BY <1>10, <2>1 DEF Expanded
  <2>3. m \in 1..Len(st)
    BY <1>1, <1>10, <2>1, <2>2
  <2>. QED
    BY <1>1, <1>4, <1>10, <2>1, <2>3 DEF Layers
<1>. QED
  BY <1>5, <1>6, <1>7, <1>8, <1>9, <1>10 DEF Layers, t, q, e

(* The state being expanded is done.                                       *)
LEMMA LayersAdvance ==
    ASSUME NEW g, NEW S, NEW st \in Seq(S), NEW par, NEW cur \in 1..Len(st), NEW d,
           Layers(g, st, par, cur, d)
    PROVE  Layers(g, st, par, cur + 1, d)
<1>1. Len(st) \in Nat /\ d \in [1..Len(st) -> Nat]
  BY DEF Layers
<1>2. ASSUME cur + 1 \in 1..Len(st), NEW i \in 1..Len(st) PROVE d[i] <= d[cur + 1] + 1
  <2>1. d[i] <= d[cur] + 1 /\ d[cur] <= d[cur + 1]
    BY <1>1, <1>2 DEF Layers
  <2>2. d[i] \in Nat /\ d[cur] \in Nat /\ d[cur + 1] \in Nat
    BY <1>1, <1>2
  <2>. QED
    BY <2>1, <2>2
<1>3. ASSUME NEW i \in 1..Len(st), i < cur + 1, NEW j \in 1..Len(g[st[i]]),
             NEW m \in 1..Len(st), st[m] = g[st[i]][j]
      PROVE  d[m] <= d[i] + 1
  <2>1. CASE i < cur
    BY <2>1, <1>3 DEF Layers
  <2>2. CASE i = cur
    BY <2>2 DEF Layers
  <2>. QED
    BY <2>1, <2>2, <1>3, <1>1
<1>. QED
  BY <1>2, <1>3 DEF Layers

(* A path of k nodes from Start, if k is at most the layer being expanded, *)
(* ends in a stored state of layer k or above: by induction along the path.*)
LEMMA LayersBound ==
    ASSUME NEW g, NEW S, NEW st \in Seq(S), NEW par, NEW cur \in Nat, NEW d,
           st # << >>, st[1] = Start,
           Layers(g, st, par, cur, d), Expanded(g, st, cur),
           NEW k \in Nat \ {0}, NEW p \in PathsOfLength(g, k),
           cur <= Len(st) => cur >= 1 /\ k <= d[cur]
    PROVE  \E m \in 1..Len(st) : st[m] = p[k] /\ d[m] <= k
<1> DEFINE Ok(j) == \E m \in 1..Len(st) : st[m] = p[j] /\ d[m] <= j
           T == {j \in 1..k : ~Ok(j)}
<1>1. Len(st) \in Nat /\ 1 \in 1..Len(st) /\ d \in [1..Len(st) -> Nat]
  BY DEF Layers
<1>2. p[1] = Start /\ \A i \in 1..(k - 1) : Edge(g, p[i], p[i + 1])
  BY DEF PathsOfLength
<1>3. Ok(1)
  BY <1>1, <1>2 DEF Layers
<1>4. ASSUME NEW j \in T, \A i \in T : j <= i PROVE FALSE
  <2>1. j \in 1..k /\ ~Ok(j)
    OBVIOUS
  <2>2. j # 1
    BY <1>3, <2>1
  <2>3. j - 1 \in 1..(k - 1) /\ j - 1 \in 1..k /\ j - 1 < j /\ (j - 1) + 1 = j
    BY <2>1, <2>2
  <2>4. Ok(j - 1)
    BY <1>4, <2>3
  <2>5. PICK m \in 1..Len(st) : st[m] = p[j - 1] /\ d[m] <= j - 1
    BY <2>4
  <2>6. m < cur
    <3>1. CASE cur <= Len(st)
      <4>1. cur \in 1..Len(st) /\ d[m] \in Nat /\ d[cur] \in Nat /\ k <= d[cur]
        BY <3>1, <1>1
      <4>2. d[m] < d[cur]
        BY <4>1, <2>3, <2>5
      <4>3. cur <= m => d[cur] <= d[m]
        BY <4>1 DEF Layers
      <4>. QED
        BY <4>1, <4>2, <4>3
    <3>2. CASE ~(cur <= Len(st))
      BY <3>2, <1>1
    <3>. QED
      BY <3>1, <3>2
  <2>7. PICK i \in 1..Len(g[st[m]]) : g[st[m]][i] = p[j]
    BY <1>2, <2>3, <2>5 DEF Edge
  <2>8. PICK l \in 1..Len(st) : st[l] = p[j]
    BY <2>6, <2>7 DEF Expanded
  <2>9. d[l] <= d[m] + 1
    BY <2>6, <2>7, <2>8 DEF Layers
  <2>10. d[l] <= j
    BY SMTT(30), <2>3, <2>5, <2>9, <1>1
  <2>. QED
    BY <2>1, <2>8, <2>10
<1>5. T = {}
  <2>1. T \in SUBSET Nat
    OBVIOUS
  <2>. HIDE DEF T
  <2>. QED
    BY <2>1, <1>4, LeastElement
<1>6. k \in 1..k
  OBVIOUS
<1>. QED
  BY <1>5, <1>6

-----------------------------------------------------------------------------
(* Congruence of integers, which is what the arithmetic of cells, of       *)
(* wrapping pointers and of words preserves.                               *)
Congruent(a, b, n) == \E q \in Int : a = b + q * n

LEMMA CongruentSelf ==
    ASSUME NEW a \in Int, NEW n \in Int
    PROVE  Congruent(a, a, n)
  <1>1. a = a + 0 * n
    OBVIOUS
  <1>2. QED
    BY <1>1 DEF Congruent

LEMMA CongruentSymmetric ==
    ASSUME NEW a \in Int, NEW b \in Int, NEW n \in Int, Congruent(a, b, n)
    PROVE  Congruent(b, a, n)
  <1>1. PICK q \in Int : a = b + q * n
    BY DEF Congruent
  <1>2. b = a + (-q) * n
    BY <1>1
  <1>3. QED
    BY <1>2 DEF Congruent

LEMMA CongruentTransitive ==
    ASSUME NEW a \in Int, NEW b \in Int, NEW c \in Int, NEW n \in Int,
           Congruent(a, b, n), Congruent(b, c, n)
    PROVE  Congruent(a, c, n)
  <1>1. PICK q \in Int : a = b + q * n
    BY DEF Congruent
  <1>2. PICK r \in Int : b = c + r * n
    BY DEF Congruent
  <1>3. q + r \in Int /\ a = c + (q + r) * n
    BY <1>1, <1>2
  <1>4. QED
    BY <1>3 DEF Congruent

LEMMA CongruentSum ==
    ASSUME NEW a \in Int, NEW b \in Int, NEW c \in Int, NEW n \in Int,
           Congruent(a, b, n)
    PROVE  Congruent(a + c, b + c, n)
  <1>1. PICK q \in Int : a = b + q * n
    BY DEF Congruent
  <1>2. a + c = (b + c) + q * n
    BY <1>1
  <1>3. QED
    BY <1>2 DEF Congruent

(* A residue class has one member between zero and the modulus.            *)
LEMMA CongruentUnique ==
    ASSUME NEW n \in Nat \ {0}, NEW a \in 0..(n - 1), NEW b \in 0..(n - 1),
           Congruent(a, b, n)
    PROVE  a = b
  <1>1. PICK q \in Int : a = b + q * n
    BY DEF Congruent
  <1>2. CASE q = 0
    BY <1>1, <1>2
  <1>3. CASE q >= 1
    <2>1. q * n = (q - 1) * n + n
      OBVIOUS
    <2>2. (q - 1) * n >= 0
      BY <1>3
    <2>3. QED
      BY <1>1, <2>1, <2>2
  <1>4. CASE q <= -1
    <2>1. q * n = (q + 1) * n - n
      OBVIOUS
    <2>2. (q + 1) * n <= 0
      BY <1>4
    <2>3. QED
      BY <1>1, <2>1, <2>2
  <1>5. QED
    BY <1>2, <1>3, <1>4

(* The remainder of TLA+ is the member of the class.                       *)
LEMMA CongruentMod ==
    ASSUME NEW a \in Int, NEW n \in Nat \ {0}
    PROVE  a % n \in 0..(n - 1) /\ Congruent(a % n, a, n)
  <1>1. a % n \in 0..(n - 1)
    OBVIOUS
  <1>2. a = n * (a \div n) + (a % n)
    OBVIOUS
  <1>3. -(a \div n) \in Int /\ a % n = a + (-(a \div n)) * n
    BY <1>2
  <1>4. QED
    BY <1>1, <1>3 DEF Congruent

(* The remainder of C++ is in the class, between the negated modulus and   *)
(* the modulus.                                                            *)
LEMMA CongruentRemainder ==
    ASSUME NEW a \in Int, NEW n \in Nat \ {0}
    PROVE  /\ Remainder(a, n) \in (-n + 1)..(n - 1)
           /\ Congruent(Remainder(a, n), a, n)
  <1>1. CASE a >= 0
    <2>1. Remainder(a, n) = a % n
      BY <1>1 DEF Remainder
    <2>2. a % n \in 0..(n - 1) /\ Congruent(a % n, a, n)
      BY CongruentMod
    <2>3. QED
      BY <2>1, <2>2
  <1>2. CASE a < 0
    <2>1. (-a) % n \in 0..(n - 1) /\ Congruent((-a) % n, -a, n)
      BY CongruentMod
    <2>2. PICK q \in Int : (-a) % n = (-a) + q * n
      BY <2>1 DEF Congruent
    <2>3. -q \in Int /\ -((-a) % n) = a + (-q) * n
      BY <2>1, <2>2
    <2>4. Remainder(a, n) = -((-a) % n)
      BY <1>2 DEF Remainder
    <2>5. QED
      <3>1. Congruent(Remainder(a, n), a, n)
        BY <2>3, <2>4 DEF Congruent
      <3>2. QED
        BY <2>1, <2>4, <3>1
  <1>3. QED
    BY <1>1, <1>2

(* A class of a divisor of the word survives the wrap of a word.           *)
LEMMA CongruentWord ==
    ASSUME NEW a \in Int, NEW n \in Nat \ {0}, Word % n = 0
    PROVE  a % Word \in Nat /\ Congruent(a % Word, a, n)
  <1>1. Word \in Nat \ {0}
    BY HalfWordAssumption DEF Word
  <1>2. a % Word \in Nat /\ Congruent(a % Word, a, Word)
    BY <1>1, CongruentMod
  <1>3. PICK q \in Int : a % Word = a + q * Word
    BY <1>2 DEF Congruent
  <1>4. PICK k \in Int : 0 = Word + k * n
    <2>1. Congruent(Word % n, Word, n)
      BY <1>1, CongruentMod
    <2>2. QED
      BY <2>1 DEF Congruent
  <1>5. q * Word = (q * (-k)) * n
    <2>1. Word = (-k) * n
      BY <1>1, <1>4
    <2>2. QED
      BY <2>1
  <1>6. q * (-k) \in Int /\ a % Word = a + (q * (-k)) * n
    BY <1>3, <1>5
  <1>7. QED
    BY <1>2, <1>6 DEF Congruent

-----------------------------------------------------------------------------
(* Adding a folded delta gives the value that the instructions give, when  *)
(* that value is congruent to the sum.                                     *)
LEMMA ShiftExact ==
    ASSUME NEW m, IsModel(m), NEW v \in CellValues(m), NEW net \in Int,
           NEW w \in CellValues(m), Congruent(v + net, w, m.max_value + 1)
    PROVE  shift_value(m, v, Remainder(net, m.max_value + 1)) = w
  <1> DEFINE n == m.max_value + 1
             d == Remainder(net, n)
             sum == v + (d % Word)
  <1>1. /\ n \in Nat \ {0}
        /\ Word % n = 0
        /\ v \in Int /\ w \in 0..(n - 1)
    BY DEF IsModel, CellValues
  <1> HIDE DEF n
  <1>2. d \in Int /\ Congruent(d, net, n)
    BY <1>1, CongruentRemainder
  <1> HIDE DEF d
  <1>3. d % Word \in Int /\ Congruent(d % Word, d, n)
    BY <1>1, <1>2, CongruentWord
  <1>4. Congruent(d % Word, net, n)
    BY <1>1, <1>2, <1>3, CongruentTransitive
  <1>5. sum \in Int /\ Congruent(sum, v + net, n)
    <2>1. Congruent((d % Word) + v, net + v, n)
      BY <1>1, <1>3, <1>4, CongruentSum
    <2>2. (d % Word) + v = sum /\ net + v = v + net /\ sum \in Int
      BY <1>1, <1>3
    <2>3. QED
      BY <2>1, <2>2
  <1> HIDE DEF sum
  <1>6. sum % Word \in Int /\ Congruent(sum % Word, sum, n)
    BY <1>1, <1>5, CongruentWord
  <1>7. Congruent(sum % Word, v + net, n)
    BY <1>1, <1>5, <1>6, CongruentTransitive
  <1>8. Congruent(sum % Word, w, n)
    <2>1. Congruent(v + net, w, n)
      BY DEF n
    <2>2. v + net \in Int /\ w \in Int
      BY <1>1
    <2>3. QED
      BY <1>1, <1>6, <1>7, <2>1, <2>2, CongruentTransitive
  <1>9. /\ (sum % Word) % n \in 0..(n - 1)
        /\ Congruent((sum % Word) % n, sum % Word, n)
    BY <1>1, <1>6, CongruentMod
  <1>10. Congruent((sum % Word) % n, w, n)
    BY <1>1, <1>6, <1>8, <1>9, CongruentTransitive
  <1>11. (sum % Word) % n = w
    BY <1>1, <1>9, <1>10, CongruentUnique
  <1>12. QED
    BY <1>11 DEF shift_value, normalize_value, n, d, sum

(* A block of moves on a tape that wraps.                                  *)
LEMMA WrapExact ==
    ASSUME NEW m, IsModel(m), m.wrapping, m.memory_size < HalfWord,
           NEW p \in Cells(m), NEW net \in Int, NEW lo, NEW hi,
           NEW q \in Cells(m), Congruent(p + net, q, m.memory_size)
    PROVE  move_pointer(m, p, net, lo, hi) = q
  <1> DEFINE size == m.memory_size
             moved == Remainder(p + net, size)
             target == IF moved < 0 THEN moved + size ELSE moved
  <1>1. /\ size \in Nat \ {0} /\ size < HalfWord /\ HalfWord \in Nat
        /\ p \in 0..(size - 1) /\ q \in 0..(size - 1)
    BY HalfWordAssumption DEF IsModel, Cells, Word
  <1>2. Signed(size) = size /\ Signed(p) = p
    BY <1>1 DEF Signed
  <1>3. Congruent(p + net, q, size)
    OBVIOUS
  <1> HIDE DEF size
  <1>4. p + net \in Int
    BY <1>1
  <1>5. moved \in (-size + 1)..(size - 1) /\ Congruent(moved, p + net, size)
    BY <1>1, <1>4, CongruentRemainder
  <1> HIDE DEF moved
  <1>6. Congruent(moved, q, size)
    BY <1>1, <1>3, <1>4, <1>5, CongruentTransitive
  <1>7. target \in 0..(size - 1)
    BY <1>1, <1>5
  <1>8. Congruent(target, q, size)
    <2>1. CASE moved < 0
      <3>1. PICK k \in Int : moved = q + k * size
        BY <1>6 DEF Congruent
      <3>2. k + 1 \in Int /\ moved + size = q + (k + 1) * size
        BY <1>1, <1>5, <3>1
      <3>3. QED
        BY <2>1, <3>2 DEF Congruent
    <2>2. CASE ~(moved < 0)
      BY <1>6, <2>2
    <2>3. QED
      BY <2>1, <2>2
  <1> HIDE DEF target
  <1>9. target = q
    BY <1>1, <1>7, <1>8, CongruentUnique
  <1>10. q % Word = q
    BY <1>1 DEF Word
  <1>11. QED
    BY <1>2, <1>9, <1>10 DEF move_pointer, Unsigned, size, moved, target

(* A block of moves on a tape that does not: low and high are where the    *)
(* moves take the first and the last cell.                                 *)
Clamped(sum, lo, hi) ==
    IF sum < lo THEN lo ELSE IF sum > hi THEN hi ELSE sum

LEMMA ClampExact ==
    ASSUME NEW m, IsModel(m), ~m.wrapping, m.memory_size < HalfWord,
           NEW p \in Cells(m), NEW net \in Int,
           NEW lo \in Cells(m), NEW hi \in Cells(m), lo <= hi
    PROVE  move_pointer(m, p, net, lo, hi) = Clamped(p + net, lo, hi)
  <1> DEFINE q == Clamped(p + net, lo, hi)
  <1>1. /\ m.memory_size \in Nat /\ m.memory_size < HalfWord /\ HalfWord \in Nat
        /\ p \in 0..(m.memory_size - 1)
        /\ lo \in 0..(m.memory_size - 1)
        /\ hi \in 0..(m.memory_size - 1)
    BY HalfWordAssumption DEF IsModel, Cells, Word
  <1>2. Signed(p) = p /\ Signed(lo) = lo /\ Signed(hi) = hi
    BY <1>1 DEF Signed
  <1>3. q \in 0..(m.memory_size - 1)
    BY <1>1 DEF Clamped
  <1>4. q % Word = q
    BY <1>1, <1>3 DEF Word
  <1>5. QED
    BY <1>2, <1>4 DEF move_pointer, Unsigned, Clamped

(* The instructions on a value, one at a time.                             *)
LEMMA ValueSteps ==
    ASSUME NEW m, IsModel(m), NEW v \in CellValues(m)
    PROVE  /\ next_value(m, v) \in CellValues(m)
           /\ Congruent(v + 1, next_value(m, v), m.max_value + 1)
           /\ prev_value(m, v) \in CellValues(m)
           /\ Congruent(v - 1, prev_value(m, v), m.max_value + 1)
  <1> DEFINE n == m.max_value + 1
  <1>1. m.max_value \in Nat /\ v \in 0..m.max_value /\ n \in Nat
    BY DEF IsModel, CellValues
  <1>2. /\ next_value(m, v) \in CellValues(m)
        /\ v + 1 = next_value(m, v) + 0 * n \/ v + 1 = next_value(m, v) + 1 * n
    BY <1>1 DEF next_value, CellValues
  <1>3. /\ prev_value(m, v) \in CellValues(m)
        /\ v - 1 = prev_value(m, v) + 0 * n \/ v - 1 = prev_value(m, v) + (-1) * n
    BY <1>1 DEF prev_value, CellValues
  <1>4. QED
    BY <1>2, <1>3 DEF Congruent

(* The moves on a tape that wraps, one at a time.                          *)
LEMMA PointerSteps ==
    ASSUME NEW m, IsModel(m), NEW p \in Cells(m)
    PROVE  /\ pointer_right(m, p) \in Cells(m)
           /\ m.wrapping => Congruent(p + 1, pointer_right(m, p), m.memory_size)
           /\ pointer_left(m, p) \in Cells(m)
           /\ m.wrapping => Congruent(p - 1, pointer_left(m, p), m.memory_size)
  <1> DEFINE n == m.memory_size
  <1>1. n \in Nat \ {0} /\ p \in 0..(n - 1)
    BY HalfWordAssumption DEF IsModel, Cells, Word
  <1>2. /\ pointer_right(m, p) \in Cells(m)
        /\ m.wrapping => \/ p + 1 = pointer_right(m, p) + 0 * n
                         \/ p + 1 = pointer_right(m, p) + 1 * n
    BY <1>1 DEF pointer_right, Cells
  <1>3. /\ pointer_left(m, p) \in Cells(m)
        /\ m.wrapping => \/ p - 1 = pointer_left(m, p) + 0 * n
                         \/ p - 1 = pointer_left(m, p) + (-1) * n
    BY <1>1 DEF pointer_left, Cells
  <1>4. QED
    BY <1>2, <1>3 DEF Congruent

-----------------------------------------------------------------------------
(* A set of naturals with an upper bound has a greatest element.           *)
LEMMA GreatestElement ==
    ASSUME NEW n \in Nat, NEW T \in SUBSET (0..n), T # {}
    PROVE  \E x \in T : \A y \in T : y <= x
  <1> DEFINE U == {n - x : x \in T}
  <1>1. U \in SUBSET Nat /\ U # {}
    <2>1. \A x \in T : n - x \in Nat
      OBVIOUS
    <2>2. PICK x \in T : TRUE
      OBVIOUS
    <2>3. n - x \in U
      OBVIOUS
    <2>4. QED
      BY <2>1, <2>3
  <1>2. PICK u \in U : \A y \in U : u <= y
    <2> HIDE DEF U
    <2>1. QED
      BY <1>1, LeastElement
  <1>3. PICK x \in T : u = n - x
    OBVIOUS
  <1>4. ASSUME NEW y \in T PROVE y <= x
    <2>1. n - y \in U
      OBVIOUS
    <2>2. u <= n - y
      BY <1>2, <2>1
    <2>3. QED
      BY <1>3, <2>2
  <1>5. QED
    BY <1>4

-----------------------------------------------------------------------------
(* Counting instructions one at a time.                                    *)
LEMMA OccurrencesNone ==
    ASSUME NEW code, NEW instr, NEW first \in Nat
    PROVE  Occurrences(code, instr, first..(first - 1)) = 0
  <1>1. {i \in first..(first - 1) : code[i] = instr} = {}
    OBVIOUS
  <1>2. QED
    BY <1>1, FS_EmptySet DEF Occurrences

LEMMA OccurrencesNat ==
    ASSUME NEW code, NEW instr, NEW first \in Nat, NEW n \in Int
    PROVE  Occurrences(code, instr, first..n) \in Nat
  <1>1. IsFiniteSet(first..n)
    BY FS_Interval
  <1>2. IsFiniteSet({i \in first..n : code[i] = instr})
    BY <1>1, FS_Subset
  <1>3. QED
    BY <1>2, FS_CardinalityType DEF Occurrences

LEMMA OccurrencesNext ==
    ASSUME NEW code, NEW instr, NEW first \in Nat, NEW n \in Nat, first <= n
    PROVE  Occurrences(code, instr, first..n)
             = Occurrences(code, instr, first..(n - 1)) + (IF code[n] = instr THEN 1 ELSE 0)
  <1> DEFINE S(k) == {i \in first..k : code[i] = instr}
  <1>1. IsFiniteSet(S(n - 1))
    <2>1. IsFiniteSet(first..(n - 1)) /\ S(n - 1) \subseteq first..(n - 1)
      BY FS_Interval
    <2>2. QED
      BY <2>1, FS_Subset
  <1>2. n \notin S(n - 1)
    OBVIOUS
  <1>3. CASE code[n] = instr
    <2>1. S(n) = S(n - 1) \cup {n}
      BY <1>3
    <2>2. Cardinality(S(n)) = Cardinality(S(n - 1)) + 1
      <3> HIDE DEF S
      <3>1. QED
        BY <1>1, <1>2, <2>1, FS_AddElement
    <2>3. QED
      BY <1>3, <2>2 DEF Occurrences
  <1>4. CASE code[n] # instr
    <2>1. S(n) = S(n - 1)
      BY <1>4
    <2>2. Cardinality(S(n - 1)) \in Nat
      <3> HIDE DEF S
      <3>1. QED
        BY <1>1, FS_CardinalityType
    <2>3. Cardinality(S(n)) = Cardinality(S(n - 1)) + 0
      <3>1. Cardinality(S(n)) = Cardinality(S(n - 1))
        BY <2>1
      <3> HIDE DEF S
      <3>2. QED
        BY <2>2, <3>1
    <2>4. QED
      BY <1>4, <2>3 DEF Occurrences
  <1>5. QED
    BY <1>3, <1>4

(* The depth changes by one at a bracket and stays elsewhere.              *)
LEMMA DepthSteps ==
    ASSUME NEW code \in Seq(Instruction)
    PROVE  /\ \A n \in Nat : Depth(code, n) \in Int
           /\ Depth(code, 0) = 0
           /\ \A n \in 1..Len(code) :
                 Depth(code, n) = Depth(code, n - 1)
                                    + (IF code[n] = "fwd" THEN 1
                                       ELSE IF code[n] = "bwd" THEN -1 ELSE 0)
  <1>1. ASSUME NEW n \in Nat PROVE Depth(code, n) \in Int
    <2>1. /\ Occurrences(code, "fwd", 1..n) \in Nat
          /\ Occurrences(code, "bwd", 1..n) \in Nat
      BY OccurrencesNat
    <2>2. QED
      BY <2>1 DEF Depth
  <1>2. Depth(code, 0) = 0
    <2>1. /\ Occurrences(code, "fwd", 1..(1 - 1)) = 0
          /\ Occurrences(code, "bwd", 1..(1 - 1)) = 0
      BY OccurrencesNone
    <2>2. QED
      BY <2>1 DEF Depth
  <1>3. ASSUME NEW n \in 1..Len(code)
        PROVE  Depth(code, n) = Depth(code, n - 1)
                                  + (IF code[n] = "fwd" THEN 1
                                     ELSE IF code[n] = "bwd" THEN -1 ELSE 0)
    <2>1. n \in Nat /\ n - 1 \in Int /\ 1 \in Nat /\ 1 <= n
      OBVIOUS
    <2>2. /\ Occurrences(code, "fwd", 1..(n - 1)) \in Nat
          /\ Occurrences(code, "bwd", 1..(n - 1)) \in Nat
      BY <2>1, OccurrencesNat
    <2>3. Occurrences(code, "fwd", 1..n)
            = Occurrences(code, "fwd", 1..(n - 1)) + (IF code[n] = "fwd" THEN 1 ELSE 0)
      BY <2>1, OccurrencesNext
    <2>4. Occurrences(code, "bwd", 1..n)
            = Occurrences(code, "bwd", 1..(n - 1)) + (IF code[n] = "bwd" THEN 1 ELSE 0)
      BY <2>1, OccurrencesNext
    <2>5. QED
      BY <2>2, <2>3, <2>4 DEF Depth
  <1>4. QED
    BY <1>1, <1>2, <1>3

-----------------------------------------------------------------------------
(* A bracket that opens has a partner: the first pointer behind it with a  *)
(* smaller depth.                                                          *)
LEMMA OpenHasPartner ==
    ASSUME NEW code \in Seq(Instruction), Balanced(code),
           NEW open \in 1..Len(code), code[open] = "fwd"
    PROVE  \E close \in 1..Len(code) : Encloses(code, open, close)
  <1> DEFINE n == Len(code)
             T == {k \in open..n : Depth(code, k) < Depth(code, open)}
  <1>1. n \in Nat /\ open \in 1..n /\ open - 1 \in Nat
    OBVIOUS
  <1>2. \A k \in Nat : Depth(code, k) \in Int
    BY DepthSteps
  <1>3. Depth(code, open) = Depth(code, open - 1) + 1
    BY DepthSteps
  <1>4. Depth(code, open - 1) >= 0
    BY <1>1, DepthSteps DEF Balanced
  <1>5. Depth(code, n) = 0
    BY DEF Balanced
  <1>6. n \in T
    BY <1>1, <1>2, <1>3, <1>4, <1>5
  <1>7. PICK close \in T : \A k \in T : close <= k
    <2>1. T \in SUBSET Nat /\ T # {}
      BY <1>1, <1>6
    <2> HIDE DEF T
    <2>2. QED
      BY <2>1, LeastElement
  <1>8. close \in 1..n /\ open < close /\ close - 1 \in Nat
    BY <1>1, <1>2, <1>7
  <1>9. \A k \in open..(close - 1) : Depth(code, k) >= Depth(code, open)
    <2> SUFFICES ASSUME NEW k \in open..(close - 1), Depth(code, k) < Depth(code, open)
                 PROVE  FALSE
      BY <1>1, <1>2, <1>8
    <2>1. k \in T
      BY <1>1, <1>8
    <2>2. QED
      BY <1>7, <1>8, <2>1
  <1>10. Depth(code, close - 1) >= Depth(code, open)
    BY <1>1, <1>8, <1>9
  <1>11. Depth(code, close) < Depth(code, open)
    BY <1>7
  <1>12. Depth(code, close) = Depth(code, close - 1)
                                + (IF code[close] = "fwd" THEN 1
                                   ELSE IF code[close] = "bwd" THEN -1 ELSE 0)
    BY <1>8, DepthSteps
  <1>13. /\ Depth(code, close) \in Int /\ Depth(code, close - 1) \in Int
         /\ Depth(code, open) \in Int
    BY <1>1, <1>2, <1>8
  <1>14. code[close] = "bwd" /\ Depth(code, close) = Depth(code, close - 1) - 1
    BY <1>10, <1>11, <1>12, <1>13
  <1>15. Depth(code, close) = Depth(code, open) - 1
    BY <1>10, <1>11, <1>13, <1>14
  <1>16. Depth(code, close) = Depth(code, open - 1)
    BY <1>1, <1>2, <1>3, <1>15
  <1>17. \A k \in open..(close - 1) : Depth(code, k) > Depth(code, close)
    BY <1>1, <1>2, <1>8, <1>9, <1>11, <1>13
  <1>18. QED
    BY <1>8, <1>14, <1>16, <1>17 DEF Encloses

(* And so has one that closes: the pointer behind the last one before it   *)
(* that is not deeper.                                                     *)
LEMMA CloseHasPartner ==
    ASSUME NEW code \in Seq(Instruction), Balanced(code),
           NEW close \in 1..Len(code), code[close] = "bwd"
    PROVE  \E open \in 1..Len(code) : Encloses(code, open, close)
  <1> DEFINE n == Len(code)
             T == {k \in 0..(close - 1) : Depth(code, k) <= Depth(code, close)}
  <1>1. n \in Nat /\ close \in 1..n /\ close - 1 \in Nat
    OBVIOUS
  <1>2. \A k \in Nat : Depth(code, k) \in Int
    BY DepthSteps
  <1>3. Depth(code, close) = Depth(code, close - 1) - 1
    BY DepthSteps
  <1>4. Depth(code, close) >= 0
    BY <1>1 DEF Balanced
  <1>5. 0 \in T
    BY <1>1, <1>4, DepthSteps
  <1>6. PICK last \in T : \A k \in T : k <= last
    <2>1. T \in SUBSET (0..(close - 1)) /\ T # {}
      BY <1>5
    <2> HIDE DEF T
    <2>2. QED
      BY <1>1, <2>1, GreatestElement
  <1> DEFINE open == last + 1
  <1>7. last \in 0..(close - 1) /\ Depth(code, last) <= Depth(code, close)
    BY <1>6
  <1>8. last # close - 1
    BY <1>1, <1>2, <1>3, <1>7
  <1>9. open \in 1..n /\ open < close /\ open - 1 = last /\ open \in 1..(close - 1)
        /\ last \in Nat /\ open \in Nat
    BY <1>1, <1>7, <1>8
  <1>10. \A k \in open..(close - 1) : Depth(code, k) > Depth(code, close)
    <2> SUFFICES ASSUME NEW k \in open..(close - 1), Depth(code, k) <= Depth(code, close)
                 PROVE  FALSE
      BY <1>1, <1>2, <1>9
    <2>1. k \in T
      BY <1>1, <1>9
    <2>2. k <= last
      BY <1>6, <2>1
    <2>3. QED
      BY <1>7, <2>2
  <1> HIDE DEF open
  <1>11. Depth(code, open) > Depth(code, close)
    BY <1>9, <1>10
  <1>12. Depth(code, open) = Depth(code, last)
                               + (IF code[open] = "fwd" THEN 1
                                  ELSE IF code[open] = "bwd" THEN -1 ELSE 0)
    BY <1>9, DepthSteps
  <1>13. /\ Depth(code, open) \in Int /\ Depth(code, last) \in Int
         /\ Depth(code, close) \in Int
    BY <1>1, <1>2, <1>9
  <1>14. code[open] = "fwd" /\ Depth(code, last) = Depth(code, close)
    BY <1>7, <1>11, <1>12, <1>13
  <1>15. QED
    BY <1>9, <1>10, <1>14 DEF Encloses

(* Every bracket of a balanced program has its partner, behind which a     *)
(* jump leads.                                                             *)
LEMMA PartnerFacts ==
    ASSUME NEW code \in Seq(Instruction), Balanced(code), NEW pc \in Brackets(code)
    PROVE  /\ Partner(code, pc) \in Brackets(code)
           /\ Encloses(code, pc, Partner(code, pc)) \/ Encloses(code, Partner(code, pc), pc)
           /\ JumpTable(code)[pc] = Partner(code, pc) + 1
  <1>1. pc \in 1..Len(code) /\ (code[pc] = "fwd" \/ code[pc] = "bwd")
    BY DEF Brackets
  <1>2. \E i \in 1..Len(code) : Encloses(code, pc, i) \/ Encloses(code, i, pc)
    BY <1>1, OpenHasPartner, CloseHasPartner
  <1>3. /\ Partner(code, pc) \in 1..Len(code)
        /\ Encloses(code, pc, Partner(code, pc)) \/ Encloses(code, Partner(code, pc), pc)
    BY <1>2 DEF Partner
  <1>4. Partner(code, pc) \in Brackets(code)
    BY <1>3 DEF Brackets, Encloses
  <1>5. QED
    BY <1>3, <1>4 DEF JumpTable

-----------------------------------------------------------------------------
(* Where a block starts and ends.                                          *)
LEMMA BlockEndFacts ==
    ASSUME NEW code \in Seq(Instruction), NEW labelled, NEW pc \in 1..Len(code)
    PROVE  /\ BlockEnd(code, labelled, pc) \in (pc + 1)..(Len(code) + 1)
           /\ StartsBlock(code, labelled, BlockEnd(code, labelled, pc))
           /\ \A i \in (pc + 1)..(BlockEnd(code, labelled, pc) - 1) :
                 ~StartsBlock(code, labelled, i)
  <1> DEFINE T == {i \in (pc + 1)..(Len(code) + 1) : StartsBlock(code, labelled, i)}
  <1>1. pc \in Nat /\ Len(code) \in Nat /\ pc <= Len(code)
    OBVIOUS
  <1>2. Len(code) + 1 \in T
    BY <1>1 DEF StartsBlock
  <1>3. \E x \in T : \A y \in T : x <= y
    <2>1. T \in SUBSET Nat /\ T # {}
      BY <1>1, <1>2
    <2> HIDE DEF T
    <2>2. QED
      BY <2>1, LeastElement
  <1>4. Min(T) \in T /\ \A y \in T : Min(T) <= y
    <2> HIDE DEF T
    <2>1. QED
      BY <1>3 DEF Min
  <1>5. BlockEnd(code, labelled, pc) = Min(T)
    BY DEF BlockEnd
  <1>6. ASSUME NEW i \in (pc + 1)..(Min(T) - 1), StartsBlock(code, labelled, i)
        PROVE  FALSE
    <2>1. Min(T) \in Nat /\ Min(T) <= Len(code) + 1
      BY <1>1, <1>4
    <2>2. i \in T
      BY <1>1, <1>6, <2>1
    <2>3. QED
      BY <1>4, <1>6, <2>1, <2>2
  <1>7. QED
    BY <1>4, <1>5, <1>6

LEMMA BlockStartFacts ==
    ASSUME NEW code \in Seq(Instruction), NEW labelled, NEW pc \in 1..Len(code)
    PROVE  /\ BlockStart(code, labelled, pc) \in 1..pc
           /\ StartsBlock(code, labelled, BlockStart(code, labelled, pc))
           /\ \A i \in (BlockStart(code, labelled, pc) + 1)..pc :
                 ~StartsBlock(code, labelled, i)
  <1> DEFINE T == {i \in 1..pc : StartsBlock(code, labelled, i)}
  <1>1. pc \in Nat /\ 1 <= pc
    OBVIOUS
  <1>2. 1 \in T
    BY <1>1 DEF StartsBlock
  <1>3. \E x \in T : \A y \in T : y <= x
    <2>1. T \in SUBSET (0..pc) /\ T # {}
      BY <1>1, <1>2
    <2> HIDE DEF T
    <2>2. QED
      BY <1>1, <2>1, GreatestElement
  <1>4. Max(T) \in T /\ \A y \in T : y <= Max(T)
    <2>1. \E x \in T : \A y \in T : x >= y
      BY <1>3
    <2>2. \A x \in T : x \in Nat
      BY <1>1
    <2> HIDE DEF T
    <2>3. Max(T) \in T /\ \A y \in T : Max(T) >= y
      BY <2>1 DEF Max
    <2>4. QED
      BY <2>2, <2>3
  <1>5. BlockStart(code, labelled, pc) = Max(T)
    BY DEF BlockStart
  <1>6. ASSUME NEW i \in (Max(T) + 1)..pc, StartsBlock(code, labelled, i)
        PROVE  FALSE
    <2>1. Max(T) \in Nat
      BY <1>1, <1>4
    <2>2. i \in T
      BY <1>1, <1>6, <2>1
    <2>3. QED
      BY <1>4, <1>6, <2>1, <2>2
  <1>7. QED
    BY <1>4, <1>5, <1>6

(* Between two starts all instructions are of one class.                   *)
Unbroken(code, labelled, first, last) ==
    \A i \in (first + 1)..last : ~StartsBlock(code, labelled, i)

LEMMA SameClass ==
    ASSUME NEW code, NEW labelled, NEW first, NEW last,
           Unbroken(code, labelled, first, last)
    PROVE  \A i \in (first + 1)..last : InstrClass(code[i]) = InstrClass(code[i - 1])
  BY DEF Unbroken, StartsBlock

LEMMA NoLabelInside ==
    ASSUME NEW code, NEW labelled, NEW first, NEW last,
           Unbroken(code, labelled, first, last)
    PROVE  \A i \in (first + 1)..last : i \notin labelled
  BY DEF Unbroken, StartsBlock

LEMMA OneClass ==
    ASSUME NEW code \in Seq(Instruction), NEW labelled,
           NEW first \in 1..Len(code), NEW last \in first..Len(code),
           Unbroken(code, labelled, first, last)
    PROVE  \A i \in first..last : InstrClass(code[i]) = InstrClass(code[first])
  <1> DEFINE T == {i \in first..last : InstrClass(code[i]) # InstrClass(code[first])}
  <1>1. first \in Nat /\ last \in Nat
    OBVIOUS
  <1> SUFFICES ASSUME T # {} PROVE FALSE
    OBVIOUS
  <1>2. PICK i \in T : \A k \in T : i <= k
    <2>1. T \in SUBSET Nat /\ T # {}
      BY <1>1
    <2> HIDE DEF T
    <2>2. QED
      BY <2>1, LeastElement
  <1>3. i \in first..last /\ InstrClass(code[i]) # InstrClass(code[first])
    OBVIOUS
  <1>4. i # first
    BY <1>3
  <1>5. i \in (first + 1)..last /\ i - 1 \in first..last
    BY <1>1, <1>3, <1>4
  <1>6. InstrClass(code[i]) = InstrClass(code[i - 1])
    BY <1>5, SameClass
  <1>7. i - 1 \in T
    BY <1>3, <1>5, <1>6
  <1>8. QED
    BY <1>1, <1>2, <1>3, <1>7

-----------------------------------------------------------------------------
(* ClampedMoves is defined by recursion; it exists, and it can be unfolded *)
(* from its last move.                                                     *)
ClampedMove(m, instr, p) ==
    IF instr = "right" THEN pointer_right([m EXCEPT !.wrapping = FALSE], p)
    ELSE pointer_left([m EXCEPT !.wrapping = FALSE], p)

IsClampedPath(m, code, first, end, p, f) ==
    f = [pc \in first..end |->
            IF pc = first THEN p ELSE ClampedMove(m, code[pc - 1], f[pc - 1])]

LEMMA ClampedPathExists ==
    ASSUME NEW m, NEW code, NEW first \in Nat, NEW end \in Nat, first <= end, NEW p
    PROVE  \E f : IsClampedPath(m, code, first, end, p, f)
  <1> DEFINE T == {e \in Nat : first <= e /\ ~ \E f : IsClampedPath(m, code, first, e, p, f)}
  <1> SUFFICES ASSUME T # {} PROVE FALSE
    OBVIOUS
  <1>1. PICK e \in T : \A k \in T : e <= k
    <2>1. T \in SUBSET Nat /\ T # {}
      OBVIOUS
    <2> HIDE DEF T
    <2>2. QED
      BY <2>1, LeastElement
  <1>2. e \in Nat /\ first <= e /\ ~ \E f : IsClampedPath(m, code, first, e, p, f)
    OBVIOUS
  <1>3. CASE e = first
    <2> DEFINE f == [pc \in first..first |-> p]
    <2>1. IsClampedPath(m, code, first, e, p, f)
      BY <1>3 DEF IsClampedPath
    <2>2. QED
      BY <1>2, <2>1
  <1>4. CASE e # first
    <2>1. e - 1 \in Nat /\ first <= e - 1
      BY <1>2, <1>4
    <2>2. e - 1 \notin T
      BY <1>1, <1>2, <2>1
    <2>3. PICK f : IsClampedPath(m, code, first, e - 1, p, f)
      BY <2>1, <2>2
    <2> DEFINE g == [pc \in first..e |->
                        IF pc = e THEN ClampedMove(m, code[e - 1], f[e - 1]) ELSE f[pc]]
    <2>4. \A pc \in first..(e - 1) :
            f[pc] = IF pc = first THEN p ELSE ClampedMove(m, code[pc - 1], f[pc - 1])
      BY <2>3 DEF IsClampedPath
    <2>5. /\ \A pc \in first..(e - 1) : g[pc] = f[pc]
          /\ g[e] = ClampedMove(m, code[e - 1], f[e - 1])
          /\ e - 1 \in first..(e - 1)
      BY <1>2, <2>1
    <2>6. ASSUME NEW pc \in first..e
          PROVE  g[pc] = IF pc = first THEN p ELSE ClampedMove(m, code[pc - 1], g[pc - 1])
      <3> HIDE DEF g
      <3>1. CASE pc = e
        BY <1>4, <2>5, <3>1
      <3>2. CASE pc # e
        <4>1. pc \in first..(e - 1) /\ (pc # first => pc - 1 \in first..(e - 1))
          BY <1>2, <3>2
        <4>2. QED
          BY <2>4, <2>5, <4>1
      <3>3. QED
        BY <3>1, <3>2
    <2>7. IsClampedPath(m, code, first, e, p, g)
      <3> DEFINE h == [pc \in first..e |->
                          IF pc = first THEN p ELSE ClampedMove(m, code[pc - 1], g[pc - 1])]
      <3>1. \A pc \in first..e : g[pc] = h[pc]
        BY <2>6
      <3>2. g = h
        BY <3>1
      <3>3. QED
        BY <3>2 DEF IsClampedPath
    <2>8. QED
      BY <1>2, <2>7
  <1>5. QED
    BY <1>3, <1>4

(* A longer path agrees with a shorter one.                                *)
LEMMA ClampedPathAgrees ==
    ASSUME NEW m, NEW code, NEW first \in Nat, NEW end \in Nat, NEW longer \in Nat,
           first <= end, end <= longer, NEW p, NEW f, NEW g,
           IsClampedPath(m, code, first, end, p, f),
           IsClampedPath(m, code, first, longer, p, g)
    PROVE  f[end] = g[end]
  <1> DEFINE T == {k \in first..end : f[k] # g[k]}
  <1>1. \A pc \in first..end :
          f[pc] = IF pc = first THEN p ELSE ClampedMove(m, code[pc - 1], f[pc - 1])
    BY DEF IsClampedPath
  <1>2. \A pc \in first..longer :
          g[pc] = IF pc = first THEN p ELSE ClampedMove(m, code[pc - 1], g[pc - 1])
    BY DEF IsClampedPath
  <1>3. T = {}
    <2> SUFFICES ASSUME T # {} PROVE FALSE
      OBVIOUS
    <2>1. PICK k \in T : \A i \in T : k <= i
      <3>1. T \in SUBSET Nat /\ T # {}
        OBVIOUS
      <3> HIDE DEF T
      <3>2. QED
        BY <3>1, LeastElement
    <2>2. k \in first..end /\ k \in first..longer /\ f[k] # g[k]
      OBVIOUS
    <2>3. CASE k = first
      BY <1>1, <1>2, <2>2, <2>3
    <2>4. CASE k # first
      <3>1. k - 1 \in first..end /\ k - 1 \notin T
        BY <2>1, <2>2, <2>4
      <3>2. f[k - 1] = g[k - 1]
        BY <3>1
      <3>3. QED
        BY <1>1, <1>2, <2>2, <2>4, <3>2
    <2>5. QED
      BY <2>3, <2>4
  <1>4. QED
    BY <1>3

LEMMA ClampedMovesPath ==
    ASSUME NEW m, NEW code, NEW first \in Nat, NEW end \in Nat, first <= end, NEW p
    PROVE  \E f : /\ IsClampedPath(m, code, first, end, p, f)
                  /\ ClampedMoves(m, code, first, end, p) = f[end]
  <1> DEFINE f == CHOOSE h : IsClampedPath(m, code, first, end, p, h)
  <1>1. IsClampedPath(m, code, first, end, p, f)
    BY ClampedPathExists
  <1>2. ClampedMoves(m, code, first, end, p) = f[end]
    BY DEF ClampedMoves, IsClampedPath, ClampedMove
  <1>3. QED
    BY <1>1, <1>2

LEMMA ClampedMovesFirst ==
    ASSUME NEW m, NEW code, NEW first \in Nat, NEW p
    PROVE  ClampedMoves(m, code, first, first, p) = p
  <1>1. PICK f : /\ IsClampedPath(m, code, first, first, p, f)
                 /\ ClampedMoves(m, code, first, first, p) = f[first]
    BY ClampedMovesPath
  <1>2. QED
    BY <1>1 DEF IsClampedPath

LEMMA ClampedMovesNext ==
    ASSUME NEW m, NEW code, NEW first \in Nat, NEW end \in Nat, first <= end, NEW p
    PROVE  ClampedMoves(m, code, first, end + 1, p)
             = ClampedMove(m, code[end], ClampedMoves(m, code, first, end, p))
  <1>1. PICK f : /\ IsClampedPath(m, code, first, end, p, f)
                 /\ ClampedMoves(m, code, first, end, p) = f[end]
    BY ClampedMovesPath
  <1>2. PICK g : /\ IsClampedPath(m, code, first, end + 1, p, g)
                 /\ ClampedMoves(m, code, first, end + 1, p) = g[end + 1]
    <2>1. end + 1 \in Nat /\ first <= end + 1
      OBVIOUS
    <2>2. QED
      BY <2>1, ClampedMovesPath
  <1>3. f[end] = g[end]
    <2>1. end + 1 \in Nat /\ end <= end + 1
      OBVIOUS
    <2>2. QED
      BY <1>1, <1>2, <2>1, ClampedPathAgrees
  <1>4. g[end + 1] = ClampedMove(m, code[(end + 1) - 1], g[(end + 1) - 1])
    <2>1. end + 1 \in first..(end + 1) /\ end + 1 # first
      OBVIOUS
    <2>2. QED
      BY <1>2, <2>1 DEF IsClampedPath
  <1>5. (end + 1) - 1 = end
    OBVIOUS
  <1>6. QED
    BY <1>1, <1>2, <1>3, <1>4, <1>5

-----------------------------------------------------------------------------
(* The difference of two counts over the run from first to next - 1.       *)
Net(code, plus, minus, first, next) ==
    Occurrences(code, plus, first..(next - 1)) - Occurrences(code, minus, first..(next - 1))

LEMMA NetNone ==
    ASSUME NEW code, NEW plus, NEW minus, NEW first \in Nat
    PROVE  Net(code, plus, minus, first, first) = 0
  BY OccurrencesNone DEF Net

LEMMA NetNext ==
    ASSUME NEW code, NEW plus, NEW minus, plus # minus,
           NEW first \in Nat, NEW next \in Nat, first <= next,
           code[next] \in {plus, minus}
    PROVE  Net(code, plus, minus, first, next + 1)
             = IF code[next] = plus THEN Net(code, plus, minus, first, next) + 1
               ELSE Net(code, plus, minus, first, next) - 1
  <1>1. /\ Occurrences(code, plus, first..(next - 1)) \in Nat
        /\ Occurrences(code, minus, first..(next - 1)) \in Nat
    BY OccurrencesNat
  <1>2. /\ Occurrences(code, plus, first..next)
             = Occurrences(code, plus, first..(next - 1)) + (IF code[next] = plus THEN 1 ELSE 0)
        /\ Occurrences(code, minus, first..next)
             = Occurrences(code, minus, first..(next - 1)) + (IF code[next] = minus THEN 1 ELSE 0)
    BY OccurrencesNext
  <1>3. (next + 1) - 1 = next
    OBVIOUS
  <1>4. QED
    BY <1>1, <1>2, <1>3 DEF Net

LEMMA NetLast ==
    ASSUME NEW code, NEW plus, NEW minus, plus # minus,
           NEW first \in Nat, NEW end \in Nat, first < end,
           code[end - 1] \in {plus, minus}
    PROVE  /\ Net(code, plus, minus, first, end - 1) \in Int
           /\ Net(code, plus, minus, first, end)
                = IF code[end - 1] = plus THEN Net(code, plus, minus, first, end - 1) + 1
                  ELSE Net(code, plus, minus, first, end - 1) - 1
  <1> DEFINE last == end - 1
  <1>1. last \in Nat /\ first <= last /\ last + 1 = end /\ code[last] \in {plus, minus}
    OBVIOUS
  <1> HIDE DEF last
  <1>2. Net(code, plus, minus, first, last + 1)
          = IF code[last] = plus THEN Net(code, plus, minus, first, last) + 1
            ELSE Net(code, plus, minus, first, last) - 1
    BY <1>1, NetNext
  <1>3. Net(code, plus, minus, first, last) \in Int
    BY <1>1, OccurrencesNat DEF Net
  <1>4. Net(code, plus, minus, first, end)
          = IF code[last] = plus THEN Net(code, plus, minus, first, last) + 1
            ELSE Net(code, plus, minus, first, last) - 1
    BY <1>1, <1>2
  <1>5. QED
    BY <1>3, <1>4 DEF last

(* The class of an instruction is what the loops test.                     *)
LEMMA Classes ==
    ASSUME NEW instr
    PROVE  /\ is_value_instruction(instr) <=> InstrClass(instr) = "values"
           /\ is_pointer_instruction(instr) <=> InstrClass(instr) = "pointers"
           /\ InstrClass(instr) = "single"
                <=> ~is_value_instruction(instr) /\ ~is_pointer_instruction(instr)
  BY DEF InstrClass, is_value_instruction, is_pointer_instruction

LEMMA ClampedMovesLast ==
    ASSUME NEW m, NEW code, NEW first \in Nat, NEW end \in Nat, first < end, NEW p
    PROVE  ClampedMoves(m, code, first, end, p)
             = ClampedMove(m, code[end - 1], ClampedMoves(m, code, first, end - 1, p))
  <1> DEFINE last == end - 1
  <1>1. last \in Nat /\ first <= last /\ last + 1 = end
    OBVIOUS
  <1> HIDE DEF last
  <1>2. ClampedMoves(m, code, first, last + 1, p)
          = ClampedMove(m, code[last], ClampedMoves(m, code, first, last, p))
    BY <1>1, ClampedMovesNext
  <1>3. ClampedMoves(m, code, first, end, p)
          = ClampedMove(m, code[last], ClampedMoves(m, code, first, last, p))
    BY <1>1, <1>2
  <1>4. QED
    BY <1>3 DEF last

(* The net move of a run, and the two bounds, say where the moves take     *)
(* every cell of a tape that does not wrap.                                *)
LEMMA ClampedMoveSteps ==
    ASSUME NEW m, IsModel(m), NEW instr, NEW lo \in Cells(m), NEW hi \in Cells(m), lo <= hi
    PROVE  /\ ClampedMove(m, instr, lo) \in Cells(m)
           /\ ClampedMove(m, instr, hi) \in Cells(m)
           /\ ClampedMove(m, instr, lo) <= ClampedMove(m, instr, hi)
  BY DEF ClampedMove, Cells, IsModel, pointer_right, pointer_left

LEMMA ClampedOrder ==
    ASSUME NEW m, IsModel(m), NEW code, NEW first \in Nat, NEW end \in Nat, first <= end,
           NEW lo \in Cells(m), NEW hi \in Cells(m), lo <= hi
    PROVE  /\ ClampedMoves(m, code, first, end, lo) \in Cells(m)
           /\ ClampedMoves(m, code, first, end, hi) \in Cells(m)
           /\ ClampedMoves(m, code, first, end, lo) <= ClampedMoves(m, code, first, end, hi)
  <1> DEFINE Ordered(e) ==
                 /\ ClampedMoves(m, code, first, e, lo) \in Cells(m)
                 /\ ClampedMoves(m, code, first, e, hi) \in Cells(m)
                 /\ ClampedMoves(m, code, first, e, lo) <= ClampedMoves(m, code, first, e, hi)
             T == {e \in first..end : ~Ordered(e)}
  <1>1. Ordered(first)
    BY ClampedMovesFirst
  <1>2. ASSUME NEW e \in first..end, e # first, Ordered(e - 1)
        PROVE  Ordered(e)
    <2> DEFINE l == ClampedMoves(m, code, first, e - 1, lo)
               h == ClampedMoves(m, code, first, e - 1, hi)
    <2>1. l \in Cells(m) /\ h \in Cells(m) /\ l <= h
      BY <1>2
    <2>2. e \in Nat /\ first < e
      BY <1>2
    <2>3. /\ ClampedMoves(m, code, first, e, lo) = ClampedMove(m, code[e - 1], l)
          /\ ClampedMoves(m, code, first, e, hi) = ClampedMove(m, code[e - 1], h)
      BY <2>2, ClampedMovesLast
    <2> HIDE DEF l, h
    <2>4. QED
      BY <2>1, <2>3, ClampedMoveSteps
  <1> HIDE DEF Ordered
  <1>3. T = {}
    <2> SUFFICES ASSUME T # {} PROVE FALSE
      OBVIOUS
    <2>1. PICK e \in T : \A k \in T : e <= k
      <3>1. T \in SUBSET Nat /\ T # {}
        OBVIOUS
      <3> HIDE DEF T
      <3>2. QED
        BY <3>1, LeastElement
    <2>2. e # first /\ e - 1 \in first..end /\ e - 1 \notin T
      BY <1>1, <2>1
    <2>3. QED
      BY <1>2, <2>1, <2>2
  <1>4. Ordered(end)
    BY <1>3
  <1>5. QED
    BY <1>4 DEF Ordered

LEMMA ClampedMoveExact ==
    ASSUME NEW m, IsModel(m), NEW sum \in Int,
           NEW lo \in Cells(m), NEW hi \in Cells(m), lo <= hi
    PROVE  /\ ClampedMove(m, "right", Clamped(sum, lo, hi))
                = Clamped(sum + 1, ClampedMove(m, "right", lo), ClampedMove(m, "right", hi))
           /\ ClampedMove(m, "left", Clamped(sum, lo, hi))
                = Clamped(sum - 1, ClampedMove(m, "left", lo), ClampedMove(m, "left", hi))
  BY DEF ClampedMove, Clamped, Cells, IsModel, pointer_right, pointer_left

LEMMA ClampedRun ==
    ASSUME NEW m, IsModel(m), NEW code, NEW first \in Nat, NEW end \in Nat, first <= end,
           \A i \in first..(end - 1) : code[i] \in {"right", "left"},
           NEW p \in Cells(m)
    PROVE  ClampedMoves(m, code, first, end, p)
             = Clamped(p + Net(code, "right", "left", first, end),
                       ClampedMoves(m, code, first, end, 0),
                       ClampedMoves(m, code, first, end, m.memory_size - 1))
  <1> DEFINE at(e) == ClampedMoves(m, code, first, e, p)
             lo(e) == ClampedMoves(m, code, first, e, 0)
             hi(e) == ClampedMoves(m, code, first, e, m.memory_size - 1)
             net(e) == Net(code, "right", "left", first, e)
             Exact(e) == at(e) = Clamped(p + net(e), lo(e), hi(e))
             T == {e \in first..end : ~Exact(e)}
  <1>1. m.memory_size \in Int /\ p \in Int /\ 0 <= p /\ p <= m.memory_size - 1
        /\ 0 \in Cells(m) /\ m.memory_size - 1 \in Cells(m) /\ 0 <= m.memory_size - 1
    BY HalfWordAssumption DEF Cells, IsModel, Word
  <1>2. Exact(first)
    <2>1. /\ at(first) = p /\ lo(first) = 0 /\ hi(first) = m.memory_size - 1 /\ net(first) = 0
      BY ClampedMovesFirst, NetNone
    <2>2. p = Clamped(p + 0, 0, m.memory_size - 1)
      BY <1>1 DEF Clamped
    <2> HIDE DEF at, lo, hi, net
    <2>3. QED
      BY <2>1, <2>2
  <1>3. ASSUME NEW e \in first..end, e # first, Exact(e - 1)
        PROVE  Exact(e)
    <2>1. e \in Nat /\ first < e /\ e - 1 \in Nat /\ first <= e - 1 /\ e - 1 \in first..(end - 1)
      BY <1>3
    <2>2. code[e - 1] \in {"right", "left"}
      BY <2>1
    <2>3. /\ at(e) = ClampedMove(m, code[e - 1], at(e - 1))
          /\ lo(e) = ClampedMove(m, code[e - 1], lo(e - 1))
          /\ hi(e) = ClampedMove(m, code[e - 1], hi(e - 1))
      BY <2>1, ClampedMovesLast
    <2>4. lo(e - 1) \in Cells(m) /\ hi(e - 1) \in Cells(m) /\ lo(e - 1) <= hi(e - 1)
      BY <1>1, <2>1, ClampedOrder
    <2>5. /\ net(e - 1) \in Int
          /\ net(e) = IF code[e - 1] = "right" THEN net(e - 1) + 1 ELSE net(e - 1) - 1
      BY <2>1, <2>2, NetLast
    <2> DEFINE sum == p + net(e - 1)
    <2>6. /\ sum \in Int
          /\ p + net(e) = IF code[e - 1] = "right" THEN sum + 1 ELSE sum - 1
      <3> HIDE DEF net
      <3>1. QED
        BY <1>1, <2>5
    <2>7. at(e - 1) = Clamped(sum, lo(e - 1), hi(e - 1))
      BY <1>3
    <2> HIDE DEF at, lo, hi, net, sum
    <2>8. QED
      BY <2>2, <2>3, <2>4, <2>6, <2>7, ClampedMoveExact
  <1> HIDE DEF Exact
  <1>4. T = {}
    <2> SUFFICES ASSUME T # {} PROVE FALSE
      OBVIOUS
    <2>1. PICK e \in T : \A k \in T : e <= k
      <3>1. T \in SUBSET Nat /\ T # {}
        OBVIOUS
      <3> HIDE DEF T
      <3>2. QED
        BY <3>1, LeastElement
    <2>2. e # first /\ e - 1 \in first..end /\ e - 1 \notin T
      BY <1>2, <2>1
    <2>3. QED
      BY <1>3, <2>1, <2>2
  <1>5. Exact(end)
    BY <1>4
  <1>6. QED
    BY <1>5 DEF Exact

-----------------------------------------------------------------------------
(* All pointers between two neighbouring starts have one block.            *)
LEMMA BlockSpan ==
    ASSUME NEW code \in Seq(Instruction), NEW labelled,
           NEW first \in 1..Len(code), NEW end \in (first + 1)..(Len(code) + 1),
           StartsBlock(code, labelled, first), StartsBlock(code, labelled, end),
           \A i \in (first + 1)..(end - 1) : ~StartsBlock(code, labelled, i),
           NEW pc \in first..(end - 1)
    PROVE  /\ pc \in 1..Len(code)
           /\ BlockStart(code, labelled, pc) = first
           /\ BlockEnd(code, labelled, pc) = end
  <1>1. pc \in 1..Len(code) /\ first \in Nat /\ end \in Nat /\ pc \in Nat /\ Len(code) \in Nat
    OBVIOUS
  <1>2. /\ BlockStart(code, labelled, pc) \in 1..pc
        /\ StartsBlock(code, labelled, BlockStart(code, labelled, pc))
        /\ \A i \in (BlockStart(code, labelled, pc) + 1)..pc : ~StartsBlock(code, labelled, i)
    BY <1>1, BlockStartFacts
  <1>3. /\ BlockEnd(code, labelled, pc) \in (pc + 1)..(Len(code) + 1)
        /\ StartsBlock(code, labelled, BlockEnd(code, labelled, pc))
        /\ \A i \in (pc + 1)..(BlockEnd(code, labelled, pc) - 1) :
              ~StartsBlock(code, labelled, i)
    BY <1>1, BlockEndFacts
  <1> DEFINE b == BlockStart(code, labelled, pc)
             e == BlockEnd(code, labelled, pc)
  <1> HIDE DEF b, e
  <1>4. b \in 1..pc /\ StartsBlock(code, labelled, b)
        /\ \A i \in (b + 1)..pc : ~StartsBlock(code, labelled, i)
    BY <1>2 DEF b
  <1>5. e \in (pc + 1)..(Len(code) + 1) /\ StartsBlock(code, labelled, e)
        /\ \A i \in (pc + 1)..(e - 1) : ~StartsBlock(code, labelled, i)
    BY <1>3 DEF e
  <1>6. ~(b < first)
    <2> SUFFICES ASSUME b < first PROVE FALSE
      OBVIOUS
    <2>1. first \in (b + 1)..pc
      BY <1>1, <1>4
    <2>2. QED
      BY <1>4, <2>1
  <1>7. ~(first < b)
    <2> SUFFICES ASSUME first < b PROVE FALSE
      OBVIOUS
    <2>1. b \in (first + 1)..(end - 1)
      BY <1>1, <1>4
    <2>2. QED
      BY <1>4, <2>1
  <1>8. ~(e < end)
    <2> SUFFICES ASSUME e < end PROVE FALSE
      OBVIOUS
    <2>1. e \in (first + 1)..(end - 1)
      BY <1>1, <1>5
    <2>2. QED
      BY <1>5, <2>1
  <1>9. ~(end < e)
    <2> SUFFICES ASSUME end < e PROVE FALSE
      OBVIOUS
    <2>1. end \in (pc + 1)..(e - 1)
      BY <1>1, <1>5
    <2>2. QED
      BY <1>5, <2>1
  <1>10. b = first /\ e = end
    BY <1>1, <1>4, <1>5, <1>6, <1>7, <1>8, <1>9
  <1>11. QED
    BY <1>1, <1>10 DEF b, e

(* What a run of one instruction class from first to end - 1 is folded to. *)
RunBlock(m, code, kind, first, end) ==
    [kind |-> kind, end |-> end,
     delta |-> CASE kind = "values" ->
                        Remainder(Occurrences(code, "inc", first..(end - 1))
                                      - Occurrences(code, "dec", first..(end - 1)),
                                  m.max_value + 1)
                 [] kind = "pointers" ->
                        Occurrences(code, "right", first..(end - 1))
                            - Occurrences(code, "left", first..(end - 1))
                 [] kind = "single" -> 0,
     low |-> IF kind = "pointers" THEN ClampedMoves(m, code, first, end, 0) ELSE 0,
     high |-> IF kind = "pointers"
              THEN ClampedMoves(m, code, first, end, m.memory_size - 1)
              ELSE m.memory_size - 1]

LEMMA FoldedSpan ==
    ASSUME NEW code \in Seq(Instruction), NEW labelled, NEW m,
           NEW first \in 1..Len(code), NEW end \in (first + 1)..(Len(code) + 1),
           StartsBlock(code, labelled, first), StartsBlock(code, labelled, end),
           \A i \in (first + 1)..(end - 1) : ~StartsBlock(code, labelled, i),
           NEW pc \in first..(end - 1)
    PROVE  FoldedBlock(code, labelled, m, pc)
             = RunBlock(m, code, InstrClass(code[first]), first, end)
  <1>1. /\ BlockStart(code, labelled, pc) = first
        /\ BlockEnd(code, labelled, pc) = end
    BY BlockSpan
  <1>2. InstrClass(code[pc]) = InstrClass(code[first])
    <2> DEFINE last == end - 1
    <2>1. /\ last \in first..Len(code) /\ pc \in first..last
          /\ Unbroken(code, labelled, first, last)
      BY DEF Unbroken
    <2> HIDE DEF last
    <2>2. \A i \in first..last : InstrClass(code[i]) = InstrClass(code[first])
      BY <2>1, OneClass
    <2>3. QED
      BY <2>1, <2>2
  <1>3. QED
    BY <1>1, <1>2 DEF FoldedBlock, RunBlock

-----------------------------------------------------------------------------
(* The states of the graph of a program p, and what the updates do to one. *)
Model(p) == p.memory_model
Labelled(p) == {label[1] : label \in p.labels}
BudgetValues == Nat \cup {NoValue}
Tapes(p) == [Cells(Model(p)) -> CellValues(Model(p))]

State(pc, mem_ptr, tape, budget) ==
    [pc |-> pc, mem_ptr |-> mem_ptr, memory |-> tape, remaining |-> budget]

IsState(p, s) ==
    /\ s = State(s.pc, s.mem_ptr, s.memory, s.remaining)
    /\ s.pc \in 1..(Len(p.ops) + 1)
    /\ s.mem_ptr \in Cells(Model(p))
    /\ s.memory \in Tapes(p)
    /\ s.remaining \in BudgetValues

Budget(s, left) == [s EXCEPT !.remaining = left]

LEMMA StateFields ==
    ASSUME NEW pc, NEW ptr, NEW tape, NEW budget
    PROVE  /\ State(pc, ptr, tape, budget).pc = pc
           /\ State(pc, ptr, tape, budget).mem_ptr = ptr
           /\ State(pc, ptr, tape, budget).memory = tape
           /\ State(pc, ptr, tape, budget).remaining = budget
  BY DEF State

LEMMA GotoState ==
    ASSUME NEW pc, NEW ptr, NEW tape, NEW budget, NEW next
    PROVE  Goto(State(pc, ptr, tape, budget), next) = State(next, ptr, tape, budget)
  BY DEF Goto, State

LEMMA PointState ==
    ASSUME NEW pc, NEW ptr, NEW tape, NEW budget, NEW next, NEW q
    PROVE  Point(State(pc, ptr, tape, budget), q, next) = State(next, q, tape, budget)
  <1>1. [State(next, ptr, tape, budget) EXCEPT !.mem_ptr = q] = State(next, q, tape, budget)
    BY DEF State
  <1>2. QED
    BY <1>1, GotoState DEF Point

LEMMA WriteState ==
    ASSUME NEW pc, NEW ptr, NEW tape, NEW budget, NEW next, NEW value
    PROVE  Write(State(pc, ptr, tape, budget), value, next)
             = State(next, ptr, [tape EXCEPT ![ptr] = value], budget)
  <1>1. [State(next, ptr, tape, budget)
            EXCEPT !.memory[State(pc, ptr, tape, budget).mem_ptr] = value]
          = State(next, ptr, [tape EXCEPT ![ptr] = value], budget)
    BY DEF State
  <1>2. QED
    BY <1>1, GotoState DEF Write

LEMMA BudgetState ==
    ASSUME NEW pc, NEW ptr, NEW tape, NEW budget, NEW left
    PROVE  Budget(State(pc, ptr, tape, budget), left) = State(pc, ptr, tape, left)
  BY DEF State, Budget

(* The results of the updates, for a state of the graph.                   *)
LEMMA Gone ==
    ASSUME NEW p, NEW s, IsState(p, s), NEW next
    PROVE  Goto(s, next) = State(next, s.mem_ptr, s.memory, s.remaining)
  BY GotoState DEF IsState

LEMMA Pointed ==
    ASSUME NEW p, NEW s, IsState(p, s), NEW next, NEW q
    PROVE  Point(s, q, next) = State(next, q, s.memory, s.remaining)
  BY PointState DEF IsState

LEMMA Written ==
    ASSUME NEW p, NEW s, IsState(p, s), NEW next, NEW value
    PROVE  Write(s, value, next)
             = State(next, s.mem_ptr, [s.memory EXCEPT ![s.mem_ptr] = value], s.remaining)
  BY WriteState DEF IsState

LEMMA Budgeted ==
    ASSUME NEW p, NEW s, IsState(p, s), NEW next, NEW value, NEW left
    PROVE  Budget(Write(s, value, next), left)
             = State(next, s.mem_ptr, [s.memory EXCEPT ![s.mem_ptr] = value], left)
  BY Written, BudgetState

LEMMA MadeState ==
    ASSUME NEW p, NEW pc \in 1..(Len(p.ops) + 1), NEW ptr \in Cells(Model(p)),
           NEW tape \in Tapes(p), NEW budget \in BudgetValues
    PROVE  IsState(p, State(pc, ptr, tape, budget))
  BY StateFields DEF IsState

LEMMA WrittenTape ==
    ASSUME NEW p, NEW tape \in Tapes(p), NEW ptr \in Cells(Model(p)),
           NEW value \in CellValues(Model(p))
    PROVE  [tape EXCEPT ![ptr] = value] \in Tapes(p)
  BY DEF Tapes

-----------------------------------------------------------------------------
(* What is known of a parsed program.                                      *)
LEMMA ProgramFacts ==
    ASSUME NEW p, IsProgram(p)
    PROVE  /\ p.ops \in Seq(Instruction)
           /\ Len(p.ops) \in Nat
           /\ Balanced(p.ops)
           /\ IsModel(Model(p))
           /\ MaxChar <= Model(p).max_value
           /\ IsIOModel(p.io_model)
           /\ p.jumps = JumpTable(p.ops)
           /\ p.blocks = FoldedTable(p.ops, Labelled(p), Model(p))
  <1>1. p = ParsedProgram(p.ops, p.labels, p.memory_model, p.io_model)
    BY DEF IsProgram
  <1>2. p.jumps = JumpTable(p.ops) /\ p.blocks = FoldedTable(p.ops, Labelled(p), Model(p))
    BY <1>1 DEF ParsedProgram, Labelled, Model
  <1>3. QED
    BY <1>2, MaxCharAssumption DEF IsProgram, Model, IsModel

LEMMA TapeFacts ==
    ASSUME NEW p, IsProgram(p)
    PROVE  /\ Model(p).memory_size \in Nat \ {0}
           /\ Model(p).max_value \in Nat
           /\ Cells(Model(p)) \subseteq Nat
           /\ CellValues(Model(p)) \subseteq Nat
           /\ 0 \in Cells(Model(p))
           /\ 0 \in CellValues(Model(p))
  BY ProgramFacts, HalfWordAssumption DEF IsModel, Cells, CellValues, Word

(* The content of the current cell.                                        *)
LEMMA CurrentContent ==
    ASSUME NEW p, NEW s, IsState(p, s)
    PROVE  /\ CurrentCell(s) = s.memory[s.mem_ptr]
           /\ CurrentCell(s) \in CellValues(Model(p))
  BY DEF IsState, Tapes, CurrentCell, Content

(* Jumps lead behind a bracket.                                            *)
LEMMA Jumps ==
    ASSUME NEW p, IsProgram(p), NEW pc \in 1..Len(p.ops), p.ops[pc] \in {"fwd", "bwd"}
    PROVE  /\ jump_target(p, pc) \in 2..(Len(p.ops) + 1)
           /\ StartsBlock(p.ops, Labelled(p), jump_target(p, pc))
  <1> DEFINE partner == Partner(p.ops, pc)
  <1>1. /\ p.ops \in Seq(Instruction) /\ Balanced(p.ops) /\ Len(p.ops) \in Nat
        /\ p.jumps = JumpTable(p.ops)
    BY ProgramFacts
  <1>2. pc \in Brackets(p.ops)
    BY DEF Brackets
  <1>3. partner \in Brackets(p.ops) /\ JumpTable(p.ops)[pc] = partner + 1
    BY <1>1, <1>2, PartnerFacts
  <1>4. partner \in 1..Len(p.ops) /\ p.ops[partner] \in {"fwd", "bwd"}
    BY <1>3 DEF Brackets
  <1> HIDE DEF partner
  <1>5. InstrClass(p.ops[partner]) = "single"
    BY <1>4 DEF InstrClass, is_value_instruction, is_pointer_instruction
  <1>6. (partner + 1) - 1 = partner
    BY <1>4
  <1>7. StartsBlock(p.ops, Labelled(p), partner + 1)
    BY <1>5, <1>6 DEF StartsBlock
  <1>8. QED
    BY <1>1, <1>3, <1>4, <1>7 DEF jump_target

(* The entry of the block table.                                           *)
LEMMA Entry ==
    ASSUME NEW p, IsProgram(p), NEW pc \in 1..Len(p.ops)
    PROVE  /\ block_at(p, pc).kind = InstrClass(p.ops[pc])
           /\ block_at(p, pc).end = BlockEnd(p.ops, Labelled(p), pc)
           /\ BlockEnd(p.ops, Labelled(p), pc) \in (pc + 1)..(Len(p.ops) + 1)
           /\ StartsBlock(p.ops, Labelled(p), BlockEnd(p.ops, Labelled(p), pc))
           /\ Unbroken(p.ops, Labelled(p), pc, BlockEnd(p.ops, Labelled(p), pc) - 1)
  <1>1. p.ops \in Seq(Instruction) /\ p.blocks = FoldedTable(p.ops, Labelled(p), Model(p))
    BY ProgramFacts
  <1>2. block_at(p, pc) = FoldedBlock(p.ops, Labelled(p), Model(p), pc)
    BY <1>1 DEF block_at, FoldedTable
  <1>3. QED
    BY <1>1, <1>2, BlockEndFacts DEF FoldedBlock, Unbroken

LEMMA EntryAtStart ==
    ASSUME NEW p, IsProgram(p), NEW pc \in 1..Len(p.ops),
           StartsBlock(p.ops, Labelled(p), pc)
    PROVE  block_at(p, pc)
             = RunBlock(Model(p), p.ops, InstrClass(p.ops[pc]), pc,
                        BlockEnd(p.ops, Labelled(p), pc))
  <1> DEFINE stop == BlockEnd(p.ops, Labelled(p), pc)
  <1>1. p.ops \in Seq(Instruction) /\ p.blocks = FoldedTable(p.ops, Labelled(p), Model(p))
    BY ProgramFacts
  <1>2. /\ stop \in (pc + 1)..(Len(p.ops) + 1)
        /\ StartsBlock(p.ops, Labelled(p), stop)
        /\ \A i \in (pc + 1)..(stop - 1) : ~StartsBlock(p.ops, Labelled(p), i)
    BY Entry DEF Unbroken
  <1>3. block_at(p, pc) = FoldedBlock(p.ops, Labelled(p), Model(p), pc)
    BY <1>1 DEF block_at, FoldedTable
  <1> HIDE DEF stop
  <1>4. pc \in pc..(stop - 1)
    BY <1>2
  <1>5. FoldedBlock(p.ops, Labelled(p), Model(p), pc)
          = RunBlock(Model(p), p.ops, InstrClass(p.ops[pc]), pc, stop)
    BY <1>1, <1>2, <1>4, FoldedSpan
  <1>6. QED
    BY <1>3, <1>5 DEF stop

-----------------------------------------------------------------------------
(* The values that a read can put in the cell, each once, and the budget   *)
(* that it leaves.                                                         *)
LEMMA Chars ==
    ASSUME NEW io, IsIOModel(io), NEW left \in BudgetValues
    PROVE  /\ get_possible_chars(io, left) \in Seq(Char)
           /\ \A i, j \in DOMAIN get_possible_chars(io, left) :
                 get_possible_chars(io, left)[i] = get_possible_chars(io, left)[j] => i = j
  <1> DEFINE chars == get_possible_chars(io, left)
  <1>1. /\ io.eof_char \in Char
        /\ has_input(io) => io.input \in Seq(Char) /\ Len(io.input) \in Nat
    BY DEF IsIOModel, has_input
  <1>2. MaxChar \in Nat /\ NoValue \notin Nat
    BY MaxCharAssumption, NoValueAssumption
  <1>3. AllPossibleChars \in Seq(Char) /\ DOMAIN AllPossibleChars = 1..(MaxChar + 1)
        /\ \A i \in 1..(MaxChar + 1) : AllPossibleChars[i] = i - 1
    <2>1. MaxChar + 1 \in Nat
      BY <1>2
    <2>2. \A i \in 1..(MaxChar + 1) : i - 1 \in Char
      BY <1>2 DEF Char
    <2>3. QED
      BY <2>1, <2>2 DEF AllPossibleChars
  <1>4. AtEof(io) = << >> \/ \E char \in Char : AtEof(io) = <<char>>
    BY <1>1 DEF AtEof
  <1>5. CASE has_input(io) /\ PinnedRemaining(io, left) > 0
    <2>1. PinnedRemaining(io, left) \in 1..Len(io.input)
      BY <1>1, <1>2, <1>5 DEF PinnedRemaining, BudgetValues
    <2>2. PinnedByte(io, PinnedRemaining(io, left)) \in Char
      BY <1>1, <1>5, <2>1 DEF PinnedByte
    <2>3. chars = <<PinnedByte(io, PinnedRemaining(io, left))>>
      BY <1>5 DEF get_possible_chars
    <2>4. \E char \in Char : chars = <<char>>
      BY <2>2, <2>3
    <2> HIDE DEF chars
    <2>5. chars \in Seq(Char) /\ \A i, j \in DOMAIN chars : chars[i] = chars[j] => i = j
      BY <2>4
    <2>6. QED
      BY <2>5 DEF chars
  <1>6. CASE chars = AtEof(io)
    <2> HIDE DEF chars
    <2>1. chars \in Seq(Char) /\ \A i, j \in DOMAIN chars : chars[i] = chars[j] => i = j
      <3>1. chars = << >> \/ \E char \in Char : chars = <<char>>
        BY <1>4, <1>6
      <3>2. CASE chars = << >>
        BY <3>2
      <3>3. CASE \E char \in Char : chars = <<char>>
        BY <3>3
      <3>4. QED
        BY <3>1, <3>2, <3>3
    <2>2. QED
      BY <2>1 DEF chars
  <1>7. CASE chars = AllPossibleChars
    <2> HIDE DEF chars
    <2>1. chars \in Seq(Char) /\ \A i, j \in DOMAIN chars : chars[i] = chars[j] => i = j
      BY <1>2, <1>3, <1>7
    <2>2. QED
      BY <2>1 DEF chars
  <1>8. QED
    BY <1>5, <1>6, <1>7 DEF get_possible_chars

ReadValues(p, s) ==
    LET chars == get_possible_chars(p.io_model, s.remaining)
    IN  IF chars = << >> THEN <<CurrentCell(s)>>
        ELSE [i \in DOMAIN chars |-> normalize_value(Model(p), chars[i])]

BudgetLeft(s) ==
    IF s.remaining # NoValue /\ s.remaining > 0 THEN s.remaining - 1 ELSE s.remaining

ReadTo(s, value) ==
    State(s.pc + 1, s.mem_ptr, [s.memory EXCEPT ![s.mem_ptr] = value], BudgetLeft(s))

LEMMA ValuesRead ==
    ASSUME NEW p, IsProgram(p), NEW s, IsState(p, s)
    PROVE  /\ ReadValues(p, s) \in Seq(CellValues(Model(p)))
           /\ ReadValues(p, s) # << >>
           /\ \A i, j \in DOMAIN ReadValues(p, s) :
                 ReadValues(p, s)[i] = ReadValues(p, s)[j] => i = j
  <1> DEFINE chars == get_possible_chars(p.io_model, s.remaining)
             values == ReadValues(p, s)
             V == CellValues(Model(p))
  <1>1. s.remaining \in BudgetValues /\ IsIOModel(p.io_model)
    BY ProgramFacts DEF IsState
  <1>2. chars \in Seq(Char) /\ \A i, j \in DOMAIN chars : chars[i] = chars[j] => i = j
    BY <1>1, Chars
  <1>3. ASSUME NEW char \in Char
        PROVE  normalize_value(Model(p), char) = char /\ char \in V
    <2>1. char \in 0..Model(p).max_value /\ Model(p).max_value \in Nat
      BY ProgramFacts, TapeFacts, MaxCharAssumption DEF Char
    <2>2. char % (Model(p).max_value + 1) = char
      BY <2>1
    <2>3. QED
      BY <2>1, <2>2 DEF normalize_value, CellValues
  <1>4. CurrentCell(s) \in V
    BY CurrentContent
  <1>5. CASE chars = << >>
    <2>1. values = <<CurrentCell(s)>>
      BY <1>5 DEF ReadValues
    <2> HIDE DEF values, V
    <2>2. /\ values \in Seq(V) /\ values # << >>
          /\ \A i, j \in DOMAIN values : values[i] = values[j] => i = j
      BY <1>4, <2>1
    <2>3. QED
      BY <2>2 DEF values, V
  <1>6. CASE chars # << >>
    <2>1. values = [i \in DOMAIN chars |-> normalize_value(Model(p), chars[i])]
      BY <1>6 DEF ReadValues
    <2>2. DOMAIN chars = 1..Len(chars) /\ Len(chars) \in Nat
          /\ \A i \in DOMAIN chars : chars[i] \in Char
      BY <1>2
    <2>3. DOMAIN values = DOMAIN chars /\ \A i \in DOMAIN chars : values[i] = chars[i]
      BY <1>3, <2>1, <2>2
    <2>4. values \in Seq(V)
      <3>1. \A i \in 1..Len(chars) : normalize_value(Model(p), chars[i]) \in V
        BY <1>3, <2>2
      <3> HIDE DEF V, chars
      <3>2. [i \in 1..Len(chars) |-> normalize_value(Model(p), chars[i])] \in Seq(V)
        BY <2>2, <3>1
      <3>3. QED
        BY <2>1, <2>2, <3>2
    <2>5. Len(chars) # 0
      BY <1>2, <1>6
    <2>6. 1 \in DOMAIN values
      BY <2>2, <2>3, <2>5
    <2> HIDE DEF values, V, chars
    <2>7. values # << >>
      BY <2>6
    <2>8. \A i, j \in DOMAIN values : values[i] = values[j] => i = j
      BY <1>2, <2>3
    <2>9. QED
      BY <2>4, <2>7, <2>8 DEF values, V
  <1>7. QED
    BY <1>5, <1>6

LEMMA ReadStates ==
    ASSUME NEW p, IsProgram(p), NEW s, IsState(p, s), s.pc \in 1..Len(p.ops)
    PROVE  /\ ReadSuccessors(p, s)
                = [i \in DOMAIN ReadValues(p, s) |-> ReadTo(s, ReadValues(p, s)[i])]
           /\ \A value \in CellValues(Model(p)) : IsState(p, ReadTo(s, value))
           /\ \A v, w : ReadTo(s, v) = ReadTo(s, w) => v = w
  <1>1. \A value : [Write(s, value, s.pc + 1) EXCEPT !.remaining = BudgetLeft(s)]
                     = ReadTo(s, value)
    BY Budgeted DEF Budget, ReadTo
  <1>2. ReadSuccessors(p, s)
          = [i \in DOMAIN ReadValues(p, s) |->
                [Write(s, ReadValues(p, s)[i], s.pc + 1) EXCEPT !.remaining = BudgetLeft(s)]]
    BY DEF ReadSuccessors, ReadValues, BudgetLeft, Model
  <1>3. ReadSuccessors(p, s)
          = [i \in DOMAIN ReadValues(p, s) |-> ReadTo(s, ReadValues(p, s)[i])]
    BY <1>1, <1>2
  <1>4. ASSUME NEW value \in CellValues(Model(p))
        PROVE  IsState(p, ReadTo(s, value))
    <2>1. BudgetLeft(s) \in BudgetValues
      BY NoValueAssumption DEF IsState, BudgetLeft, BudgetValues
    <2>2. s.pc + 1 \in 1..(Len(p.ops) + 1)
      BY ProgramFacts
    <2>3. [s.memory EXCEPT ![s.mem_ptr] = value] \in Tapes(p) /\ s.mem_ptr \in Cells(Model(p))
      BY WrittenTape DEF IsState
    <2>4. QED
      BY <2>1, <2>2, <2>3, MadeState DEF ReadTo
  <1>5. ASSUME NEW v, NEW w, ReadTo(s, v) = ReadTo(s, w)
        PROVE  v = w
    <2>1. [s.memory EXCEPT ![s.mem_ptr] = v] = [s.memory EXCEPT ![s.mem_ptr] = w]
      BY <1>5, StateFields DEF ReadTo
    <2>2. s.mem_ptr \in DOMAIN s.memory
      BY DEF IsState, Tapes
    <2>3. /\ [s.memory EXCEPT ![s.mem_ptr] = v][s.mem_ptr] = v
          /\ [s.memory EXCEPT ![s.mem_ptr] = w][s.mem_ptr] = w
      BY <2>2
    <2>4. QED
      BY <2>1, <2>3
  <1>6. QED
    BY <1>3, <1>4, <1>5

-----------------------------------------------------------------------------
(* The successors of a single instruction.                                 *)
LEMMA Steps ==
    ASSUME NEW p, IsProgram(p), NEW s, IsState(p, s)
    PROVE  /\ pointer_left(Model(p), s.mem_ptr) \in Cells(Model(p))
           /\ pointer_right(Model(p), s.mem_ptr) \in Cells(Model(p))
           /\ next_value(Model(p), CurrentCell(s)) \in CellValues(Model(p))
           /\ prev_value(Model(p), CurrentCell(s)) \in CellValues(Model(p))
  BY ProgramFacts, CurrentContent, ValueSteps, PointerSteps DEF IsState

(* Where a transition may end that is not a folded block.                  *)
Follows(p, s, t) ==
    /\ IsState(p, t)
    /\ t.pc = s.pc + 1 \/ StartsBlock(p.ops, Labelled(p), t.pc)

LEMMA OneSuccessor ==
    ASSUME NEW p, IsProgram(p), NEW s, IsState(p, s), s.pc \in 1..Len(p.ops),
           p.ops[s.pc] # "get"
    PROVE  \E t : SingleSuccessors(p, s) = <<t>> /\ Follows(p, s, t)
  <1> DEFINE instr == p.ops[s.pc]
             next == s.pc + 1
             cell == CurrentCell(s)
             m == Model(p)
  <1>1. /\ next \in 1..(Len(p.ops) + 1)
        /\ s.mem_ptr \in Cells(m) /\ s.memory \in Tapes(p) /\ s.remaining \in BudgetValues
    BY ProgramFacts DEF IsState
  <1>2. instr \in Instruction
    BY ProgramFacts
  <1>3. ASSUME NEW q \in Cells(m)
        PROVE  Follows(p, s, Point(s, q, next))
    BY <1>1, Pointed, MadeState, StateFields DEF Follows
  <1>4. ASSUME NEW value \in CellValues(m)
        PROVE  Follows(p, s, Write(s, value, next))
    <2>1. [s.memory EXCEPT ![s.mem_ptr] = value] \in Tapes(p)
      BY <1>1, WrittenTape
    <2>2. QED
      BY SMTT(30), <1>1, <2>1, Written, MadeState, StateFields DEF Follows
  <1>5. Follows(p, s, Goto(s, next))
    BY <1>1, Gone, MadeState, StateFields DEF Follows
  <1>6. CASE instr = "left"
    BY <1>3, <1>6, Steps DEF SingleSuccessors, Model
  <1>7. CASE instr = "right"
    BY <1>3, <1>7, Steps DEF SingleSuccessors, Model
  <1>8. CASE instr = "inc"
    BY <1>4, <1>8, Steps DEF SingleSuccessors, Model
  <1>9. CASE instr = "dec"
    BY <1>4, <1>9, Steps DEF SingleSuccessors, Model
  <1>10. CASE instr = "put"
    BY <1>5, <1>10 DEF SingleSuccessors
  <1>11. CASE instr \in {"fwd", "bwd"}
    <2>1. /\ jump_target(p, s.pc) \in 2..(Len(p.ops) + 1)
          /\ StartsBlock(p.ops, Labelled(p), jump_target(p, s.pc))
      BY <1>11, Jumps
    <2>2. Follows(p, s, Goto(s, jump_target(p, s.pc)))
      <3> DEFINE target == jump_target(p, s.pc)
      <3>1. target \in 1..(Len(p.ops) + 1)
        BY <2>1
      <3> HIDE DEF target
      <3>2. Goto(s, target) = State(target, s.mem_ptr, s.memory, s.remaining)
        BY Gone
      <3>3. IsState(p, Goto(s, target)) /\ Goto(s, target).pc = target
        BY <1>1, <3>1, <3>2, MadeState, StateFields
      <3>4. QED
        BY <2>1, <3>3 DEF Follows, target
    <2>3. \/ SingleSuccessors(p, s) = <<Goto(s, next)>>
          \/ SingleSuccessors(p, s) = <<Goto(s, jump_target(p, s.pc))>>
      BY <1>11 DEF SingleSuccessors
    <2>4. QED
      BY <1>5, <2>2, <2>3
  <1>12. QED
    BY <1>2, <1>6, <1>7, <1>8, <1>9, <1>10, <1>11 DEF Instruction

LEMMA SingleFacts ==
    ASSUME NEW p, IsProgram(p), NEW s, IsState(p, s), s.pc \in 1..Len(p.ops)
    PROVE  /\ SingleSuccessors(p, s) # << >>
           /\ Len(SingleSuccessors(p, s)) > 1 => p.ops[s.pc] = "get"
           /\ IsInjective(SingleSuccessors(p, s))
           /\ \A i \in DOMAIN SingleSuccessors(p, s) : Follows(p, s, SingleSuccessors(p, s)[i])
  <1> DEFINE successors == SingleSuccessors(p, s)
             V == CellValues(Model(p))
             values == ReadValues(p, s)
  <1>1. CASE p.ops[s.pc] # "get"
    <2>1. PICK t : successors = <<t>> /\ Follows(p, s, t)
      BY <1>1, OneSuccessor
    <2> HIDE DEF successors
    <2>2. /\ successors # << >> /\ Len(successors) = 1 /\ DOMAIN successors = {1}
          /\ successors[1] = t
      BY <2>1
    <2>3. IsInjective(successors)
      BY <2>2 DEF IsInjective
    <2>4. QED
      BY <2>1, <2>2, <2>3 DEF successors
  <1>2. CASE p.ops[s.pc] = "get"
    <2>1. successors = ReadSuccessors(p, s)
      BY <1>2 DEF SingleSuccessors
    <2>2. successors = [i \in DOMAIN values |-> ReadTo(s, values[i])]
      BY <2>1, ReadStates
    <2>3. /\ values \in Seq(V) /\ values # << >>
          /\ \A i, j \in DOMAIN values : values[i] = values[j] => i = j
      BY ValuesRead
    <2>4. /\ \A value \in V : IsState(p, ReadTo(s, value))
          /\ \A v, w : ReadTo(s, v) = ReadTo(s, w) => v = w
      BY ReadStates
    <2>5. \A value : ReadTo(s, value).pc = s.pc + 1
      BY StateFields DEF ReadTo
    <2> HIDE DEF successors, V, values
    <2>6. DOMAIN values # {} /\ \A i \in DOMAIN values : values[i] \in V
      BY <2>3
    <2>7. successors # << >>
      BY <2>2, <2>6
    <2>8. IsInjective(successors)
      BY <2>2, <2>3, <2>4 DEF IsInjective
    <2>9. \A i \in DOMAIN successors : Follows(p, s, successors[i])
      BY <2>2, <2>4, <2>5, <2>6 DEF Follows
    <2>10. QED
      BY <1>2, <2>7, <2>8, <2>9 DEF successors
  <1>3. QED
    BY <1>1, <1>2

-----------------------------------------------------------------------------
(* The unfolded path through a block is defined by recursion; it exists.   *)
NextUnfolded(p, t) == Successors(p, "none", t)[1]

IsUnfoldedPath(p, s, n, path) ==
    path = [k \in 1..n |-> IF k = 1 THEN s ELSE NextUnfolded(p, path[k - 1])]

LEMMA PathExists ==
    ASSUME NEW p, NEW s, NEW n \in Nat \ {0}
    PROVE  \E path : IsUnfoldedPath(p, s, n, path)
  <1> DEFINE T == {e \in Nat \ {0} : ~ \E path : IsUnfoldedPath(p, s, e, path)}
  <1> SUFFICES ASSUME T # {} PROVE FALSE
    OBVIOUS
  <1>1. PICK e \in T : \A k \in T : e <= k
    <2>1. T \in SUBSET Nat /\ T # {}
      OBVIOUS
    <2> HIDE DEF T
    <2>2. QED
      BY <2>1, LeastElement
  <1>2. e \in Nat \ {0} /\ ~ \E path : IsUnfoldedPath(p, s, e, path)
    OBVIOUS
  <1>3. CASE e = 1
    <2> DEFINE f == [k \in 1..1 |-> s]
    <2>1. IsUnfoldedPath(p, s, e, f)
      BY <1>3 DEF IsUnfoldedPath
    <2>2. QED
      BY <1>2, <2>1
  <1>4. CASE e # 1
    <2>1. e - 1 \in Nat \ {0} /\ e - 1 \notin T
      BY <1>1, <1>2, <1>4
    <2>2. PICK f : IsUnfoldedPath(p, s, e - 1, f)
      BY <2>1
    <2> DEFINE g == [k \in 1..e |-> IF k = e THEN NextUnfolded(p, f[e - 1]) ELSE f[k]]
    <2>3. \A k \in 1..(e - 1) : f[k] = IF k = 1 THEN s ELSE NextUnfolded(p, f[k - 1])
      BY <2>2 DEF IsUnfoldedPath
    <2>4. /\ \A k \in 1..(e - 1) : g[k] = f[k]
          /\ g[e] = NextUnfolded(p, f[e - 1])
          /\ e - 1 \in 1..(e - 1)
      BY <1>2, <2>1
    <2>5. ASSUME NEW k \in 1..e
          PROVE  g[k] = IF k = 1 THEN s ELSE NextUnfolded(p, g[k - 1])
      <3> HIDE DEF g
      <3>1. CASE k = e
        BY <1>4, <2>4, <3>1
      <3>2. CASE k # e
        <4>1. k \in 1..(e - 1) /\ (k # 1 => k - 1 \in 1..(e - 1))
          BY <1>2, <3>2
        <4>2. QED
          BY <2>3, <2>4, <4>1
      <3>3. QED
        BY <3>1, <3>2
    <2>6. IsUnfoldedPath(p, s, e, g)
      <3> DEFINE h == [k \in 1..e |-> IF k = 1 THEN s ELSE NextUnfolded(p, g[k - 1])]
      <3>1. \A k \in 1..e : g[k] = h[k]
        BY <2>5
      <3>2. g = h
        BY <3>1
      <3>3. QED
        BY <3>2 DEF IsUnfoldedPath
    <2>7. QED
      BY <1>2, <2>6
  <1>5. QED
    BY <1>3, <1>4

LEMMA PathSteps ==
    ASSUME NEW p, NEW s, NEW n \in Nat \ {0}, NEW path, IsUnfoldedPath(p, s, n, path)
    PROVE  /\ DOMAIN path = 1..n
           /\ Len(path) = n
           /\ path[1] = s
           /\ \A k \in 2..n : path[k] = NextUnfolded(p, path[k - 1])
  <1>1. path = [k \in 1..n |-> IF k = 1 THEN s ELSE NextUnfolded(p, path[k - 1])]
    BY DEF IsUnfoldedPath
  <1> DEFINE at(k) == IF k = 1 THEN s ELSE NextUnfolded(p, path[k - 1])
  <1>2. path = [k \in 1..n |-> at(k)]
    BY <1>1
  <1> HIDE DEF at
  <1>3. DOMAIN path = 1..n /\ Len(path) = n
    BY <1>2
  <1>4. \A k \in 1..n : path[k] = at(k)
    BY <1>2
  <1>5. QED
    BY <1>3, <1>4 DEF at

-----------------------------------------------------------------------------
(* The states on the path: at an instruction of a value run only the       *)
(* current cell has changed, at one of a pointer run only the pointer.     *)
ValuesAt(p, s, t, at) ==
    \E v \in CellValues(Model(p)) :
        /\ t = State(at, s.mem_ptr, [s.memory EXCEPT ![s.mem_ptr] = v], s.remaining)
        /\ Congruent(s.memory[s.mem_ptr] + Net(p.ops, "inc", "dec", s.pc, at), v,
                     Model(p).max_value + 1)

PointersAt(p, s, t, at) ==
    \E q \in Cells(Model(p)) :
        /\ t = State(at, q, s.memory, s.remaining)
        /\ Model(p).wrapping =>
              Congruent(s.mem_ptr + Net(p.ops, "right", "left", s.pc, at), q,
                        Model(p).memory_size)
        /\ ~Model(p).wrapping => q = ClampedMoves(Model(p), p.ops, s.pc, at, s.mem_ptr)

LEMMA UnfoldedStep ==
    ASSUME NEW p, NEW t, NEW u, t.pc <= Len(p.ops), t.pc \in Nat, Len(p.ops) \in Nat,
           SingleSuccessors(p, t) = <<u>>
    PROVE  /\ NextUnfolded(p, t) = u
           /\ Len(Successors(p, "none", t)) = 1
  <1>1. Successors(p, "none", t) = SingleSuccessors(p, t)
    BY DEF Successors, ChosenBlock, SingleBlock, is_end, instr_count
  <1>2. QED
    BY <1>1 DEF NextUnfolded

LEMMA NetInt ==
    ASSUME NEW code, NEW plus, NEW minus, NEW first \in Nat, NEW next \in Nat
    PROVE  Net(code, plus, minus, first, next) \in Int
  <1>1. next - 1 \in Int
    OBVIOUS
  <1>2. QED
    BY <1>1, OccurrencesNat DEF Net

LEMMA ValuesStart ==
    ASSUME NEW p, IsProgram(p), NEW s, IsState(p, s)
    PROVE  ValuesAt(p, s, s, s.pc)
  <1> DEFINE v == s.memory[s.mem_ptr]
  <1>1. v \in CellValues(Model(p)) /\ v \in Int /\ Model(p).max_value + 1 \in Int
    BY CurrentContent, TapeFacts
  <1>2. [s.memory EXCEPT ![s.mem_ptr] = v] = s.memory
    BY DEF IsState, Tapes
  <1>3. s = State(s.pc, s.mem_ptr, [s.memory EXCEPT ![s.mem_ptr] = v], s.remaining)
    BY <1>2 DEF IsState
  <1>4. Net(p.ops, "inc", "dec", s.pc, s.pc) = 0
    BY NetNone DEF IsState
  <1> HIDE DEF v
  <1>5. Congruent(v + 0, v, Model(p).max_value + 1) /\ v + 0 = v
    BY <1>1, CongruentSelf
  <1>6. QED
    BY <1>1, <1>3, <1>4, <1>5 DEF ValuesAt, v

LEMMA ValuesStep ==
    ASSUME NEW p, IsProgram(p), NEW s, IsState(p, s), NEW at \in s.pc..Len(p.ops),
           p.ops[at] \in {"inc", "dec"}, NEW t, ValuesAt(p, s, t, at)
    PROVE  /\ ValuesAt(p, s, NextUnfolded(p, t), at + 1)
           /\ Len(Successors(p, "none", t)) = 1
  <1> DEFINE m == Model(p)
             n == m.max_value + 1
             sum == s.memory[s.mem_ptr] + Net(p.ops, "inc", "dec", s.pc, at)
             instr == p.ops[at]
  <1>1. PICK v \in CellValues(m) :
          /\ t = State(at, s.mem_ptr, [s.memory EXCEPT ![s.mem_ptr] = v], s.remaining)
          /\ Congruent(sum, v, n)
    BY DEF ValuesAt
  <1>2. /\ IsModel(m) /\ n \in Nat /\ CellValues(m) \subseteq Nat
        /\ s.pc \in Nat /\ at \in Nat /\ s.pc <= at /\ at <= Len(p.ops) /\ Len(p.ops) \in Nat
        /\ at \in 1..Len(p.ops)
    BY ProgramFacts, TapeFacts DEF IsState
  <1>3. /\ t.pc = at /\ t.mem_ptr = s.mem_ptr /\ t.remaining = s.remaining
        /\ t.memory = [s.memory EXCEPT ![s.mem_ptr] = v]
    BY <1>1, StateFields
  <1>4. IsState(p, t)
    <2>1. [s.memory EXCEPT ![s.mem_ptr] = v] \in Tapes(p)
      BY WrittenTape DEF IsState
    <2>2. at \in 1..(Len(p.ops) + 1)
      BY <1>2
    <2>3. QED
      BY <1>1, <2>1, <2>2, MadeState DEF IsState
  <1>5. CurrentCell(t) = v
    <2>1. s.mem_ptr \in DOMAIN s.memory
      BY DEF IsState, Tapes
    <2>2. t.memory[t.mem_ptr] = v
      BY <1>3, <2>1
    <2>3. QED
      BY <1>4, <2>2, CurrentContent
  <1> DEFINE w == IF instr = "inc" THEN next_value(m, v) ELSE prev_value(m, v)
             u == State(at + 1, s.mem_ptr, [s.memory EXCEPT ![s.mem_ptr] = w], s.remaining)
  <1>6. SingleSuccessors(p, t) = <<u>>
    <2>1. Write(t, w, at + 1) = u
      <3>1. [[s.memory EXCEPT ![s.mem_ptr] = v] EXCEPT ![s.mem_ptr] = w]
              = [s.memory EXCEPT ![s.mem_ptr] = w]
        BY DEF IsState, Tapes
      <3> HIDE DEF w
      <3>2. Write(t, w, at + 1)
              = State(at + 1, t.mem_ptr, [t.memory EXCEPT ![t.mem_ptr] = w], t.remaining)
        BY <1>4, Written
      <3>3. QED
        BY <1>3, <3>1, <3>2
    <2>2. SingleSuccessors(p, t) = <<Write(t, w, at + 1)>>
      <3> HIDE DEF u
      <3>1. CASE instr = "inc"
        BY <1>3, <1>5, <3>1 DEF SingleSuccessors, Model
      <3>2. CASE instr = "dec"
        BY <1>3, <1>5, <3>2 DEF SingleSuccessors, Model
      <3>3. QED
        BY <3>1, <3>2
    <2>3. QED
      BY <2>1, <2>2
  <1>7. NextUnfolded(p, t) = u /\ Len(Successors(p, "none", t)) = 1
    BY <1>2, <1>3, <1>6, UnfoldedStep
  <1>8. /\ sum \in Int
        /\ s.memory[s.mem_ptr] + Net(p.ops, "inc", "dec", s.pc, at + 1)
             = IF instr = "inc" THEN sum + 1 ELSE sum - 1
    <2>1. s.memory[s.mem_ptr] \in Int
      BY <1>2, CurrentContent
    <2>2. Net(p.ops, "inc", "dec", s.pc, at) \in Int
      BY <1>2, NetInt
    <2>3. Net(p.ops, "inc", "dec", s.pc, at + 1)
            = IF instr = "inc" THEN Net(p.ops, "inc", "dec", s.pc, at) + 1
              ELSE Net(p.ops, "inc", "dec", s.pc, at) - 1
      BY <1>2, NetNext
    <2>4. QED
      BY <2>1, <2>2, <2>3
  <1>9. /\ w \in CellValues(m)
        /\ Congruent(IF instr = "inc" THEN sum + 1 ELSE sum - 1, w, n)
    <2>1. v \in Int /\ n \in Int
      BY <1>2
    <2>2. /\ next_value(m, v) \in CellValues(m) /\ Congruent(v + 1, next_value(m, v), n)
          /\ prev_value(m, v) \in CellValues(m) /\ Congruent(v - 1, prev_value(m, v), n)
      BY <1>2, ValueSteps
    <2>3. /\ next_value(m, v) \in Int /\ prev_value(m, v) \in Int
          /\ v + (-1) = v - 1 /\ sum + (-1) = sum - 1
          /\ v + 1 \in Int /\ v - 1 \in Int /\ sum + 1 \in Int /\ sum - 1 \in Int
      BY <1>2, <1>8, <2>1, <2>2
    <2> HIDE DEF n, sum, m
    <2>4. Congruent(sum + 1, v + 1, n) /\ Congruent(sum + (-1), v + (-1), n)
      BY <1>1, <1>8, <2>1, CongruentSum
    <2>5. Congruent(sum - 1, v - 1, n)
      BY <2>3, <2>4
    <2>6. /\ Congruent(sum + 1, next_value(m, v), n)
          /\ Congruent(sum - 1, prev_value(m, v), n)
      BY <2>1, <2>2, <2>3, <2>4, <2>5, CongruentTransitive
    <2>7. QED
      BY <2>2, <2>6
  <1>10. ValuesAt(p, s, u, at + 1)
    <2> HIDE DEF w
    <2>1. QED
      BY <1>8, <1>9 DEF ValuesAt
  <1>11. QED
    BY <1>7, <1>10

LEMMA PointersStart ==
    ASSUME NEW p, IsProgram(p), NEW s, IsState(p, s)
    PROVE  PointersAt(p, s, s, s.pc)
  <1> DEFINE q == s.mem_ptr
  <1>1. q \in Cells(Model(p)) /\ q \in Int /\ Model(p).memory_size \in Int
    BY TapeFacts DEF IsState
  <1>2. s = State(s.pc, q, s.memory, s.remaining)
    BY DEF IsState
  <1>3. /\ Net(p.ops, "right", "left", s.pc, s.pc) = 0
        /\ ClampedMoves(Model(p), p.ops, s.pc, s.pc, q) = q
    BY NetNone, ClampedMovesFirst DEF IsState
  <1> HIDE DEF q
  <1>4. Congruent(q + 0, q, Model(p).memory_size) /\ q + 0 = q
    BY <1>1, CongruentSelf
  <1>5. QED
    BY <1>1, <1>2, <1>3, <1>4 DEF PointersAt, q

LEMMA PointersStep ==
    ASSUME NEW p, IsProgram(p), NEW s, IsState(p, s), NEW at \in s.pc..Len(p.ops),
           p.ops[at] \in {"right", "left"}, NEW t, PointersAt(p, s, t, at)
    PROVE  /\ PointersAt(p, s, NextUnfolded(p, t), at + 1)
           /\ Len(Successors(p, "none", t)) = 1
  <1> DEFINE m == Model(p)
             n == m.memory_size
             sum == s.mem_ptr + Net(p.ops, "right", "left", s.pc, at)
             instr == p.ops[at]
  <1>1. PICK q \in Cells(m) :
          /\ t = State(at, q, s.memory, s.remaining)
          /\ m.wrapping => Congruent(sum, q, n)
          /\ ~m.wrapping => q = ClampedMoves(m, p.ops, s.pc, at, s.mem_ptr)
    BY DEF PointersAt
  <1>2. /\ IsModel(m) /\ n \in Nat /\ Cells(m) \subseteq Nat
        /\ s.pc \in Nat /\ at \in Nat /\ s.pc <= at /\ at <= Len(p.ops) /\ Len(p.ops) \in Nat
        /\ at \in 1..Len(p.ops)
    BY ProgramFacts, TapeFacts DEF IsState
  <1>3. /\ t.pc = at /\ t.mem_ptr = q /\ t.remaining = s.remaining /\ t.memory = s.memory
    BY <1>1, StateFields
  <1>4. IsState(p, t)
    <2>1. at \in 1..(Len(p.ops) + 1)
      BY <1>2
    <2>2. QED
      BY <1>1, <2>1, MadeState DEF IsState
  <1> DEFINE w == IF instr = "right" THEN pointer_right(m, q) ELSE pointer_left(m, q)
             u == State(at + 1, w, s.memory, s.remaining)
  <1>5. SingleSuccessors(p, t) = <<u>>
    <2>1. Point(t, w, at + 1) = u
      <3> HIDE DEF w
      <3>1. Point(t, w, at + 1) = State(at + 1, w, t.memory, t.remaining)
        BY <1>4, Pointed
      <3>2. QED
        BY <1>3, <3>1
    <2>2. SingleSuccessors(p, t) = <<Point(t, w, at + 1)>>
      <3> HIDE DEF u
      <3>1. CASE instr = "right"
        BY <1>3, <3>1 DEF SingleSuccessors, Model
      <3>2. CASE instr = "left"
        BY <1>3, <3>2 DEF SingleSuccessors, Model
      <3>3. QED
        BY <3>1, <3>2
    <2>3. QED
      BY <2>1, <2>2
  <1>6. NextUnfolded(p, t) = u /\ Len(Successors(p, "none", t)) = 1
    BY <1>2, <1>3, <1>5, UnfoldedStep
  <1>7. /\ w \in Cells(m)
        /\ m.wrapping => Congruent(IF instr = "right" THEN q + 1 ELSE q - 1, w, n)
    BY <1>2, PointerSteps
  <1>8. ASSUME m.wrapping
        PROVE  Congruent(s.mem_ptr + Net(p.ops, "right", "left", s.pc, at + 1), w, n)
    <2>1. /\ s.mem_ptr \in Int /\ Net(p.ops, "right", "left", s.pc, at) \in Int
          /\ q \in Int /\ w \in Int /\ n \in Int
      BY <1>2, <1>7, NetInt DEF IsState
    <2>2. Net(p.ops, "right", "left", s.pc, at + 1)
            = IF instr = "right" THEN Net(p.ops, "right", "left", s.pc, at) + 1
              ELSE Net(p.ops, "right", "left", s.pc, at) - 1
      BY <1>2, NetNext
    <2>3. /\ sum \in Int
          /\ s.mem_ptr + Net(p.ops, "right", "left", s.pc, at + 1)
               = IF instr = "right" THEN sum + 1 ELSE sum - 1
      BY <2>1, <2>2
    <2>4. Congruent(sum, q, n)
      BY <1>1, <1>8
    <2> HIDE DEF n, sum, m, w
    <2>5. Congruent(sum + 1, q + 1, n) /\ Congruent(sum + (-1), q + (-1), n)
      BY <2>1, <2>3, <2>4, CongruentSum
    <2>6. /\ q + (-1) = q - 1 /\ sum + (-1) = sum - 1
          /\ q + 1 \in Int /\ q - 1 \in Int /\ sum + 1 \in Int /\ sum - 1 \in Int
      BY <2>1, <2>3
    <2>7. Congruent(IF instr = "right" THEN q + 1 ELSE q - 1, w, n)
      BY <1>7, <1>8
    <2>8. Congruent(IF instr = "right" THEN sum + 1 ELSE sum - 1, w, n)
      <3>1. CASE instr = "right"
        BY <2>1, <2>5, <2>6, <2>7, <3>1, CongruentTransitive
      <3>2. CASE instr # "right"
        BY <2>1, <2>5, <2>6, <2>7, <3>2, CongruentTransitive
      <3>3. QED
        BY <3>1, <3>2
    <2>9. QED
      BY <2>3, <2>8
  <1>9. ASSUME ~m.wrapping
        PROVE  w = ClampedMoves(m, p.ops, s.pc, at + 1, s.mem_ptr)
    <2>1. ClampedMoves(m, p.ops, s.pc, at + 1, s.mem_ptr) = ClampedMove(m, instr, q)
      BY <1>1, <1>2, <1>9, ClampedMovesNext
    <2>2. ClampedMove(m, instr, q) = w
      BY <1>2, <1>9 DEF ClampedMove, pointer_right, pointer_left, IsModel, Cells
    <2>3. QED
      BY <2>1, <2>2
  <1>10. PointersAt(p, s, u, at + 1)
    <2> HIDE DEF w
    <2>1. QED
      BY <1>7, <1>8, <1>9 DEF PointersAt
  <1>11. QED
    BY <1>6, <1>10

(* The instructions from first to last are of the set S.                   *)
AllIn(code, first, last, instrs) ==
    \A i \in first..last : code[i] \in instrs

LEMMA ValuesPath ==
    ASSUME NEW p, IsProgram(p), NEW s, IsState(p, s), NEW n \in Nat \ {0},
           NEW path, IsUnfoldedPath(p, s, n, path), s.pc + n <= Len(p.ops) + 2,
           AllIn(p.ops, s.pc, s.pc + n - 2, {"inc", "dec"})
    PROVE  /\ \A k \in 1..n : ValuesAt(p, s, path[k], s.pc + k - 1)
           /\ \A k \in 1..(n - 1) : Len(Successors(p, "none", path[k])) = 1
  <1> DEFINE On(k) == ValuesAt(p, s, path[k], s.pc + k - 1)
             T == {k \in 1..n : ~On(k)}
  <1>1. s.pc \in Nat /\ Len(p.ops) \in Nat
    BY ProgramFacts DEF IsState
  <1>2. path[1] = s /\ \A k \in 2..n : path[k] = NextUnfolded(p, path[k - 1])
    <2>1. n \in Nat \ {0} /\ IsUnfoldedPath(p, s, n, path)
      OBVIOUS
    <2>2. path[1] = s
      BY ONLY <2>1, PathSteps
    <2>3. \A k \in 2..n : path[k] = NextUnfolded(p, path[k - 1])
      BY ONLY <2>1, PathSteps
    <2>4. QED
      BY <2>2, <2>3
  <1>3. On(1)
    <2>1. s.pc + 1 - 1 = s.pc
      BY <1>1
    <2>2. ValuesAt(p, s, path[1], s.pc)
      BY <1>2, ValuesStart
    <2>3. QED
      BY <2>1, <2>2
  <1>4. ASSUME NEW k \in 1..(n - 1), On(k)
        PROVE  On(k + 1) /\ Len(Successors(p, "none", path[k])) = 1
    <2> DEFINE at == s.pc + k - 1
    <2>1. /\ at \in s.pc..Len(p.ops) /\ at \in s.pc..(s.pc + n - 2)
          /\ at + 1 = s.pc + (k + 1) - 1
      BY <1>1
    <2>2. p.ops[at] \in {"inc", "dec"}
      BY <2>1 DEF AllIn
    <2>3. ValuesAt(p, s, path[k], at)
      BY <1>4
    <2> HIDE DEF at
    <2>4. /\ ValuesAt(p, s, NextUnfolded(p, path[k]), at + 1)
          /\ Len(Successors(p, "none", path[k])) = 1
      BY <2>1, <2>2, <2>3, ValuesStep
    <2>5. path[k + 1] = NextUnfolded(p, path[k])
      <3>1. k + 1 \in 2..n /\ (k + 1) - 1 = k
        OBVIOUS
      <3>2. QED
        BY <1>2, <3>1
    <2>6. On(k + 1)
      BY <2>1, <2>4, <2>5
    <2>7. QED
      BY <2>4, <2>6
  <1> HIDE DEF On
  <1>5. T = {}
    <2> SUFFICES ASSUME T # {} PROVE FALSE
      OBVIOUS
    <2>1. PICK k \in T : \A j \in T : k <= j
      <3>1. T \in SUBSET Nat /\ T # {}
        OBVIOUS
      <3> HIDE DEF T
      <3>2. QED
        BY <3>1, LeastElement
    <2>2. k # 1 /\ k - 1 \in 1..(n - 1) /\ k - 1 \notin T /\ (k - 1) + 1 = k
      BY <1>3, <2>1
    <2>3. On(k - 1)
      BY <2>2
    <2>4. On((k - 1) + 1)
      BY <1>4, <2>2, <2>3
    <2>5. QED
      BY <2>2, <2>4
  <1>6. \A k \in 1..n : On(k)
    BY <1>5
  <1>7. \A k \in 1..(n - 1) : Len(Successors(p, "none", path[k])) = 1
    BY <1>4, <1>6
  <1>8. QED
    BY <1>6, <1>7 DEF On

LEMMA PointersPath ==
    ASSUME NEW p, IsProgram(p), NEW s, IsState(p, s), NEW n \in Nat \ {0},
           NEW path, IsUnfoldedPath(p, s, n, path), s.pc + n <= Len(p.ops) + 2,
           AllIn(p.ops, s.pc, s.pc + n - 2, {"right", "left"})
    PROVE  /\ \A k \in 1..n : PointersAt(p, s, path[k], s.pc + k - 1)
           /\ \A k \in 1..(n - 1) : Len(Successors(p, "none", path[k])) = 1
  <1> DEFINE On(k) == PointersAt(p, s, path[k], s.pc + k - 1)
             T == {k \in 1..n : ~On(k)}
  <1>1. s.pc \in Nat /\ Len(p.ops) \in Nat
    BY ProgramFacts DEF IsState
  <1>2. path[1] = s /\ \A k \in 2..n : path[k] = NextUnfolded(p, path[k - 1])
    <2>1. n \in Nat \ {0} /\ IsUnfoldedPath(p, s, n, path)
      OBVIOUS
    <2>2. path[1] = s
      BY ONLY <2>1, PathSteps
    <2>3. \A k \in 2..n : path[k] = NextUnfolded(p, path[k - 1])
      BY ONLY <2>1, PathSteps
    <2>4. QED
      BY <2>2, <2>3
  <1>3. On(1)
    <2>1. s.pc + 1 - 1 = s.pc
      BY <1>1
    <2>2. PointersAt(p, s, path[1], s.pc)
      BY <1>2, PointersStart
    <2>3. QED
      BY <2>1, <2>2
  <1>4. ASSUME NEW k \in 1..(n - 1), On(k)
        PROVE  On(k + 1) /\ Len(Successors(p, "none", path[k])) = 1
    <2> DEFINE at == s.pc + k - 1
    <2>1. /\ at \in s.pc..Len(p.ops) /\ at \in s.pc..(s.pc + n - 2)
          /\ at + 1 = s.pc + (k + 1) - 1
      BY <1>1
    <2>2. p.ops[at] \in {"right", "left"}
      BY <2>1 DEF AllIn
    <2>3. PointersAt(p, s, path[k], at)
      BY <1>4
    <2> HIDE DEF at
    <2>4. /\ PointersAt(p, s, NextUnfolded(p, path[k]), at + 1)
          /\ Len(Successors(p, "none", path[k])) = 1
      BY <2>1, <2>2, <2>3, PointersStep
    <2>5. path[k + 1] = NextUnfolded(p, path[k])
      <3>1. k + 1 \in 2..n /\ (k + 1) - 1 = k
        OBVIOUS
      <3>2. QED
        BY <1>2, <3>1
    <2>6. On(k + 1)
      BY <2>1, <2>4, <2>5
    <2>7. QED
      BY <2>4, <2>6
  <1> HIDE DEF On
  <1>5. T = {}
    <2> SUFFICES ASSUME T # {} PROVE FALSE
      OBVIOUS
    <2>1. PICK k \in T : \A j \in T : k <= j
      <3>1. T \in SUBSET Nat /\ T # {}
        OBVIOUS
      <3> HIDE DEF T
      <3>2. QED
        BY <3>1, LeastElement
    <2>2. k # 1 /\ k - 1 \in 1..(n - 1) /\ k - 1 \notin T /\ (k - 1) + 1 = k
      BY <1>3, <2>1
    <2>3. On(k - 1)
      BY <2>2
    <2>4. On((k - 1) + 1)
      BY <1>4, <2>2, <2>3
    <2>5. QED
      BY <2>2, <2>4
  <1>6. \A k \in 1..n : On(k)
    BY <1>5
  <1>7. \A k \in 1..(n - 1) : Len(Successors(p, "none", path[k])) = 1
    BY <1>4, <1>6
  <1>8. QED
    BY <1>6, <1>7 DEF On

-----------------------------------------------------------------------------
(* The block that a transition applies.                                    *)
LEMMA Chosen ==
    ASSUME NEW p, NEW fold \in Folding, NEW pc
    PROVE  \/ /\ ChosenBlock(p, fold, pc) = block_at(p, pc)
              /\ Folds(fold, block_at(p, pc).kind)
           \/ /\ ChosenBlock(p, fold, pc) = SingleBlock(pc)
              /\ ~Folds(fold, block_at(p, pc).kind)
  BY DEF ChosenBlock, Folds, Folding

LEMMA ChosenRun ==
    ASSUME NEW p, IsProgram(p), NEW fold \in Folding, NEW pc \in 1..Len(p.ops),
           ChosenBlock(p, fold, pc).kind # "single",
           NEW stop, stop = ChosenBlock(p, fold, pc).end
    PROVE  /\ ChosenBlock(p, fold, pc) = block_at(p, pc)
           /\ Folds(fold, InstrClass(p.ops[pc]))
           /\ InstrClass(p.ops[pc]) \in {"values", "pointers"}
           /\ stop = BlockEnd(p.ops, Labelled(p), pc)
           /\ stop \in (pc + 1)..(Len(p.ops) + 1)
           /\ StartsBlock(p.ops, Labelled(p), stop)
           /\ Unbroken(p.ops, Labelled(p), pc, stop - 1)
           /\ \A i \in pc..(stop - 1) : InstrClass(p.ops[i]) = InstrClass(p.ops[pc])
  <1>1. ChosenBlock(p, fold, pc) # SingleBlock(pc)
    BY DEF SingleBlock
  <1>2. /\ ChosenBlock(p, fold, pc) = block_at(p, pc)
        /\ Folds(fold, block_at(p, pc).kind)
    BY <1>1, Chosen
  <1>3. /\ block_at(p, pc).kind = InstrClass(p.ops[pc])
        /\ stop = BlockEnd(p.ops, Labelled(p), pc)
    BY <1>2, Entry
  <1>4. /\ stop \in (pc + 1)..(Len(p.ops) + 1)
        /\ StartsBlock(p.ops, Labelled(p), stop)
        /\ Unbroken(p.ops, Labelled(p), pc, stop - 1)
    BY <1>3, Entry
  <1>5. InstrClass(p.ops[pc]) \in {"values", "pointers"}
    BY <1>2, <1>3 DEF InstrClass
  <1>6. \A i \in pc..(stop - 1) : InstrClass(p.ops[i]) = InstrClass(p.ops[pc])
    <2> DEFINE last == stop - 1
    <2>1. last \in pc..Len(p.ops) /\ p.ops \in Seq(Instruction)
      BY <1>4, ProgramFacts
    <2>2. Unbroken(p.ops, Labelled(p), pc, last)
      BY <1>4
    <2> HIDE DEF last
    <2>3. \A i \in pc..last : InstrClass(p.ops[i]) = InstrClass(p.ops[pc])
      BY <2>1, <2>2, OneClass
    <2>4. QED
      BY <2>3 DEF last
  <1>7. QED
    BY <1>2, <1>3, <1>4, <1>5, <1>6

(* A value run as a whole.                                                 *)
LEMMA ValuesFolded ==
    ASSUME NEW p, IsProgram(p), NEW fold \in Folding, NEW s, IsState(p, s),
           s.pc \in 1..Len(p.ops), StartsBlock(p.ops, Labelled(p), s.pc),
           ChosenBlock(p, fold, s.pc).kind # "single",
           InstrClass(p.ops[s.pc]) = "values",
           NEW stop, stop = ChosenBlock(p, fold, s.pc).end,
           NEW t, ValuesAt(p, s, t, stop)
    PROVE  Successors(p, fold, s) = <<t>> /\ IsState(p, t) /\ t.pc = stop
  <1> DEFINE m == Model(p)
             net == Net(p.ops, "inc", "dec", s.pc, stop)
             v == s.memory[s.mem_ptr]
             block == block_at(p, s.pc)
  <1>1. /\ ChosenBlock(p, fold, s.pc) = block
        /\ stop = BlockEnd(p.ops, Labelled(p), s.pc)
        /\ stop \in (s.pc + 1)..(Len(p.ops) + 1)
    BY ChosenRun
  <1>2. block = RunBlock(m, p.ops, "values", s.pc, stop)
    BY <1>1, EntryAtStart
  <1>3. /\ block.kind = "values" /\ block.end = stop
        /\ block.delta = Remainder(net, m.max_value + 1)
    BY <1>2 DEF RunBlock, Net
  <1>4. ~is_end(p, s.pc)
    BY ProgramFacts DEF is_end, instr_count
  <1>5. CurrentCell(s) = v /\ v \in CellValues(m)
    BY CurrentContent
  <1>6. Successors(p, fold, s) = <<Write(s, shift_value(m, v, block.delta), stop)>>
    BY <1>1, <1>3, <1>4, <1>5 DEF Successors, Model
  <1>7. PICK w \in CellValues(m) :
          /\ t = State(stop, s.mem_ptr, [s.memory EXCEPT ![s.mem_ptr] = w], s.remaining)
          /\ Congruent(v + net, w, m.max_value + 1)
    BY DEF ValuesAt
  <1>8. net \in Int
    BY <1>1, ProgramFacts, NetInt
  <1>9. shift_value(m, v, block.delta) = w
    <2>1. IsModel(m)
      BY ProgramFacts
    <2> HIDE DEF net, v, m, block
    <2>2. QED
      BY <2>1, <1>3, <1>5, <1>7, <1>8, ShiftExact
  <1>10. Write(s, w, stop) = t
    BY <1>7, Written
  <1>11. IsState(p, t) /\ t.pc = stop
    <2>1. [s.memory EXCEPT ![s.mem_ptr] = w] \in Tapes(p)
      BY WrittenTape DEF IsState
    <2>2. stop \in 1..(Len(p.ops) + 1)
      BY <1>1
    <2>3. QED
      BY <1>7, <2>1, <2>2, MadeState, StateFields DEF IsState
  <1>12. QED
    BY <1>6, <1>9, <1>10, <1>11

(* A pointer run as a whole, on a tape that is smaller than half a word.   *)
LEMMA PointersFolded ==
    ASSUME NEW p, IsProgram(p), Model(p).memory_size < HalfWord,
           NEW fold \in Folding, NEW s, IsState(p, s),
           s.pc \in 1..Len(p.ops), StartsBlock(p.ops, Labelled(p), s.pc),
           ChosenBlock(p, fold, s.pc).kind # "single",
           InstrClass(p.ops[s.pc]) = "pointers",
           NEW stop, stop = ChosenBlock(p, fold, s.pc).end,
           NEW t, PointersAt(p, s, t, stop)
    PROVE  Successors(p, fold, s) = <<t>> /\ IsState(p, t) /\ t.pc = stop
  <1> DEFINE m == Model(p)
             net == Net(p.ops, "right", "left", s.pc, stop)
             low == ClampedMoves(m, p.ops, s.pc, stop, 0)
             high == ClampedMoves(m, p.ops, s.pc, stop, m.memory_size - 1)
             block == block_at(p, s.pc)
  <1>1. /\ ChosenBlock(p, fold, s.pc) = block
        /\ stop = BlockEnd(p.ops, Labelled(p), s.pc)
        /\ stop \in (s.pc + 1)..(Len(p.ops) + 1)
        /\ \A i \in s.pc..(stop - 1) : InstrClass(p.ops[i]) = "pointers"
    BY ChosenRun
  <1>2. block = RunBlock(m, p.ops, "pointers", s.pc, stop)
    BY <1>1, EntryAtStart
  <1>3. /\ block.kind = "pointers" /\ block.end = stop
        /\ block.delta = net /\ block.low = low /\ block.high = high
    BY <1>2 DEF RunBlock, Net
  <1>4. ~is_end(p, s.pc)
    BY ProgramFacts DEF is_end, instr_count
  <1>5. Successors(p, fold, s)
          = <<Point(s, move_pointer(m, s.mem_ptr, net, low, high), stop)>>
    BY <1>1, <1>3, <1>4 DEF Successors, Model
  <1>6. PICK q \in Cells(m) :
          /\ t = State(stop, q, s.memory, s.remaining)
          /\ m.wrapping => Congruent(s.mem_ptr + net, q, m.memory_size)
          /\ ~m.wrapping => q = ClampedMoves(m, p.ops, s.pc, stop, s.mem_ptr)
    BY DEF PointersAt
  <1>7. net \in Int
    BY <1>1, ProgramFacts, NetInt
  <1>8. /\ IsModel(m) /\ m.memory_size < HalfWord /\ s.mem_ptr \in Cells(m)
        /\ s.pc \in Nat /\ stop \in Nat /\ s.pc <= stop
        /\ 0 \in Cells(m) /\ m.memory_size - 1 \in Cells(m) /\ 0 <= m.memory_size - 1
    BY <1>1, ProgramFacts, TapeFacts DEF IsState, Cells
  <1>9. low \in Cells(m) /\ high \in Cells(m) /\ low <= high
    BY <1>8, ClampedOrder
  <1>10. move_pointer(m, s.mem_ptr, net, low, high) = q
    <2>1. CASE m.wrapping
      <3>1. Congruent(s.mem_ptr + net, q, m.memory_size)
        BY <1>6, <2>1
      <3> HIDE DEF m, net, low, high
      <3>2. QED
        BY <1>7, <1>8, <2>1, <3>1, WrapExact
    <2>2. CASE ~m.wrapping
      <3>1. \A i \in s.pc..(stop - 1) : p.ops[i] \in {"right", "left"}
        BY <1>1, Classes DEF is_pointer_instruction
      <3>2. ClampedMoves(m, p.ops, s.pc, stop, s.mem_ptr)
              = Clamped(s.mem_ptr + net, low, high)
        BY <1>8, <3>1, ClampedRun
      <3>3. q = Clamped(s.mem_ptr + net, low, high)
        BY <1>6, <2>2, <3>2
      <3> HIDE DEF m, net, low, high
      <3>4. QED
        BY <1>7, <1>8, <1>9, <2>2, <3>3, ClampExact
    <2>3. QED
      BY <2>1, <2>2
  <1>11. Point(s, q, stop) = t
    BY <1>6, Pointed
  <1>12. IsState(p, t) /\ t.pc = stop
    <2>1. stop \in 1..(Len(p.ops) + 1)
      BY <1>1, ProgramFacts
    <2>2. QED
      BY <1>6, <2>1, MadeState, StateFields DEF IsState
  <1>13. QED
    BY <1>5, <1>10, <1>11, <1>12

(* A transition that folds a block, and the unfolded path through it.      *)
SmallTape(p) == Model(p).memory_size < HalfWord

FoldsAt(p, fold, s) ==
    /\ IsState(p, s)
    /\ s.pc \in 1..Len(p.ops)
    /\ StartsBlock(p.ops, Labelled(p), s.pc)
    /\ ChosenBlock(p, fold, s.pc).kind # "single"

LEMMA BlockLength ==
    ASSUME NEW p, IsProgram(p), NEW fold \in Folding, NEW s, FoldsAt(p, fold, s),
           NEW stop, stop = ChosenBlock(p, fold, s.pc).end
    PROVE  /\ s.pc \in Nat /\ stop \in Nat
           /\ stop \in (s.pc + 1)..(Len(p.ops) + 1)
           /\ stop - s.pc + 1 \in Nat \ {0}
           /\ s.pc + (stop - s.pc + 1) <= Len(p.ops) + 2
           /\ s.pc + (stop - s.pc + 1) - 2 = stop - 1
           /\ s.pc + (stop - s.pc + 1) - 1 = stop
           /\ stop - s.pc + 1 \in 1..(stop - s.pc + 1)
  <1>1. stop \in (s.pc + 1)..(Len(p.ops) + 1)
    BY ChosenRun DEF FoldsAt
  <1>2. Len(p.ops) \in Nat /\ s.pc \in 1..Len(p.ops)
    BY ProgramFacts DEF FoldsAt
  <1>3. QED
    BY <1>1, <1>2

LEMMA FoldedValues ==
    ASSUME NEW p, IsProgram(p), NEW fold \in Folding, NEW s, FoldsAt(p, fold, s),
           InstrClass(p.ops[s.pc]) = "values",
           NEW stop, stop = ChosenBlock(p, fold, s.pc).end,
           NEW n, n = stop - s.pc + 1, NEW path, IsUnfoldedPath(p, s, n, path)
    PROVE  /\ Successors(p, fold, s) = <<path[n]>>
           /\ IsState(p, path[n])
           /\ path[n].pc = stop
           /\ \A k \in 1..(n - 1) : Len(Successors(p, "none", path[k])) = 1
           /\ \A k \in 1..n : path[k].pc = s.pc + k - 1 /\ path[k].mem_ptr = s.mem_ptr
  <1>1. /\ IsState(p, s) /\ s.pc \in 1..Len(p.ops)
        /\ StartsBlock(p.ops, Labelled(p), s.pc)
        /\ ChosenBlock(p, fold, s.pc).kind # "single"
    BY DEF FoldsAt
  <1>2. /\ n \in Nat \ {0} /\ s.pc + n <= Len(p.ops) + 2 /\ s.pc + n - 2 = stop - 1
        /\ s.pc + n - 1 = stop /\ n \in 1..n
    BY BlockLength
  <1>3. \A i \in s.pc..(stop - 1) : p.ops[i] \in {"inc", "dec"}
    <2>1. \A i \in s.pc..(stop - 1) : InstrClass(p.ops[i]) = "values"
      BY <1>1, ChosenRun
    <2>2. QED
      BY <2>1, Classes DEF is_value_instruction
  <1>4. /\ \A k \in 1..n : ValuesAt(p, s, path[k], s.pc + k - 1)
        /\ \A k \in 1..(n - 1) : Len(Successors(p, "none", path[k])) = 1
    <2>1. AllIn(p.ops, s.pc, s.pc + n - 2, {"inc", "dec"})
      BY <1>2, <1>3 DEF AllIn
    <2>2. /\ IsProgram(p) /\ IsState(p, s) /\ n \in Nat \ {0} /\ IsUnfoldedPath(p, s, n, path)
          /\ s.pc + n <= Len(p.ops) + 2
      BY <1>1, <1>2
    <2>3. \A k \in 1..n : ValuesAt(p, s, path[k], s.pc + k - 1)
      BY ONLY <2>1, <2>2, ValuesPath
    <2>4. \A k \in 1..(n - 1) : Len(Successors(p, "none", path[k])) = 1
      BY ONLY <2>1, <2>2, ValuesPath
    <2>5. QED
      BY <2>3, <2>4
  <1>5. ValuesAt(p, s, path[n], stop)
    BY <1>2, <1>4
  <1>6. Successors(p, fold, s) = <<path[n]>> /\ IsState(p, path[n]) /\ path[n].pc = stop
    BY <1>1, <1>5, ValuesFolded
  <1>7. \A k \in 1..n : path[k].pc = s.pc + k - 1 /\ path[k].mem_ptr = s.mem_ptr
    <2> SUFFICES ASSUME NEW k \in 1..n
                 PROVE  path[k].pc = s.pc + k - 1 /\ path[k].mem_ptr = s.mem_ptr
      OBVIOUS
    <2>1. PICK v : path[k] = State(s.pc + k - 1, s.mem_ptr,
                                   [s.memory EXCEPT ![s.mem_ptr] = v], s.remaining)
      BY <1>4 DEF ValuesAt
    <2>2. QED
      BY <2>1, StateFields
  <1>8. QED
    BY <1>4, <1>6, <1>7

LEMMA FoldedPointers ==
    ASSUME NEW p, IsProgram(p), SmallTape(p),
           NEW fold \in Folding, NEW s, FoldsAt(p, fold, s),
           InstrClass(p.ops[s.pc]) = "pointers",
           NEW stop, stop = ChosenBlock(p, fold, s.pc).end,
           NEW n, n = stop - s.pc + 1, NEW path, IsUnfoldedPath(p, s, n, path)
    PROVE  /\ Successors(p, fold, s) = <<path[n]>>
           /\ IsState(p, path[n])
           /\ path[n].pc = stop
           /\ \A k \in 1..(n - 1) : Len(Successors(p, "none", path[k])) = 1
           /\ \A k \in 1..n : path[k].pc = s.pc + k - 1 /\ path[k].memory = s.memory
  <1>1. /\ IsState(p, s) /\ s.pc \in 1..Len(p.ops)
        /\ StartsBlock(p.ops, Labelled(p), s.pc)
        /\ ChosenBlock(p, fold, s.pc).kind # "single"
    BY DEF FoldsAt
  <1>2. /\ n \in Nat \ {0} /\ s.pc + n <= Len(p.ops) + 2 /\ s.pc + n - 2 = stop - 1
        /\ s.pc + n - 1 = stop /\ n \in 1..n
    BY BlockLength
  <1>3. \A i \in s.pc..(stop - 1) : p.ops[i] \in {"right", "left"}
    <2>1. \A i \in s.pc..(stop - 1) : InstrClass(p.ops[i]) = "pointers"
      BY <1>1, ChosenRun
    <2>2. QED
      BY <2>1, Classes DEF is_pointer_instruction
  <1>4. /\ \A k \in 1..n : PointersAt(p, s, path[k], s.pc + k - 1)
        /\ \A k \in 1..(n - 1) : Len(Successors(p, "none", path[k])) = 1
    <2>1. AllIn(p.ops, s.pc, s.pc + n - 2, {"right", "left"})
      BY <1>2, <1>3 DEF AllIn
    <2>2. /\ IsProgram(p) /\ IsState(p, s) /\ n \in Nat \ {0} /\ IsUnfoldedPath(p, s, n, path)
          /\ s.pc + n <= Len(p.ops) + 2
      BY <1>1, <1>2
    <2>3. \A k \in 1..n : PointersAt(p, s, path[k], s.pc + k - 1)
      BY ONLY <2>1, <2>2, PointersPath
    <2>4. \A k \in 1..(n - 1) : Len(Successors(p, "none", path[k])) = 1
      BY ONLY <2>1, <2>2, PointersPath
    <2>5. QED
      BY <2>3, <2>4
  <1>5. PointersAt(p, s, path[n], stop)
    BY <1>2, <1>4
  <1>6. Successors(p, fold, s) = <<path[n]>> /\ IsState(p, path[n]) /\ path[n].pc = stop
    BY <1>1, <1>5, PointersFolded DEF SmallTape
  <1>7. \A k \in 1..n : path[k].pc = s.pc + k - 1 /\ path[k].memory = s.memory
    BY <1>4, StateFields DEF PointersAt
  <1>8. QED
    BY <1>4, <1>6, <1>7

-----------------------------------------------------------------------------
(* The states that a walk passes through: never inside a block that the    *)
(* folding mode applies as a whole.                                        *)
AtStart(p, fold, s) ==
    ~is_end(p, s.pc) /\ ChosenBlock(p, fold, s.pc).kind # "single"
        => StartsBlock(p.ops, Labelled(p), s.pc)

(* Behind an instruction that is not folded no block goes on that is.      *)
LEMMA BehindSingle ==
    ASSUME NEW p, IsProgram(p), NEW fold \in Folding, NEW s, IsState(p, s),
           s.pc \in 1..Len(p.ops), ChosenBlock(p, fold, s.pc).kind = "single",
           NEW t, Follows(p, s, t)
    PROVE  AtStart(p, fold, t)
  <1> SUFFICES ASSUME t.pc = s.pc + 1, ~is_end(p, t.pc),
                      ChosenBlock(p, fold, t.pc).kind # "single"
               PROVE  StartsBlock(p.ops, Labelled(p), t.pc)
    BY DEF Follows, AtStart
  <1>1. t.pc \in 1..Len(p.ops) /\ t.pc - 1 = s.pc
    BY ProgramFacts DEF is_end, instr_count
  <1>2. /\ Folds(fold, InstrClass(p.ops[t.pc]))
        /\ InstrClass(p.ops[t.pc]) \in {"values", "pointers"}
    BY <1>1, ChosenRun
  <1>3. \/ ~Folds(fold, InstrClass(p.ops[s.pc]))
        \/ InstrClass(p.ops[s.pc]) = "single"
    BY Chosen, Entry
  <1>4. InstrClass(p.ops[t.pc]) # InstrClass(p.ops[t.pc - 1])
    BY <1>1, <1>2, <1>3
  <1>5. QED
    BY <1>4 DEF StartsBlock

(* What a state that the block at s hides may show.                        *)
Hidden(p, fold, s, u) ==
    /\ u.pc \in 1..Len(p.ops)
    /\ u.pc \notin Labelled(p)
    /\ fold = "values" => u.mem_ptr = s.mem_ptr
    /\ fold = "pointers" => u.memory = s.memory /\ p.ops[u.pc] \notin {"inc", "dec"}

(* A folded block leads along the one path of its instructions.            *)
LEMMA BlockPath ==
    ASSUME NEW p, IsProgram(p), SmallTape(p), NEW fold \in Folding,
           NEW s, FoldsAt(p, fold, s),
           NEW stop, stop = ChosenBlock(p, fold, s.pc).end,
           NEW n, n = stop - s.pc + 1, NEW path, IsUnfoldedPath(p, s, n, path)
    PROVE  /\ Successors(p, fold, s) = <<path[n]>>
           /\ IsState(p, path[n])
           /\ path[n].pc = stop
           /\ AtStart(p, fold, path[n])
           /\ \A k \in 1..(n - 1) : Len(Successors(p, "none", path[k])) = 1
           /\ \A k \in 1..n : path[k].pc = s.pc + k - 1
           /\ \A k \in 2..(n - 1) : Hidden(p, fold, s, path[k])
  <1> DEFINE kind == InstrClass(p.ops[s.pc])
  <1>1. /\ s.pc \in 1..Len(p.ops) /\ ChosenBlock(p, fold, s.pc).kind # "single"
        /\ s.pc \in Nat /\ stop \in Nat /\ Len(p.ops) \in Nat
    BY BlockLength, ProgramFacts DEF FoldsAt
  <1>2. /\ Folds(fold, kind) /\ kind \in {"values", "pointers"}
        /\ Unbroken(p.ops, Labelled(p), s.pc, stop - 1)
        /\ \A i \in s.pc..(stop - 1) : InstrClass(p.ops[i]) = kind
        /\ stop \in (s.pc + 1)..(Len(p.ops) + 1)
        /\ StartsBlock(p.ops, Labelled(p), stop)
    BY <1>1, ChosenRun
  <1>3. /\ Successors(p, fold, s) = <<path[n]>> /\ IsState(p, path[n]) /\ path[n].pc = stop
        /\ \A k \in 1..(n - 1) : Len(Successors(p, "none", path[k])) = 1
        /\ \A k \in 1..n :
              /\ path[k].pc = s.pc + k - 1
              /\ kind = "values" => path[k].mem_ptr = s.mem_ptr
              /\ kind = "pointers" => path[k].memory = s.memory
    <2>1. CASE kind = "values"
      BY <2>1, FoldedValues
    <2>2. CASE kind = "pointers"
      BY <2>2, FoldedPointers
    <2>3. QED
      BY <1>2, <2>1, <2>2
  <1>4. AtStart(p, fold, path[n])
    BY <1>2, <1>3 DEF AtStart
  <1>5. ASSUME NEW k \in 2..(n - 1) PROVE Hidden(p, fold, s, path[k])
    <2>1. k \in 1..n /\ path[k].pc = s.pc + k - 1
      BY <1>1, <1>3
    <2>2. path[k].pc \in (s.pc + 1)..(stop - 1)
      BY SMTT(30), <1>1, <1>2, <2>1
    <2>3. path[k].pc \in 1..Len(p.ops) /\ path[k].pc \in s.pc..(stop - 1)
      BY SMTT(30), <1>1, <1>2, <2>2
    <2>4. path[k].pc \notin Labelled(p)
      BY <1>1, <1>2, <2>2, NoLabelInside
    <2>5. kind = "pointers" => p.ops[path[k].pc] \notin {"inc", "dec"}
      <3>1. InstrClass(p.ops[path[k].pc]) = kind
        BY <1>2, <2>3
      <3>2. QED
        BY <3>1, Classes DEF is_value_instruction
    <2>6. /\ fold = "values" => kind = "values"
          /\ fold = "pointers" => kind = "pointers"
      BY <1>2 DEF Folds
    <2>7. QED
      BY <1>3, <2>1, <2>3, <2>4, <2>5, <2>6 DEF Hidden
  <1>6. QED
    BY <1>3, <1>4, <1>5

(* A transition: there are no dead ends, only a read branches, and the walk *)
(* goes on at the start of a block.                                        *)
LEMMA Transitions ==
    ASSUME NEW p, IsProgram(p), SmallTape(p), NEW fold \in Folding,
           NEW s, IsState(p, s), AtStart(p, fold, s)
    PROVE  /\ Successors(p, fold, s) # << >>
           /\ Len(Successors(p, fold, s)) > 1 => p.ops[s.pc] = "get"
           /\ IsInjective(Successors(p, fold, s))
           /\ \A i \in DOMAIN Successors(p, fold, s) :
                 /\ IsState(p, Successors(p, fold, s)[i])
                 /\ AtStart(p, fold, Successors(p, fold, s)[i])
  <1> DEFINE successors == Successors(p, fold, s)
  <1>1. s.pc \in 1..(Len(p.ops) + 1) /\ Len(p.ops) \in Nat
    BY ProgramFacts DEF IsState
  <1>2. ASSUME NEW t, successors = <<t>>, IsState(p, t), AtStart(p, fold, t)
        PROVE  /\ successors # << >>
               /\ Len(successors) > 1 => p.ops[s.pc] = "get"
               /\ IsInjective(successors)
               /\ \A i \in DOMAIN successors :
                     IsState(p, successors[i]) /\ AtStart(p, fold, successors[i])
    <2> HIDE DEF successors
    <2>1. /\ successors # << >> /\ Len(successors) = 1 /\ DOMAIN successors = {1}
          /\ successors[1] = t
      BY <1>2
    <2>2. IsInjective(successors)
      BY <2>1 DEF IsInjective
    <2>3. QED
      BY <1>2, <2>1, <2>2
  <1>3. CASE is_end(p, s.pc)
    BY <1>2, <1>3 DEF Successors
  <1>4. CASE ~is_end(p, s.pc) /\ ChosenBlock(p, fold, s.pc).kind = "single"
    <2>1. successors = SingleSuccessors(p, s) /\ s.pc \in 1..Len(p.ops)
      BY <1>1, <1>4 DEF Successors, is_end, instr_count
    <2>2. /\ successors # << >>
          /\ Len(successors) > 1 => p.ops[s.pc] = "get"
          /\ IsInjective(successors)
          /\ \A i \in DOMAIN successors : Follows(p, s, successors[i])
      BY <2>1, SingleFacts
    <2> HIDE DEF successors
    <2>3. \A i \in DOMAIN successors :
            IsState(p, successors[i]) /\ AtStart(p, fold, successors[i])
      BY <1>4, <2>1, <2>2, BehindSingle DEF Follows
    <2>4. QED
      BY <2>2, <2>3 DEF successors
  <1>5. CASE ~is_end(p, s.pc) /\ ChosenBlock(p, fold, s.pc).kind # "single"
    <2> DEFINE stop == ChosenBlock(p, fold, s.pc).end
               n == stop - s.pc + 1
    <2>1. FoldsAt(p, fold, s)
      BY <1>1, <1>5 DEF AtStart, FoldsAt, is_end, instr_count
    <2>2. n \in Nat \ {0}
      BY <2>1, BlockLength
    <2>3. PICK path : IsUnfoldedPath(p, s, n, path)
      BY <2>2, PathExists
    <2>4. successors = <<path[n]>> /\ IsState(p, path[n]) /\ AtStart(p, fold, path[n])
      BY <2>1, <2>3, BlockPath
    <2> HIDE DEF successors, n, stop
    <2>5. QED
      BY <1>2, <2>4 DEF successors
  <1>6. QED
    BY <1>3, <1>4, <1>5

-----------------------------------------------------------------------------
(* Recursive definitions that count up.                                    *)
IsCountedUp(first, last, start, next, f) ==
    f = [i \in first..last |-> IF i = first THEN start ELSE next[<<i, f[i - 1]>>]]

LEMMA CountUpExists ==
    ASSUME NEW first \in Nat, NEW last \in Nat, first <= last, NEW start, NEW next
    PROVE  \E f : IsCountedUp(first, last, start, next, f)
  <1> DEFINE T == {e \in Nat : first <= e /\ ~ \E f : IsCountedUp(first, e, start, next, f)}
  <1> SUFFICES ASSUME T # {} PROVE FALSE
    OBVIOUS
  <1>1. PICK e \in T : \A k \in T : e <= k
    <2>1. T \in SUBSET Nat /\ T # {}
      OBVIOUS
    <2> HIDE DEF T
    <2>2. QED
      BY <2>1, LeastElement
  <1>2. e \in Nat /\ first <= e /\ ~ \E f : IsCountedUp(first, e, start, next, f)
    OBVIOUS
  <1>3. CASE e = first
    <2> DEFINE f == [i \in first..first |-> start]
    <2>1. IsCountedUp(first, e, start, next, f)
      BY <1>3 DEF IsCountedUp
    <2>2. QED
      BY <1>2, <2>1
  <1>4. CASE e # first
    <2>1. e - 1 \in Nat /\ first <= e - 1
      BY <1>2, <1>4
    <2>2. e - 1 \notin T
      BY <1>1, <1>2, <2>1
    <2>3. PICK f : IsCountedUp(first, e - 1, start, next, f)
      BY <2>1, <2>2
    <2> DEFINE g == [i \in first..e |-> IF i = e THEN next[<<e, f[e - 1]>>] ELSE f[i]]
    <2>4. \A i \in first..(e - 1) : f[i] = IF i = first THEN start ELSE next[<<i, f[i - 1]>>]
      BY <2>3 DEF IsCountedUp
    <2>5. /\ \A i \in first..(e - 1) : g[i] = f[i]
          /\ g[e] = next[<<e, f[e - 1]>>]
          /\ e - 1 \in first..(e - 1)
      BY <1>2, <2>1
    <2>6. ASSUME NEW i \in first..e
          PROVE  g[i] = IF i = first THEN start ELSE next[<<i, g[i - 1]>>]
      <3> HIDE DEF g
      <3>1. CASE i = e
        BY <1>4, <2>5, <3>1
      <3>2. CASE i # e
        <4>1. i \in first..(e - 1) /\ (i # first => i - 1 \in first..(e - 1))
          BY <1>2, <3>2
        <4>2. QED
          BY <2>4, <2>5, <4>1
      <3>3. QED
        BY <3>1, <3>2
    <2>7. IsCountedUp(first, e, start, next, g)
      <3> DEFINE h == [i \in first..e |-> IF i = first THEN start ELSE next[<<i, g[i - 1]>>]]
      <3>1. \A i \in first..e : g[i] = h[i]
        BY <2>6
      <3>2. g = h
        BY <3>1
      <3>3. QED
        BY <3>2 DEF IsCountedUp
    <2>8. QED
      BY <1>2, <2>7
  <1>5. QED
    BY <1>3, <1>4

LEMMA CountUp ==
    ASSUME NEW first \in Nat, NEW last \in Nat, first <= last,
           NEW V, NEW start \in V, NEW next,
           \A i \in (first + 1)..last : \A x \in V : next[<<i, x>>] \in V
    PROVE  \E f \in [first..last -> V] :
              /\ f[first] = start
              /\ \A i \in (first + 1)..last : f[i] = next[<<i, f[i - 1]>>]
              /\ IsCountedUp(first, last, start, next, f)
  <1>1. PICK f : IsCountedUp(first, last, start, next, f)
    BY CountUpExists
  <1> DEFINE at(i) == IF i = first THEN start ELSE next[<<i, f[i - 1]>>]
  <1>2. f = [i \in first..last |-> at(i)]
    BY <1>1 DEF IsCountedUp
  <1> HIDE DEF at
  <1>3. DOMAIN f = first..last /\ \A i \in first..last : f[i] = at(i)
    BY <1>2
  <1>4. f[first] = start
    <2>1. first \in first..last /\ at(first) = start
      BY DEF at
    <2>2. QED
      BY <1>3, <2>1
  <1>5. \A i \in (first + 1)..last : f[i] = next[<<i, f[i - 1]>>]
    <2>1. \A i \in (first + 1)..last : i \in first..last /\ i # first
      OBVIOUS
    <2>2. \A i : i # first => at(i) = next[<<i, f[i - 1]>>]
      BY DEF at
    <2>3. QED
      BY <1>3, <2>1, <2>2
  <1> DEFINE Bad == {i \in first..last : f[i] \notin V}
  <1>6. Bad = {}
    <2> SUFFICES ASSUME Bad # {} PROVE FALSE
      OBVIOUS
    <2>1. PICK i \in Bad : \A k \in Bad : i <= k
      <3>1. Bad \in SUBSET Nat /\ Bad # {}
        OBVIOUS
      <3> HIDE DEF Bad
      <3>2. QED
        BY <3>1, LeastElement
    <2>2. i \in first..last /\ f[i] \notin V /\ i # first
      BY <1>4, <2>1
    <2>3. i \in (first + 1)..last /\ i - 1 \in first..last
      BY <2>2
    <2>4. i - 1 \notin Bad
      <3> HIDE DEF Bad
      <3>1. QED
        BY <2>1, <2>2, <2>3
    <2>5. f[i - 1] \in V
      BY <2>3, <2>4
    <2>6. QED
      BY <1>5, <2>2, <2>3, <2>5
  <1>7. f \in [first..last -> V]
    <2>1. \A i \in first..last : f[i] \in V
      BY <1>6
    <2>2. f = [i \in first..last |-> f[i]]
      BY <1>2, <1>3
    <2>3. QED
      BY <2>1, <2>2
  <1>8. QED
    BY <1>1, <1>4, <1>5, <1>7

-----------------------------------------------------------------------------
(* FlattenSeq() puts one sequence behind the other: there are places at    *)
(* which each of them starts.                                              *)
IsFlattening(seqs, f) ==
    f = [i \in 1..Len(seqs) |-> IF i = 1 THEN seqs[i] ELSE f[i - 1] \o seqs[i]]

LEMMA FlattenSteps ==
    ASSUME NEW S, NEW seqs \in Seq(Seq(S))
    PROVE  \E f \in [0..Len(seqs) -> Seq(S)] :
              /\ f[0] = << >>
              /\ \A n \in 1..Len(seqs) : f[n] = f[n - 1] \o seqs[n]
              /\ FlattenSeq(seqs) = f[Len(seqs)]
  <1> DEFINE last == Len(seqs)
  <1>1. last \in Nat /\ \A n \in 1..last : seqs[n] \in Seq(S)
    OBVIOUS
  <1>2. CASE last = 0
    <2>1. seqs = << >> /\ FlattenSeq(seqs) = seqs
      BY <1>2 DEF FlattenSeq
    <2>2. << >> \in Seq(S) /\ \A n \in 1..0 : FALSE
      OBVIOUS
    <2> DEFINE f == [n \in 0..0 |-> << >>]
    <2>3. /\ f \in [0..last -> Seq(S)]
          /\ f[0] = << >>
          /\ \A n \in 1..last : f[n] = f[n - 1] \o seqs[n]
          /\ FlattenSeq(seqs) = f[last]
      BY <1>2, <2>1, <2>2
    <2>4. QED
      BY <2>3
  <1>3. CASE last # 0
    <2> DEFINE step == [a \in (2..last) \X Seq(S) |-> a[2] \o seqs[a[1]]]
    <2>1. \A n \in 2..last : \A x \in Seq(S) : step[<<n, x>>] = x \o seqs[n]
      OBVIOUS
    <2> HIDE DEF step
    <2>2. \A n \in 2..last : \A x \in Seq(S) : step[<<n, x>>] \in Seq(S)
      <3> SUFFICES ASSUME NEW n \in 2..last, NEW x \in Seq(S) PROVE step[<<n, x>>] \in Seq(S)
        BY Zenon
      <3>1. seqs[n] \in Seq(S)
        BY <1>1
      <3>2. x \o seqs[n] \in Seq(S)
        BY <3>1
      <3>3. QED
        BY <2>1, <3>2
    <2>3. PICK g \in [1..last -> Seq(S)] :
              /\ g[1] = seqs[1]
              /\ \A n \in (1 + 1)..last : g[n] = step[<<n, g[n - 1]>>]
      <3>1. 1 \in Nat /\ last \in Nat /\ 1 <= last /\ seqs[1] \in Seq(S)
        BY <1>1, <1>3
      <3>2. \A n \in (1 + 1)..last : \A x \in Seq(S) : step[<<n, x>>] \in Seq(S)
        <4>1. (1 + 1)..last = 2..last
          OBVIOUS
        <4>2. QED
          BY <2>2, <4>1, Zenon
      <3> HIDE DEF last
      <3>3. \E g \in [1..last -> Seq(S)] :
               /\ g[1] = seqs[1]
               /\ \A n \in (1 + 1)..last : g[n] = step[<<n, g[n - 1]>>]
               /\ IsCountedUp(1, last, seqs[1], step, g)
        BY <3>1, <3>2, CountUp
      <3>4. QED
        BY <3>3
    <2>4. \A n \in 2..last : g[n] = g[n - 1] \o seqs[n]
      <3> SUFFICES ASSUME NEW n \in 2..last PROVE g[n] = g[n - 1] \o seqs[n]
        OBVIOUS
      <3>1. n \in (1 + 1)..last /\ n - 1 \in 1..last
        BY <1>1
      <3>2. g[n] = step[<<n, g[n - 1]>>] /\ g[n - 1] \in Seq(S)
        BY <2>3, <3>1
      <3>3. QED
        BY <2>1, <3>2
    <2>5. \E f : IsFlattening(seqs, f)
      <3> DEFINE at(n) == IF n = 1 THEN seqs[n] ELSE g[n - 1] \o seqs[n]
      <3>1. \A n \in 1..last : g[n] = at(n)
        <4>1. \A n \in 1..last : n = 1 \/ n \in 2..last
          BY <1>1
        <4>2. QED
          BY <2>3, <2>4, <4>1
      <3> HIDE DEF at
      <3>2. g = [n \in 1..last |-> at(n)]
        BY <2>3, <3>1
      <3>3. IsFlattening(seqs, g)
        BY <3>2 DEF IsFlattening, at
      <3>4. QED
        BY <3>3
    <2> DEFINE h == CHOOSE f : IsFlattening(seqs, f)
    <2>6. IsFlattening(seqs, h)
      BY <2>5
    <2>7. FlattenSeq(seqs) = h[last]
      BY <1>3 DEF FlattenSeq, IsFlattening
    <2> HIDE DEF h
    <2>8. \A n \in 1..last : h[n] = IF n = 1 THEN seqs[n] ELSE h[n - 1] \o seqs[n]
      BY <2>6 DEF IsFlattening
    <2>9. \A n \in 1..last : h[n] = g[n]
      <3> DEFINE T == {n \in 1..last : h[n] # g[n]}
      <3> SUFFICES ASSUME T # {} PROVE FALSE
        OBVIOUS
      <3>1. PICK n \in T : \A k \in T : n <= k
        <4>1. T \in SUBSET Nat
          OBVIOUS
        <4> HIDE DEF T
        <4>2. QED
          BY <4>1, LeastElement
      <3>2. n \in 1..last /\ h[n] # g[n]
        OBVIOUS
      <3>3. n # 1
        BY <1>1, <2>3, <2>8, <3>2
      <3>4. n \in 2..last /\ n - 1 \in 1..last /\ ~(n <= n - 1)
        BY <3>2, <3>3
      <3>5. h[n - 1] = g[n - 1]
        BY <3>1, <3>4
      <3>6. QED
        BY <2>4, <2>8, <3>2, <3>3, <3>4, <3>5
    <2> DEFINE f == [n \in 0..last |-> IF n = 0 THEN << >> ELSE g[n]]
    <2>10. f \in [0..last -> Seq(S)]
      <3>1. \A n \in 0..last : n = 0 \/ n \in 1..last
        BY <1>1
      <3>2. << >> \in Seq(S)
        OBVIOUS
      <3>3. QED
        BY <2>3, <3>1, <3>2
    <2>11. \A n \in 1..last : f[n] = f[n - 1] \o seqs[n]
      <3> SUFFICES ASSUME NEW n \in 1..last PROVE f[n] = f[n - 1] \o seqs[n]
        OBVIOUS
      <3>1. CASE n = 1
        <4>1. f[n] = seqs[1] /\ f[n - 1] = << >> /\ seqs[1] \in Seq(S) /\ n \in Nat
          BY <1>1, <2>3, <3>1
        <4> HIDE DEF f
        <4>2. << >> \o seqs[1] = seqs[1]
          BY <4>1
        <4>3. QED
          BY <3>1, <4>1, <4>2
      <3>2. CASE n # 1
        <4>1. n \in 2..last /\ n - 1 \in 0..last /\ n - 1 # 0 /\ n \in 0..last /\ n # 0
          BY <1>1, <3>2
        <4>2. f[n] = g[n] /\ f[n - 1] = g[n - 1]
          BY <4>1
        <4>3. QED
          BY <2>4, <4>1, <4>2
      <3>3. QED
        BY <3>1, <3>2
    <2>12. f[0] = << >> /\ FlattenSeq(seqs) = f[last]
      BY <1>1, <1>3, <2>7, <2>9
    <2> HIDE DEF f
    <2>13. QED
      BY <2>10, <2>11, <2>12
  <1>4. QED
    BY <1>2, <1>3

(* Flattened one at a time: the place at which each sequence starts.       *)
LEMMA FlattenPlaces ==
    ASSUME NEW S, NEW seqs \in Seq(Seq(S))
    PROVE  /\ FlattenSeq(seqs) \in Seq(S)
           /\ \E at \in [0..Len(seqs) -> Nat] :
                 /\ at[0] = 0
                 /\ \A n \in 1..Len(seqs) : at[n] = at[n - 1] + Len(seqs[n])
                 /\ at[Len(seqs)] = Len(FlattenSeq(seqs))
                 /\ \A n \in 1..Len(seqs) : \A k \in 1..Len(seqs[n]) :
                       /\ at[n - 1] + k \in 1..Len(FlattenSeq(seqs))
                       /\ FlattenSeq(seqs)[at[n - 1] + k] = seqs[n][k]
  <1> DEFINE last == Len(seqs)
  <1>1. last \in Nat /\ \A n \in 1..last : seqs[n] \in Seq(S)
    OBVIOUS
  <1>2. PICK f \in [0..last -> Seq(S)] :
            /\ f[0] = << >>
            /\ \A n \in 1..last : f[n] = f[n - 1] \o seqs[n]
            /\ FlattenSeq(seqs) = f[last]
    BY FlattenSteps
  <1> DEFINE at == [n \in 0..last |-> Len(f[n])]
  <1>3. \A n \in 0..last : f[n] \in Seq(S) /\ at[n] = Len(f[n]) /\ at[n] \in Nat
    <2>1. \A q \in Seq(S) : Len(q) \in Nat
      OBVIOUS
    <2>2. \A n \in 0..last : f[n] \in Seq(S)
      BY <1>2
    <2>3. QED
      BY <2>1, <2>2
  <1>4. at \in [0..last -> Nat]
    BY <1>3
  <1> HIDE DEF last, at
  <1>5. ASSUME NEW n \in 1..last
        PROVE  /\ n - 1 \in 0..last /\ n \in 0..last
               /\ at[n] = at[n - 1] + Len(seqs[n])
               /\ \A k \in 1..at[n - 1] : f[n][k] = f[n - 1][k]
               /\ \A k \in 1..Len(seqs[n]) : f[n][at[n - 1] + k] = seqs[n][k]
    <2>1. n - 1 \in 0..last /\ n \in 0..last
      BY <1>1
    <2>2. f[n - 1] \in Seq(S) /\ seqs[n] \in Seq(S) /\ f[n] = f[n - 1] \o seqs[n]
          /\ at[n] = Len(f[n]) /\ at[n - 1] = Len(f[n - 1])
      BY <1>1, <1>2, <1>3, <2>1
    <2>3. \A a, b \in Seq(S) :
             /\ Len(a \o b) = Len(a) + Len(b)
             /\ \A k \in 1..Len(a) : (a \o b)[k] = a[k]
             /\ \A k \in 1..Len(b) : (a \o b)[Len(a) + k] = b[k]
      OBVIOUS
    <2>4. QED
      BY <2>1, <2>2, <2>3
  <1>6. \A n \in 1..last : Len(seqs[n]) \in Nat
    BY <1>1
  <1>7. ASSUME NEW n \in 1..last, NEW k \in 1..Len(seqs[n])
        PROVE  \A m \in n..last : at[n - 1] + k \in 1..at[m] /\ f[m][at[n - 1] + k] = seqs[n][k]
    <2> DEFINE T == {m \in n..last : ~(/\ at[n - 1] + k \in 1..at[m]
                                       /\ f[m][at[n - 1] + k] = seqs[n][k])}
    <2> SUFFICES ASSUME T # {} PROVE FALSE
      OBVIOUS
    <2>1. PICK m \in T : \A j \in T : m <= j
      <3>1. T \in SUBSET Nat
        BY <1>1
      <3> HIDE DEF T
      <3>2. QED
        BY <3>1, LeastElement
    <2>2. m \in n..last /\ m \in 1..last
      BY <1>1
    <2>3. at[n] \in Nat /\ at[n - 1] \in Nat /\ Len(seqs[n]) \in Nat /\ at[n] = at[n - 1] + Len(seqs[n])
      BY <1>3, <1>5, <1>6
    <2>4. m # n
      <3> SUFFICES ASSUME m = n PROVE FALSE
        OBVIOUS
      <3>1. at[n - 1] + k \in 1..at[n]
        BY <2>3, SMTT(30)
      <3>2. f[n][at[n - 1] + k] = seqs[n][k]
        BY <1>5
      <3>3. QED
        BY <3>1, <3>2
    <2>5. m - 1 \in n..last /\ ~(m <= m - 1)
      BY <1>1, <2>2, <2>4
    <2>6. m - 1 \notin T
      <3> HIDE DEF T
      <3>1. QED
        BY <2>1, <2>5
    <2>7. at[n - 1] + k \in 1..at[m - 1] /\ f[m - 1][at[n - 1] + k] = seqs[n][k]
      BY <2>5, <2>6
    <2>8. /\ at[m] = at[m - 1] + Len(seqs[m]) /\ Len(seqs[m]) \in Nat
          /\ f[m][at[n - 1] + k] = f[m - 1][at[n - 1] + k]
          /\ at[m - 1] \in Nat
      BY <1>3, <1>5, <1>6, <2>2, <2>7
    <2>9. at[n - 1] + k \in 1..at[m]
      BY <2>3, <2>7, <2>8, SMTT(30)
    <2>10. QED
      BY <2>7, <2>8, <2>9
  <1>8. /\ 0 \in 0..last /\ last \in 0..last /\ at[0] = 0
        /\ at[last] = Len(FlattenSeq(seqs)) /\ FlattenSeq(seqs) \in Seq(S)
    <2>1. 0 \in 0..last /\ last \in 0..last
      BY <1>1
    <2>2. at[0] = 0
      BY <1>2, <1>3, <2>1
    <2>3. QED
      BY <1>2, <1>3, <2>1, <2>2
  <1>9. ASSUME NEW n \in 1..last, NEW k \in 1..Len(seqs[n])
        PROVE  /\ at[n - 1] + k \in 1..Len(FlattenSeq(seqs))
               /\ FlattenSeq(seqs)[at[n - 1] + k] = seqs[n][k]
    <2>1. last \in n..last
      BY <1>1
    <2>2. QED
      BY <1>2, <1>7, <1>8, <2>1
  <1>10. QED
    BY <1>4, <1>5, <1>8, <1>9 DEF last
=============================================================================
