----------------------- MODULE SearchEventuallyProofs -----------------------
(***************************************************************************)
(* search_eventually() decides E F(atom) on every state graph, finite or   *)
(* not, and the run it returns is a shortest witness.                      *)
(***************************************************************************)
EXTENDS SearchEventually, OperatorProofs

(* What the scan of the graph has established: no processed state          *)
(* satisfies the atom, and their successors are stored.                    *)
ScanInv ==
    /\ current \in 1..(Len(states) + 1)
    /\ \A i \in 1..Len(states) :
          i < current =>
              /\ states[i] \notin atom
              /\ \A j \in 1..Len(graph[states[i]]) : graph[states[i]][j] \in DOMAIN index
    /\ pc = "expand" =>
          /\ current <= Len(states)
          /\ states[current] \notin atom
          /\ pos >= 1
          /\ \A j \in 1..Len(graph[states[current]]) :
                j < pos => graph[states[current]][j] \in DOMAIN index
    /\ pc = "none" => current > Len(states)

ReachInv == \A i \in 1..Len(states) : states[i] \in Reachable(graph)

(* What following the parents has established: the trail, read backwards,  *)
(* is a path to the state that was hit, and at continues it.               *)
TraceInv ==
    /\ pc \in {"visit", "expand"} => trail = << >>
    /\ pc \in {"trace", "found"} => current <= Len(states) /\ states[current] \in atom
    /\ pc = "trace" =>
          /\ at \in 0..Len(states)
          /\ trail = << >> => at = current
          /\ trail # << >> =>
                /\ at < current
                /\ trail[1] \in atom
                /\ \A i \in 2..Len(trail) : trail[i] \notin atom
                /\ \A i \in 1..(Len(trail) - 1) : Edge(graph, trail[i + 1], trail[i])
                /\ at = NoIndex => trail[Len(trail)] = Start
                /\ at # NoIndex => Edge(graph, states[at], trail[Len(trail)])
    /\ pc = "found" => IsWitness(graph, atom, prefix)

IInv == TypeOK /\ TreeInv /\ ScanInv /\ ReachInv /\ TraceInv

-----------------------------------------------------------------------------
LEMMA InitIInv == Init => IInv
<1> SUFFICES ASSUME Init PROVE IInv
  OBVIOUS
<1>1. TypeOK
  BY GraphAssumption DEF Init, TypeOK, NoIndex
<1>2. TreeInv
  BY DEF Init, TreeInv, NoIndex
<1>3. ScanInv
  BY DEF Init, ScanInv
<1>4. ReachInv
  BY StartReachable DEF Init, ReachInv
<1>5. TraceInv
  BY DEF Init, TraceInv
<1>. QED
  BY <1>1, <1>2, <1>3, <1>4, <1>5 DEF IInv

(* The facts about the scan that hold of every state of the search.        *)
LEMMA CandidateType ==
    ASSUME IInv, pc = "expand", pos <= Len(Neighbours)
    PROVE  /\ states[current] \in Node
           /\ Neighbours \in Seq(Node)
           /\ pos \in 1..Len(Neighbours)
           /\ Candidate \in Node
           /\ Edge(graph, states[current], Candidate)
<1>1. states[current] \in Node
  BY DEF IInv, TypeOK, ScanInv
<1>2. Neighbours \in Seq(Node)
  BY <1>1, GraphAssumption DEF IInv, TypeOK, Neighbours
<1>3. pos \in 1..Len(Neighbours)
  BY <1>2 DEF IInv, TypeOK, ScanInv
<1>. QED
  BY <1>1, <1>2, <1>3 DEF Candidate, Edge, Neighbours

LEMMA NextTypeOK == IInv /\ [Next]_vars => TypeOK'
<1> SUFFICES ASSUME IInv, [Next]_vars PROVE TypeOK'
  OBVIOUS
<1>0. TypeOK /\ TreeInv /\ ScanInv /\ TraceInv
  BY DEF IInv
<1>1. CASE Hit
  BY <1>0, <1>1 DEF TypeOK, Hit, args, tables
<1>2. CASE Expand
  BY <1>0, <1>2 DEF TypeOK, Expand, args, tables
<1>3. CASE SkipKnown
  BY <1>0, <1>3 DEF TypeOK, SkipKnown, args, tables
<1>4. CASE Discover
  <2>2. Candidate \in Node
    BY <1>4, CandidateType DEF Discover
  <2>3. DOMAIN index' = DOMAIN index \cup {Candidate}
    BY <1>4 DEF Discover
  <2>4. index' \in [DOMAIN index' -> Nat]
    BY <1>0, <1>4, <2>3 DEF TypeOK, Discover
  <2>. QED
    BY <1>0, <1>4, <2>2, <2>3, <2>4 DEF TypeOK, Discover, args
<1>5. CASE Advance
  BY <1>0, <1>5 DEF TypeOK, Advance, args, tables
<1>6. CASE Exhausted
  BY <1>0, <1>6 DEF TypeOK, Exhausted, args, tables
<1>7. CASE Climb
  <2>1. at \in 1..Len(states)
    BY <1>0, <1>7 DEF Climb, TraceInv, TypeOK, NoIndex
  <2>2. states[at] \in Node /\ parent[at] \in Nat
    BY <1>0, <2>1 DEF TypeOK, TreeInv
  <2>. QED
    BY <1>0, <1>7, <2>2 DEF TypeOK, Climb, args, tables
<1>8. CASE ReturnRun
  <2>1. Reverse(trail) \in Seq(Node)
    BY <1>0, ReverseFacts DEF TypeOK
  <2>. QED
    BY <1>0, <1>8, <2>1 DEF TypeOK, ReturnRun, args, tables
<1>9. CASE UNCHANGED vars
  BY <1>0, <1>9 DEF TypeOK, vars
<1>. QED
  BY <1>1, <1>2, <1>3, <1>4, <1>5, <1>6, <1>7, <1>8, <1>9 DEF Next

LEMMA NextTreeInv == IInv /\ [Next]_vars => TreeInv'
<1> SUFFICES ASSUME IInv, [Next]_vars PROVE TreeInv'
  OBVIOUS
<1>0. TypeOK /\ TreeInv /\ ScanInv
  BY DEF IInv
<1>1. CASE Discover
  <2>1. Candidate \in Node /\ Edge(graph, states[current], Candidate)
    BY <1>1, CandidateType DEF Discover
  <2>2. states' = Append(states, Candidate) /\ parent' = Append(parent, current)
        /\ graph' = graph /\ Candidate \notin DOMAIN index
    BY <1>1 DEF Discover, args
  <2>3. DOMAIN index' = DOMAIN index \cup {Candidate}
    BY <1>1 DEF Discover
  <2>4. /\ Len(states') = Len(states) + 1
        /\ states'[Len(states) + 1] = Candidate
        /\ \A i \in 1..Len(states) : states'[i] = states[i]
    BY <1>0, <2>1, <2>2 DEF TypeOK
  <2>5. /\ Len(parent') = Len(states) + 1
        /\ parent'[Len(states) + 1] = current
        /\ \A i \in 1..Len(states) : parent'[i] = parent[i]
    BY <1>0, <2>2 DEF TypeOK, TreeInv
  <2>6. DOMAIN index' = {states'[i] : i \in 1..Len(states')}
    <3>1. ASSUME NEW n \in DOMAIN index
          PROVE  \E i \in 1..Len(states') : states'[i] = n
      <4>1. PICK i \in 1..Len(states) : states[i] = n
        BY <1>0 DEF TreeInv
      <4>2. i \in 1..Len(states') /\ states'[i] = n
        BY <4>1, <2>4, <1>0 DEF TypeOK
      <4>. QED
        BY <4>2
    <3>2. \E i \in 1..Len(states') : states'[i] = Candidate
      <4>1. Len(states) + 1 \in 1..Len(states')
        BY <2>4, <1>0 DEF TypeOK
      <4>. QED
        BY <4>1, <2>4
    <3>3. ASSUME NEW i \in 1..Len(states')
          PROVE  states'[i] \in DOMAIN index \cup {Candidate}
      <4>1. i \in 1..Len(states) \/ i = Len(states) + 1
        BY <2>4, <1>0 DEF TypeOK
      <4>. QED
        BY <4>1, <2>4, <1>0 DEF TreeInv
    <3>. QED
      BY <3>1, <3>2, <3>3, <2>3
  <2>7. \A i \in 1..Len(states') : index'[states'[i]] = i
    <3>1. \A i \in 1..Len(states) : states[i] \in DOMAIN index
      BY <1>0 DEF TreeInv
    <3>2. index'[Candidate] = Len(states) + 1
      BY <1>1 DEF Discover
    <3>3. \A n \in DOMAIN index : index'[n] = index[n]
      BY <1>1, <2>2 DEF Discover
    <3>4. \A i \in 1..Len(states) : index'[states'[i]] = i
      BY <1>0, <2>4, <3>1, <3>3 DEF TreeInv
    <3>5. \A i \in 1..Len(states') : i \in 1..Len(states) \/ i = Len(states) + 1
      BY <2>4, <1>0 DEF TypeOK
    <3>. QED
      BY <2>4, <3>2, <3>4, <3>5
  <2>8. current \in 1..Len(states)
    BY <1>0, <1>1 DEF Discover, ScanInv
  <2>9. \A i \in 2..Len(states') :
           parent'[i] \in 1..(i - 1) /\ Edge(graph', states'[parent'[i]], states'[i])
    <3> SUFFICES ASSUME NEW i \in 2..Len(states')
                 PROVE  parent'[i] \in 1..(i - 1) /\ Edge(graph', states'[parent'[i]], states'[i])
      OBVIOUS
    <3>1. CASE i = Len(states) + 1
      BY <3>1, <2>1, <2>2, <2>4, <2>5, <2>8, <1>0 DEF TypeOK
    <3>2. CASE i # Len(states) + 1
      <4>1. i \in 2..Len(states)
        BY <3>2, <2>4, <1>0 DEF TypeOK
      <4>2. parent[i] \in 1..(i - 1) /\ parent[i] \in 1..Len(states)
        BY SMTT(30), <4>1, <1>0 DEF TreeInv, TypeOK
      <4>3. parent'[i] = parent[i] /\ states'[i] = states[i] /\ states'[parent[i]] = states[parent[i]]
        BY <4>1, <4>2, <2>4, <2>5
      <4>. QED
        BY <4>1, <4>2, <4>3, <2>2, <1>0 DEF TreeInv
    <3>. QED
      BY <3>1, <3>2
  <2>. QED
    BY <1>0, <2>4, <2>5, <2>6, <2>7, <2>9 DEF TypeOK, TreeInv
<1>2. CASE UNCHANGED <<graph, index, states, parent>>
  BY <1>0, <1>2 DEF TreeInv, Edge
<1>. QED
  BY <1>1, <1>2 DEF Next, Hit, Expand, SkipKnown, Advance, Exhausted, Climb, ReturnRun,
                    args, tables, vars
LEMMA NextScanInv == IInv /\ [Next]_vars => ScanInv'
<1> SUFFICES ASSUME IInv, [Next]_vars PROVE ScanInv'
  OBVIOUS
<1>0. TypeOK /\ TreeInv /\ ScanInv /\ TraceInv
  BY DEF IInv
<1>1. CASE Hit
  BY <1>0, <1>1 DEF Hit, ScanInv, args, tables
<1>2. CASE Expand
  BY <1>0, <1>2 DEF Expand, ScanInv, TypeOK, args, tables
<1>3. CASE SkipKnown
  BY SMTT(30), <1>0, <1>3 DEF SkipKnown, ScanInv, TypeOK, Candidate, Neighbours, args, tables
<1>4. CASE Discover
  <2>1. Candidate \in Node
    BY <1>4, CandidateType DEF Discover
  <2>2. /\ Len(states') = Len(states) + 1
        /\ \A i \in 1..Len(states) : states'[i] = states[i]
    BY <1>0, <1>4, <2>1 DEF TypeOK, Discover
  <2>3. DOMAIN index' = DOMAIN index \cup {Candidate}
    BY <1>4 DEF Discover
  <2>4. pc = "expand" /\ pc' = "expand" /\ current' = current /\ pos' = pos + 1
        /\ graph' = graph /\ atom' = atom
    BY <1>4 DEF Discover, args
  <2>5. current \in 1..Len(states) /\ states'[current] = states[current]
    BY <1>0, <2>4, <2>2 DEF ScanInv
  <2>6. \A i \in 1..Len(states') :
           i < current' =>
              /\ states'[i] \notin atom'
              /\ \A j \in 1..Len(graph'[states'[i]]) : graph'[states'[i]][j] \in DOMAIN index'
    <3>1. \A i \in 1..Len(states') : i < current => i \in 1..Len(states)
      BY <1>0, <2>2, <2>5 DEF TypeOK
    <3>. QED
      BY <1>0, <2>2, <2>3, <2>4, <3>1 DEF ScanInv
  <2>7. \A j \in 1..Len(graph[states[current]]) :
           j < pos + 1 => graph[states[current]][j] \in DOMAIN index'
    BY <1>0, <2>3, <2>4 DEF ScanInv, TypeOK, Candidate, Neighbours
  <2>. QED
    BY <1>0, <2>2, <2>4, <2>5, <2>6, <2>7 DEF ScanInv, TypeOK
<1>5. CASE Advance
  <2>1. Neighbours \in Seq(Node)
    BY <1>0, <1>5, GraphAssumption DEF Advance, ScanInv, TypeOK, Neighbours
  <2>2. \A j \in 1..Len(Neighbours) : Neighbours[j] \in DOMAIN index
    BY <1>0, <1>5, <2>1 DEF Advance, ScanInv, TypeOK, Neighbours
  <2>3. /\ pc = "expand" /\ pc' = "visit" /\ current' = current + 1
        /\ UNCHANGED <<graph, atom, index, states>>
    BY <1>5 DEF Advance, args, tables
  <2>4. \A i \in 1..Len(states) : i < current + 1 => i < current \/ i = current
    BY <1>0 DEF TypeOK
  <2>5. current' \in 1..(Len(states) + 1)
    BY <1>0, <2>3 DEF ScanInv, TypeOK
  <2>. QED
    BY <1>0, <2>2, <2>3, <2>4, <2>5 DEF ScanInv, Neighbours
<1>6. CASE Exhausted
  BY <1>0, <1>6 DEF Exhausted, ScanInv, args, tables
<1>7. CASE Climb
  BY <1>0, <1>7 DEF Climb, ScanInv, args, tables
<1>8. CASE ReturnRun
  BY <1>0, <1>8 DEF ReturnRun, ScanInv, args, tables
<1>9. CASE UNCHANGED vars
  BY <1>0, <1>9 DEF ScanInv, vars
<1>. QED
  BY <1>1, <1>2, <1>3, <1>4, <1>5, <1>6, <1>7, <1>8, <1>9 DEF Next

LEMMA NextReachInv == IInv /\ [Next]_vars => ReachInv'
<1> SUFFICES ASSUME IInv, [Next]_vars PROVE ReachInv'
  OBVIOUS
<1>0. TypeOK /\ ScanInv /\ ReachInv
  BY DEF IInv
<1>1. CASE Discover
  <2>1. Candidate \in Node /\ states[current] \in Node /\ pos \in 1..Len(Neighbours)
    BY <1>1, CandidateType DEF Discover
  <2>2. states[current] \in Reachable(graph)
    BY <1>0, <1>1 DEF ReachInv, ScanInv, Discover
  <2>3. Candidate \in Reachable(graph)
    BY <1>0, <2>1, <2>2, SuccessorReachable DEF TypeOK, Candidate, Neighbours
  <2>4. /\ Len(states') = Len(states) + 1
        /\ states'[Len(states) + 1] = Candidate
        /\ \A i \in 1..Len(states) : states'[i] = states[i]
    BY <1>0, <1>1, <2>1 DEF TypeOK, Discover
  <2>5. \A i \in 1..Len(states') : i \in 1..Len(states) \/ i = Len(states) + 1
    BY <2>4, <1>0 DEF TypeOK
  <2>6. graph' = graph
    BY <1>1 DEF Discover, args
  <2>. QED
    BY <1>0, <2>3, <2>4, <2>5, <2>6 DEF ReachInv
<1>2. CASE UNCHANGED <<graph, states>>
  BY <1>0, <1>2 DEF ReachInv, Reachable, Closed
<1>. QED
  BY <1>1, <1>2 DEF Next, Hit, Expand, SkipKnown, Advance, Exhausted, Climb, ReturnRun,
                    args, tables, vars

(* The trail of a finished trace, reversed, is a witness.                  *)
LEMMA ReversedTrail ==
    ASSUME IInv, pc = "trace", at = NoIndex
    PROVE  IsWitness(graph, atom, Reverse(trail))
<1>0. TypeOK /\ TraceInv /\ TreeInv /\ ScanInv
  BY DEF IInv
<1> DEFINE r == Reverse(trail)
<1>1. trail # << >>
  BY <1>0 DEF TraceInv, ScanInv, NoIndex
<1>2. /\ Len(trail) \in Nat \ {0}
      /\ Len(r) = Len(trail)
      /\ \A i \in 1..Len(trail) : r[i] = trail[Len(trail) - i + 1]
      /\ r # << >>
  BY <1>0, <1>1, ReverseFacts DEF TypeOK
<1>3. r[1] = Start
  BY <1>0, <1>1, <1>2 DEF TraceInv
<1>4. IsPath(graph, r)
  BY <1>0, <1>1, ReversedChain DEF TypeOK, TraceInv
<1>5. \A i \in 1..Len(r) : r[i] \in atom <=> i = Len(r)
  <2> SUFFICES ASSUME NEW i \in 1..Len(r) PROVE r[i] \in atom <=> i = Len(r)
    OBVIOUS
  <2> DEFINE j == Len(trail) - i + 1
  <2>1. j \in 1..Len(trail) /\ (j = 1 <=> i = Len(r)) /\ (j # 1 => j \in 2..Len(trail))
    BY <1>2
  <2>2. r[i] = trail[j]
    BY <1>2
  <2>. HIDE DEF r, j
  <2>. QED
    BY <2>1, <2>2, <1>0, <1>1 DEF TraceInv
<1>. QED
  BY <1>2, <1>3, <1>4, <1>5 DEF IsWitness

LEMMA NextTraceInv == IInv /\ [Next]_vars => TraceInv'
<1> SUFFICES ASSUME IInv, [Next]_vars PROVE TraceInv'
  OBVIOUS
<1>0. TypeOK /\ TreeInv /\ ScanInv /\ TraceInv
  BY DEF IInv
<1>1. CASE Hit
  BY <1>0, <1>1 DEF Hit, TraceInv, ScanInv, TypeOK, args, tables
<1>2. CASE Expand \/ SkipKnown \/ Discover \/ Advance
  BY <1>0, <1>2 DEF Expand, SkipKnown, Discover, Advance, TraceInv
<1>3. CASE Exhausted
  BY <1>0, <1>3 DEF Exhausted, TraceInv
<1>4. CASE Climb
  <2>1. /\ pc = "trace" /\ pc' = "trace"
        /\ graph' = graph /\ atom' = atom /\ states' = states /\ current' = current
        /\ at' = parent[at]
        /\ trail' = Append(trail, states[at])
    BY <1>4 DEF Climb, args, tables
  <2>2. at \in 1..Len(states) /\ at \in 1..current
    BY <1>0, <1>4 DEF Climb, TraceInv, ScanInv, TypeOK, NoIndex
  <2>3. states[at] \in Node
    BY <1>0, <2>2 DEF TypeOK
  <2>4. /\ Len(trail) \in Nat
        /\ Len(trail') = Len(trail) + 1
        /\ trail' # << >>
        /\ trail'[Len(trail) + 1] = states[at]
        /\ \A i \in 1..Len(trail) : trail'[i] = trail[i]
    BY <1>0, <2>1, <2>3 DEF TypeOK
  <2>5. \/ at = 1 /\ parent[at] = NoIndex
        \/ at \in 2..Len(states) /\ parent[at] \in 1..(at - 1)
    BY <1>0, <2>2 DEF TreeInv, TypeOK
  <2>6. at' \in 0..Len(states) /\ at' < current
    BY <1>0, <2>1, <2>2, <2>5 DEF TypeOK, NoIndex
  <2>7. at' = NoIndex => trail'[Len(trail')] = Start
    BY <1>0, <2>1, <2>4, <2>5 DEF TreeInv, TypeOK, NoIndex
  <2>8. at' # NoIndex => Edge(graph, states[at'], trail'[Len(trail')])
    BY <1>0, <2>1, <2>4, <2>5 DEF TreeInv, NoIndex
  <2>9. CASE trail = << >>
    <3>1. at = current /\ states[at] \in atom
      BY <1>0, <2>1, <2>9 DEF TraceInv
    <3>2. Len(trail') = 1 /\ trail'[1] \in atom
      BY <3>1, <2>4, <2>9
    <3>. QED
      BY <3>2, <2>1, <2>4, <2>6, <2>7, <2>8, <1>0 DEF TraceInv
  <2>10. CASE trail # << >>
    <3>1. states[at] \notin atom
      BY <1>0, <2>1, <2>2, <2>10 DEF TraceInv, ScanInv
    <3>2. Len(trail) >= 1
      BY <1>0, <2>10 DEF TypeOK
    <3>3. trail'[1] \in atom
      BY <3>2, <2>4, <1>0, <2>1, <2>10 DEF TraceInv
    <3>4. \A i \in 2..Len(trail') : trail'[i] \notin atom
      <4>1. \A i \in 2..Len(trail') : i \in 2..Len(trail) \/ i = Len(trail) + 1
        BY <2>4
      <4>2. \A i \in 2..Len(trail) : trail'[i] = trail[i]
        BY <2>4
      <4>. QED
        BY <4>1, <4>2, <3>1, <2>1, <2>4, <2>10, <1>0 DEF TraceInv
    <3>5. Edge(graph, states[at], trail[Len(trail)])
      BY <1>0, <2>1, <2>2, <2>10 DEF TraceInv, NoIndex
    <3>6. \A i \in 1..(Len(trail') - 1) : Edge(graph, trail'[i + 1], trail'[i])
      <4> SUFFICES ASSUME NEW i \in 1..(Len(trail') - 1)
                   PROVE  Edge(graph, trail'[i + 1], trail'[i])
        OBVIOUS
      <4>1. CASE i = Len(trail)
        BY <4>1, <3>5, <3>2, <2>4
      <4>2. CASE i # Len(trail)
        <5>1. i \in 1..(Len(trail) - 1) /\ i \in 1..Len(trail) /\ i + 1 \in 1..Len(trail)
          BY <4>2, <2>4
        <5>. QED
          BY <5>1, <2>1, <2>4, <2>10, <1>0 DEF TraceInv
      <4>. QED
        BY <4>1, <4>2
    <3>. QED
      BY <3>3, <3>4, <3>6, <2>1, <2>4, <2>6, <2>7, <2>8, <1>0 DEF TraceInv
  <2>. QED
    BY <2>9, <2>10
<1>5. CASE ReturnRun
  <2>1. IsWitness(graph, atom, Reverse(trail))
    BY <1>5, ReversedTrail DEF ReturnRun
  <2>. QED
    BY <1>0, <1>5, <2>1 DEF ReturnRun, TraceInv, args, tables
<1>6. CASE UNCHANGED vars
  BY <1>0, <1>6 DEF TraceInv, vars
<1>. QED
  BY <1>1, <1>2, <1>3, <1>4, <1>5, <1>6 DEF Next

-----------------------------------------------------------------------------
(* The invariant decides the formula: an exhausted search has stored a     *)
(* closed set without an atom state, which contains the reachable nodes.   *)
LEMMA IInvDecides == IInv => DecidesEF
<1> SUFFICES ASSUME IInv PROVE DecidesEF
  OBVIOUS
<1>0. TypeOK /\ TreeInv /\ ScanInv /\ ReachInv /\ TraceInv
  BY DEF IInv
<1>1. ASSUME pc = "none" PROVE ~EF(graph, atom)
  <2>1. \A i \in 1..Len(states) : i < current
    BY <1>0, <1>1 DEF ScanInv, TypeOK
  <2>2. Start \in DOMAIN index
    BY <1>0 DEF TreeInv, TypeOK
  <2>3. Closed(graph, DOMAIN index)
    BY <1>0, <2>1 DEF Closed, TreeInv, ScanInv
  <2>4. Reachable(graph) \subseteq DOMAIN index
    BY <1>0, <2>2, <2>3, ReachableInClosed DEF TypeOK
  <2>. QED
    BY <1>0, <2>1, <2>4 DEF EF, TreeInv, ScanInv
<1>2. ASSUME pc = "found" PROVE EF(graph, atom) /\ IsWitness(graph, atom, prefix)
  <2>1. current \in 1..Len(states) /\ states[current] \in atom
    BY <1>0, <1>2 DEF TraceInv, ScanInv, TypeOK
  <2>. QED
    BY <1>0, <1>2, <2>1 DEF EF, ReachInv, TraceInv
<1>. QED
  BY <1>1, <1>2 DEF DecidesEF

(* The invariant of the search holds in every state of every execution.    *)
THEOREM Invariance == Spec => []IInv
<1>1. IInv /\ [Next]_vars => IInv'
  BY NextTypeOK, NextTreeInv, NextScanInv, NextReachInv, NextTraceInv DEF IInv
<1>. QED
  BY InitIInv, <1>1, PTL DEF Spec

(* The search's variables keep their types, on every state graph.          *)
THEOREM TypeCorrect == Spec => []TypeOK
<1>1. IInv => TypeOK
  BY DEF IInv
<1>. QED
  BY Invariance, <1>1, PTL

(* The hash table and the vectors always describe the same tree.           *)
THEOREM TreeCorrect == Spec => []TreeInv
<1>1. IInv => TreeInv
  BY DEF IInv
<1>. QED
  BY Invariance, <1>1, PTL

(* search_eventually() decides E F(atom), whatever the graph and the atom: *)
(* it returns no run only if there is none, and the run it returns is a    *)
(* path from the initial state to the first atom state on it.              *)
THEOREM Correct == Spec => []DecidesEF
BY Invariance, IInvDecides, PTL

-----------------------------------------------------------------------------
(* The stored states are in breadth-first order, and a trace is as long as *)
(* the layers it has climbed.                                              *)
DepthInv ==
    \E d : /\ Layers(graph, states, parent, current, d)
           /\ pc = "trace" => Len(trail) + (IF at = NoIndex THEN 0 ELSE d[at]) = d[current]
           /\ pc = "found" => Len(prefix) = d[current]

LEMMA InitDepthInv == Init => DepthInv
<1> SUFFICES ASSUME Init PROVE DepthInv
  OBVIOUS
<1>1. Layers(graph, states, parent, current, [i \in 1..1 |-> 1])
  BY LayersInit DEF Init
<1>. QED
  BY <1>1 DEF Init, DepthInv

(* Processed states have all their successors stored.                      *)
LEMMA ScanExpands == IInv => Expanded(graph, states, current)
  BY DEF IInv, ScanInv, TreeInv, Expanded

LEMMA NextDepthInv == IInv /\ DepthInv /\ [Next]_vars => DepthInv'
<1> SUFFICES ASSUME IInv, DepthInv, [Next]_vars PROVE DepthInv'
  OBVIOUS
<1>0. TypeOK /\ TreeInv /\ ScanInv /\ TraceInv
  BY DEF IInv
<1>1. PICK d : /\ Layers(graph, states, parent, current, d)
               /\ pc = "trace" => Len(trail) + (IF at = NoIndex THEN 0 ELSE d[at]) = d[current]
               /\ pc = "found" => Len(prefix) = d[current]
  BY DEF DepthInv
<1>2. CASE Discover
  <2> DEFINE e == [i \in 1..(Len(states) + 1) |->
                      IF i = Len(states) + 1 THEN d[current] + 1 ELSE d[i]]
  <2>1. Candidate \in Node
    BY <1>2, CandidateType DEF Discover
  <2>2. /\ states' = Append(states, Candidate) /\ parent' = Append(parent, current)
        /\ graph' = graph /\ current' = current /\ pc' = "expand" /\ pc = "expand"
        /\ Candidate \notin DOMAIN index
    BY <1>2 DEF Discover, args
  <2>3. current \in 1..Len(states) /\ \A i \in 1..Len(states) : states[i] # Candidate
    BY <1>0, <2>2 DEF ScanInv, TreeInv
  <2>4. \A i \in 2..Len(states) : parent[i] \in 1..(i - 1)
    BY <1>0 DEF TreeInv
  <2>5. Layers(graph, Append(states, Candidate), Append(parent, current), current, e)
    <3>1. states \in Seq(Node) /\ parent \in Seq(Nat) /\ Len(parent) = Len(states)
      BY <1>0 DEF TypeOK, TreeInv
    <3>2. Expanded(graph, states, current)
      BY ScanExpands
    <3>. QED
      BY <1>1, <2>1, <2>3, <2>4, <3>1, <3>2, LayersAppend
  <2>. HIDE DEF e
  <2>6. Layers(graph', states', parent', current', e)
    BY <2>2, <2>5
  <2>. QED
    BY <2>2, <2>6 DEF DepthInv
<1>3. CASE Advance
  <2>1. /\ UNCHANGED <<graph, states, parent>> /\ current' = current + 1 /\ pc = "expand"
        /\ pc' = "visit"
    BY <1>3 DEF Advance, args, tables
  <2>2. current \in 1..Len(states) /\ states \in Seq(Node)
    BY <1>0, <2>1 DEF ScanInv, TypeOK
  <2>3. Layers(graph, states, parent, current + 1, d)
    BY <1>1, <2>2, LayersAdvance
  <2>4. Layers(graph', states', parent', current', d)
    BY <2>1, <2>3
  <2>. QED
    BY <2>1, <2>4 DEF DepthInv
<1>4. ASSUME UNCHANGED <<graph, states, parent, current>>,
             pc' = "trace" => Len(trail') + (IF at' = NoIndex THEN 0 ELSE d[at']) = d[current],
             pc' = "found" => Len(prefix') = d[current]
      PROVE  DepthInv'
  <2>1. Layers(graph', states', parent', current', d)
    BY <1>1, <1>4
  <2>. QED
    BY <1>4, <2>1 DEF DepthInv
<1>5. CASE Hit
  <2>1. /\ UNCHANGED <<graph, states, parent, current, trail>> /\ pc' = "trace" /\ pc = "visit"
        /\ at' = current /\ current <= Len(states)
    BY <1>5 DEF Hit, args, tables
  <2>2. trail = << >> /\ current \in 1..Len(states)
    BY <1>0, <2>1 DEF TraceInv, ScanInv, TypeOK
  <2>3. d[current] \in Nat
    BY <1>1, <2>2 DEF Layers
  <2>4. Len(trail') + (IF at' = NoIndex THEN 0 ELSE d[at']) = d[current]
    BY <2>1, <2>2, <2>3 DEF NoIndex
  <2>. QED
    BY <1>4, <2>1, <2>4
<1>6. CASE Climb
  <2>1. /\ UNCHANGED <<graph, states, parent, current>> /\ pc' = "trace" /\ pc = "trace"
        /\ at # NoIndex /\ at' = parent[at] /\ trail' = Append(trail, states[at])
    BY <1>6 DEF Climb, args, tables
  <2>2. at \in 1..Len(states) /\ current \in 1..Len(states) /\ trail \in Seq(Node)
    BY <1>0, <2>1 DEF TraceInv, ScanInv, TypeOK, NoIndex
  <2>3. Len(trail') = Len(trail) + 1 /\ Len(trail) \in Nat
    BY <2>1, <2>2
  <2>4. d[at] \in Nat /\ d[current] \in Nat
    BY <1>1, <2>2 DEF Layers
  <2>5. d[at] = (IF at' = NoIndex THEN 0 ELSE d[at']) + 1
    <3>1. CASE at = 1
      BY <3>1, <1>0, <1>1, <2>1 DEF TreeInv, Layers, NoIndex
    <3>2. CASE at # 1
      <4>1. at \in 2..Len(states)
        BY <3>2, <2>2
      <4>. QED
        BY <4>1, <1>0, <1>1, <2>1 DEF TreeInv, Layers, NoIndex
    <3>. QED
      BY <3>1, <3>2
  <2>6. /\ (IF at' = NoIndex THEN 0 ELSE d[at']) \in Nat
        /\ Len(trail) + d[at] = d[current]
    <3>1. at' = NoIndex \/ at' \in 1..Len(states)
      <4>1. CASE at = 1
        BY <4>1, <1>0, <2>1 DEF TreeInv
      <4>2. CASE at # 1
        <5>1. at \in 2..Len(states)
          BY <4>2, <2>2
        <5>. QED
          BY <5>1, <1>0, <2>1 DEF TreeInv
      <4>. QED
        BY <4>1, <4>2
    <3>. QED
      BY <3>1, <1>1, <2>1 DEF Layers
  <2>7. Len(trail') + (IF at' = NoIndex THEN 0 ELSE d[at']) = d[current]
    BY <2>3, <2>4, <2>5, <2>6
  <2>. QED
    BY <1>4, <2>1, <2>7
<1>7. CASE ReturnRun
  <2>1. /\ UNCHANGED <<graph, states, parent, current>> /\ pc' = "found" /\ pc = "trace"
        /\ at = NoIndex /\ prefix' = Reverse(trail)
    BY <1>7 DEF ReturnRun, args, tables
  <2>2. Len(prefix') = Len(trail) /\ Len(trail) \in Nat
    BY <1>0, <2>1, ReverseFacts DEF TypeOK
  <2>3. Len(trail) + 0 = d[current]
    BY <1>1, <2>1
  <2>. QED
    BY <1>4, <2>1, <2>2, <2>3
<1>8. CASE Expand \/ SkipKnown \/ Exhausted
  BY <1>4, <1>8 DEF Expand, SkipKnown, Exhausted, args, tables
<1>9. CASE UNCHANGED vars
  BY <1>1, <1>4, <1>9 DEF vars
<1>. QED
  BY <1>2, <1>3, <1>5, <1>6, <1>7, <1>8, <1>9 DEF Next

(* A shorter path to the atom would end in a layer above that of the state *)
(* that was hit, so in a state that was processed and is not in the atom.  *)
LEMMA DepthIsShortest == IInv /\ DepthInv => ShortestWitness
<1> SUFFICES ASSUME IInv, DepthInv, pc = "found",
                    NEW k \in 1..(Len(prefix) - 1),
                    NEW p \in PathsOfLength(graph, k)
             PROVE  p[k] \notin atom
  BY DEF ShortestWitness
<1>0. TypeOK /\ TreeInv /\ ScanInv /\ TraceInv
  BY DEF IInv
<1>1. PICK d : Layers(graph, states, parent, current, d) /\ Len(prefix) = d[current]
  BY DEF DepthInv
<1>2. current \in 1..Len(states) /\ d[current] \in Nat
  BY <1>0, <1>1 DEF TraceInv, ScanInv, TypeOK, Layers
<1>3. k \in Nat \ {0} /\ k < d[current]
  BY <1>1, <1>2
<1>4. PICK m \in 1..Len(states) : states[m] = p[k] /\ d[m] <= k
  <2>1. /\ states \in Seq(Node) /\ states # << >> /\ states[1] = Start
        /\ current \in Nat /\ current >= 1
    BY <1>0, <1>2 DEF TypeOK, TreeInv
  <2>2. Expanded(graph, states, current)
    BY ScanExpands
  <2>3. current <= Len(states) => current >= 1 /\ k <= d[current]
    BY <1>2, <1>3
  <2>. QED
    BY <1>1, <1>3, <2>1, <2>2, <2>3, LayersBound
<1>5. m < current
  <2>1. d[m] \in Nat /\ (current <= m => d[current] <= d[m])
    BY <1>1, <1>2 DEF Layers
  <2>. QED
    BY <2>1, <1>2, <1>3, <1>4
<1>. QED
  BY <1>0, <1>4, <1>5 DEF ScanInv

(* "The shortest witness run": whatever the graph, no path with fewer      *)
(* states than the run that is returned leads from the initial state to an *)
(* atom state.                                                             *)
THEOREM Shortest == Spec => []ShortestWitness
<1>1. Init => DepthInv
  BY InitDepthInv
<1>2. IInv /\ DepthInv /\ [Next]_vars => DepthInv'
  BY NextDepthInv
<1>3. IInv /\ DepthInv => ShortestWitness
  BY DepthIsShortest
<1>. QED
  BY Invariance, <1>1, <1>2, <1>3, PTL DEF Spec
=============================================================================
