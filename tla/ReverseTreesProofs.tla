------------------------- MODULE ReverseTreesProofs -------------------------
(***************************************************************************)
(* What holds of ReverseTrees for every grammar.                           *)
(*                                                                         *)
(* TreeInv says that every tree on its way to the cache climbs the         *)
(* grammar.  It is inductive because each node says where in the grammar   *)
(* the production below it is used: a cut joins two nodes that have the    *)
(* same production below them, and a mutation only replaces what is above  *)
(* a node.  NameInv follows a path from the test for duplicates to the     *)
(* cache; MatchInv and BuildInv say that matches, references and the       *)
(* regeneration under way keep pointing into a cache that only grows.      *)
(***************************************************************************)
EXTENDS ReverseTrees, SequenceTheorems, TLAPS

Cache == v_p_cached_reverse_tree

NoRepeat(tree) ==
  \A j, k \in DOMAIN tree : tree[j].prod = tree[k].prod => j = k

IsMutation(m) ==
  m.tree # <<>> /\ Climbs(m.tree) /\ m.at \in 2..Len(m.tree)

IsFinished(tree) == tree # <<>> /\ Climbs(tree) /\ NoRepeat(tree)

TreeInv ==
  /\ pc \in {"climb", "trim"} => path # <<>>
  /\ Climbs(path)
  /\ \A i \in DOMAIN batch : IsMutation(batch[i])
  /\ \A i \in DOMAIN later : \A j \in DOMAIN later[i] : IsMutation(later[i][j])
  /\ \A i \in DOMAIN fresh : IsFinished(fresh[i])
  /\ \A i \in DOMAIN Cache : IsFinished(Cache[i])

NameInv ==
  /\ \A i \in DOMAIN fresh : Names(fresh[i]) \in s_reverse_tree_hash_set
  /\ \A i \in DOMAIN Cache : Names(Cache[i]) \in s_reverse_tree_hash_set
  /\ \A i, j \in DOMAIN fresh : Names(fresh[i]) = Names(fresh[j]) => i = j
  /\ \A i, j \in DOMAIN Cache : Names(Cache[i]) = Names(Cache[j]) => i = j
  /\ \A i \in DOMAIN fresh, j \in DOMAIN Cache : Names(fresh[i]) # Names(Cache[j])

PointsTo(ptr, idx, p) ==
  /\ ptr \in DOMAIN Cache
  /\ idx + 1 \in DOMAIN Cache[ptr]
  /\ Cache[ptr][idx + 1].prod = p

MatchInv ==
  /\ \A i \in DOMAIN Cache : Len(Cache[i]) < MaxDepth
  /\ \A p \in Prods : \A k \in DOMAIN m_cached_reverse_tree[p] :
       PointsTo(m_cached_reverse_tree[p][k].tree, m_cached_reverse_tree[p][k].idx, p)
  /\ \A i \in DOMAIN Cache : \A j \in DOMAIN Cache[i] :
       \E k \in DOMAIN m_cached_reverse_tree[Cache[i][j].prod] :
          /\ m_cached_reverse_tree[Cache[i][j].prod][k].tree = i
          /\ m_cached_reverse_tree[Cache[i][j].prod][k].idx = j - 1

References == {v_ref_reverse_trees[i] : i \in DOMAIN v_ref_reverse_trees}

BuildInv ==
  /\ References \subseteq DOMAIN Cache
  /\ pc \in {"forward", "build", "ready"} => References = used
  /\ call # NoCall =>
       PointsTo(call.tree, call.node_idx_in_tree, call.type)
  /\ pc = "build" =>
       /\ call # NoCall
       /\ cur_iter_idx \in DOMAIN Cache[call.tree]
       /\ top = Cache[call.tree][cur_iter_idx].prod
       /\ ~call.full => cur_iter_idx <= call.node_idx_in_tree
  /\ pc \in {"forward", "ready"} /\ call # NoCall /\ ~call.full =>
       top = call.type

TreesInv == TypeOK /\ TreeInv /\ NameInv /\ MatchInv /\ BuildInv

-----------------------------------------------------------------------------
(* Sequences                                                               *)

(* A function on 1..n is a sequence of length n.                           *)
LEMMA FunctionIsSeq ==
  ASSUME NEW S, NEW n \in Nat, NEW f \in [1..n -> S]
  PROVE  f \in Seq(S) /\ Len(f) = n /\ DOMAIN f = 1..n
<1>1. f \in Seq(S)
  BY SeqDef
<1>2. DOMAIN f = 1..Len(f) /\ Len(f) \in Nat
  BY <1>1, LenProperties
<1>3. DOMAIN f = 1..n
  OBVIOUS
<1>. QED  BY <1>1, <1>2, <1>3

(* The domain and the elements of a sequence.                              *)
LEMMA SeqFacts ==
  ASSUME NEW S, NEW s \in Seq(S)
  PROVE  /\ Len(s) \in Nat /\ DOMAIN s = 1..Len(s)
         /\ \A k \in 1..Len(s) : s[k] \in S
         /\ s # <<>> => Len(s) >= 1 /\ 1 \in DOMAIN s /\ Len(s) \in DOMAIN s
<1>1. Len(s) \in Nat /\ s \in [1..Len(s) -> S]
  BY LenProperties
<1>2. s # <<>> => Len(s) # 0
  OBVIOUS
<1>. QED  BY <1>1, <1>2

(* What appending an element does.                                         *)
LEMMA AppendFacts ==
  ASSUME NEW S, NEW s \in Seq(S), NEW e \in S
  PROVE  /\ Append(s, e) \in Seq(S)
         /\ Len(s) \in Nat /\ Len(Append(s, e)) = Len(s) + 1
         /\ DOMAIN s = 1..Len(s) /\ DOMAIN Append(s, e) = 1..(Len(s) + 1)
         /\ \A k \in 1..Len(s) : Append(s, e)[k] = s[k]
         /\ Append(s, e)[Len(s) + 1] = e
         /\ \A k \in DOMAIN Append(s, e) : k \in DOMAIN s \/ k = Len(s) + 1
         /\ \A k \in DOMAIN s : k \in DOMAIN Append(s, e)
<1>1. /\ Append(s, e) \in Seq(S) /\ Len(Append(s, e)) = Len(s) + 1
      /\ \A k \in 1..Len(s) : Append(s, e)[k] = s[k]
      /\ Append(s, e)[Len(s) + 1] = e
  BY AppendProperties
<1>2. Len(s) \in Nat /\ DOMAIN s = 1..Len(s)
  BY SeqFacts
<1>3. DOMAIN Append(s, e) = 1..(Len(s) + 1)
  BY <1>1, SeqFacts
<1>. QED  BY <1>1, <1>2, <1>3

(* Each element of the longer sequence is an old one or the new one.       *)
IsLonger(t, s, e) ==
  \A k \in DOMAIN t : \/ k \in DOMAIN s /\ t[k] = s[k]
                      \/ k = Len(s) + 1 /\ t[k] = e

LEMMA AppendCases ==
  ASSUME NEW S, NEW s \in Seq(S), NEW e \in S
  PROVE  IsLonger(Append(s, e), s, e)
BY AppendFacts DEF IsLonger

-----------------------------------------------------------------------------
(* Paths of the grammar.                                                   *)

(* Short trees climb.                                                      *)
LEMMA LeafClimbs ==
  ASSUME NEW p \in Prods
  PROVE  <<Leaf(p)>> \in Seq(Nodes) /\ <<Leaf(p)>> # <<>> /\ Climbs(<<Leaf(p)>>)
<1>1. Leaf(p) \in Nodes /\ Leaf(p).prod = p
  BY DEF Leaf, Nodes
<1>2. /\ <<Leaf(p)>> \in Seq(Nodes) /\ Len(<<Leaf(p)>>) = 1
      /\ <<Leaf(p)>>[1] = Leaf(p)
  BY <1>1
<1>3. <<Leaf(p)>>[1] = Leaf(<<Leaf(p)>>[1].prod)
  BY <1>1, <1>2
<1>4. \A k \in 2..Len(<<Leaf(p)>>) : FALSE
  BY <1>2
<1>5. Climbs(<<Leaf(p)>>)
  BY <1>3, <1>4 DEF Climbs
<1>. QED  BY <1>2, <1>5

(* So does the tree that was cleared.                                      *)
LEMMA EmptyClimbs == <<>> \in Seq(Nodes) /\ Climbs(<<>>)
<1>1. \A k \in 2..Len(<<>>) : FALSE
  BY EmptySeq
<1>. QED  BY <1>1, EmptySeq DEF Climbs

(* Every parent of a production is a place of the grammar that holds it.   *)
LEMMA ParentExprsFacts ==
  ASSUME NEW p, NEW n \in ParentExprs(p)
  PROVE  n \in Nodes /\ IsRuleToken(n) /\ Slot(n) = p
<1>1. PICK q \in Prods : n \in UNION {{[prod |-> q, rule |-> r, at |-> k] :
                   k \in {k \in DOMAIN Grammar[q][r] : Grammar[q][r][k] = p}} :
                r \in DOMAIN Grammar[q]}
  BY DEF ParentExprs
<1>2. PICK r \in DOMAIN Grammar[q] : n \in {[prod |-> q, rule |-> r, at |-> k] :
                   k \in {k \in DOMAIN Grammar[q][r] : Grammar[q][r][k] = p}}
  BY <1>1
<1>3. PICK k \in DOMAIN Grammar[q][r] :
        n = [prod |-> q, rule |-> r, at |-> k] /\ Grammar[q][r][k] = p
  BY <1>2
<1>4. Grammar[q] \in Seq(Seq(STRING))
  BY GrammarAssumption
<1>5. Grammar[q][r] \in Seq(STRING)
  BY <1>4
<1>6. r \in Nat /\ k \in Nat
  BY <1>4, <1>5
<1>. QED  BY <1>3, <1>6 DEF Nodes, IsRuleToken, Slot

(* A tree goes on climbing when a parent of its last node is appended.     *)
LEMMA AppendClimbs ==
  ASSUME NEW tree \in Seq(Nodes), tree # <<>>, Climbs(tree),
         NEW n \in ParentExprs(tree[Len(tree)].prod)
  PROVE  /\ Append(tree, n) \in Seq(Nodes)
         /\ Append(tree, n) # <<>>
         /\ Climbs(Append(tree, n))
<1>1. n \in Nodes /\ IsRuleToken(n) /\ Slot(n) = tree[Len(tree)].prod
  BY ParentExprsFacts
<1>2. Append(tree, n) \in Seq(Nodes) /\ Len(Append(tree, n)) = Len(tree) + 1
  BY <1>1
<1>3. /\ Len(tree) \in Nat \ {0}
      /\ \A k \in 1..Len(tree) : Append(tree, n)[k] = tree[k]
      /\ Append(tree, n)[Len(tree) + 1] = n
  BY <1>1
<1>4. Climbs(Append(tree, n))
  BY <1>1, <1>2, <1>3 DEF Climbs
<1>. QED  BY <1>2, <1>3, <1>4

(* A prefix of a tree climbs.                                              *)
LEMMA FilledClimbs ==
  ASSUME NEW tree \in Seq(Nodes), Climbs(tree), NEW at \in 2..Len(tree)
  PROVE  /\ Filled(tree, at) \in Seq(Nodes)
         /\ Filled(tree, at) # <<>>
         /\ Climbs(Filled(tree, at))
         /\ Filled(tree, at)[Len(Filled(tree, at))] = tree[at - 1]
<1>1. /\ Filled(tree, at) \in Seq(Nodes)
      /\ Len(Filled(tree, at)) = at - 1
      /\ \A k \in 1..(at - 1) : Filled(tree, at)[k] = tree[k]
  BY DEF Filled
<1>2. Climbs(Filled(tree, at))
  BY <1>1 DEF Climbs
<1>. QED  BY <1>1, <1>2

(* A tree without the gap between two nodes of one type still climbs.      *)
LEMMA WithoutGapClimbs ==
  ASSUME NEW tree \in Seq(Nodes), Climbs(tree),
         NEW i \in DOMAIN tree, NEW j \in DOMAIN tree,
         i < j, tree[i].prod = tree[j].prod
  PROVE  /\ WithoutGap(tree, i, j) \in Seq(Nodes)
         /\ WithoutGap(tree, i, j) # <<>>
         /\ Climbs(WithoutGap(tree, i, j))
<1>. DEFINE new == WithoutGap(tree, i, j)
            d == j - i
            n == Len(tree) - d
<1>1. /\ Len(tree) \in Nat /\ i \in 1..Len(tree) /\ j \in 1..Len(tree)
      /\ \A k \in 1..Len(tree) : tree[k] \in Nodes
  BY SeqFacts
<1>2. d \in Nat /\ d >= 1 /\ n \in Nat /\ i <= n /\ n + d = Len(tree) /\ i + d = j
  <2>1. d \in Nat /\ d >= 1 /\ i + d = j
    BY <1>1
  <2>. HIDE DEF d, new
  <2>. QED  BY <1>1, <2>1
<1>3. new = [k \in 1..n |-> IF k <= i THEN tree[k] ELSE tree[k + d]]
  BY DEF WithoutGap
<1>. HIDE DEF new, n, d
<1>4. \A k \in 1..i : new[k] = tree[k]
  BY <1>1, <1>2, <1>3
<1>5. \A k \in (i + 1)..n : new[k] = tree[k + d]
  <2>. TAKE k \in (i + 1)..n
  <2>1. k \in 1..n /\ ~(k <= i)
    BY <1>1, <1>2
  <2>. QED  BY <2>1, <1>3
<1>6. new \in Seq(Nodes) /\ Len(new) = n
  <2>1. ASSUME NEW k \in 1..n  PROVE new[k] \in Nodes
    <3>1. CASE k <= i
      BY <3>1, <1>1, <1>2, <1>4
    <3>2. CASE k > i
      <4>1. k \in (i + 1)..n /\ k + d \in 1..Len(tree)
        BY <3>2, <1>1, <1>2
      <4>. QED  BY <4>1, <1>1, <1>5
    <3>. QED  BY <3>1, <3>2, <1>1, <1>2
  <2>2. new \in [1..n -> Nodes]
    BY <1>3, <2>1
  <2>. QED  BY <2>2, <1>2, FunctionIsSeq
<1>7. Climbs(new)
  <2>1. new[1] = tree[1] /\ tree # <<>>
    BY <1>1, <1>4
  <2>2. ASSUME NEW k \in 2..n
        PROVE  IsRuleToken(new[k]) /\ Slot(new[k]) = new[k - 1].prod
    <3>1. CASE k <= i
      <4>1. new[k] = tree[k] /\ new[k - 1] = tree[k - 1] /\ k \in 2..Len(tree)
        BY <3>1, <1>1, <1>2, <1>4
      <4>. QED  BY <4>1 DEF Climbs
    <3>2. CASE k = i + 1
      <4>1. k \in (i + 1)..n /\ k - 1 \in 1..i /\ k + d = j + 1 /\ k - 1 = i
        BY <3>2, <1>1, <1>2
      <4>2. new[k] = tree[j + 1] /\ new[k - 1] = tree[i]
        <5>1. new[k] = tree[k + d]
          BY <4>1, <1>5
        <5>2. new[k - 1] = tree[k - 1]
          BY <4>1, <1>4
        <5>. QED  BY <5>1, <5>2, <4>1
      <4>3. j + 1 \in 2..Len(tree) /\ (j + 1) - 1 = j
        BY <3>2, <1>1, <1>2
      <4>4. IsRuleToken(tree[j + 1]) /\ Slot(tree[j + 1]) = tree[j].prod
        BY <4>3 DEF Climbs
      <4>. QED  BY <4>2, <4>4
    <3>3. CASE k > i + 1
      <4>1. /\ k \in (i + 1)..n /\ k - 1 \in (i + 1)..n
            /\ k + d \in 2..Len(tree) /\ (k - 1) + d = (k + d) - 1
        BY <3>3, <1>1, <1>2
      <4>2. new[k] = tree[k + d] /\ new[k - 1] = tree[(k + d) - 1]
        <5>1. new[k] = tree[k + d] /\ new[k - 1] = tree[(k - 1) + d]
          BY <4>1, <1>5
        <5>. QED  BY <5>1, <4>1
      <4>. QED  BY <4>1, <4>2 DEF Climbs
    <3>. QED  BY <3>1, <3>2, <3>3, <1>1, <1>2
  <2>3. new # <<>> => new[1] = Leaf(new[1].prod)
    BY <2>1 DEF Climbs
  <2>. QED  BY <2>2, <2>3, <1>6 DEF Climbs
<1>8. new # <<>>
  BY <1>6, <1>2, <1>1
<1>. QED  BY <1>6, <1>7, <1>8 DEF new

(* A tree whose scan finds nothing passes no type twice.                   *)
LEMMA NothingToCut ==
  ASSUME NEW tree \in Seq(Nodes), Repeats(tree) = {}
  PROVE  NoRepeat(tree)
<1>1. \A j, k \in DOMAIN tree : j < k => tree[j].prod # tree[k].prod
  <2>. SUFFICES ASSUME NEW j \in DOMAIN tree, NEW k \in DOMAIN tree,
                       j < k, tree[j].prod = tree[k].prod
                PROVE  FALSE
    OBVIOUS
  <2>1. <<j, k>> \in Repeats(tree)
    BY DEF Repeats
  <2>. QED  BY <2>1
<1>2. \A j, k \in DOMAIN tree : j # k => j < k \/ k < j
  BY SeqFacts
<1>. QED  BY <1>1, <1>2 DEF NoRepeat

(* The mutations of a tree are at its nodes above the leaf.                *)
LEMMA MutationsFacts ==
  ASSUME NEW tree \in Seq(Nodes), tree # <<>>, Climbs(tree)
  PROVE  /\ MutationsOf(tree) \in Seq(Mutation)
         /\ \A j \in DOMAIN MutationsOf(tree) : IsMutation(MutationsOf(tree)[j])
<1>. DEFINE n == Len(tree) - 1
<1>0. Len(tree) \in Nat /\ Len(tree) >= 1
  BY SeqFacts
<1>1. n \in Nat /\ Energy \in Nat /\ Energy * n \in Nat
  <2>1. n \in Nat /\ Energy \in Nat
    BY <1>0, GrammarAssumption
  <2>2. \A a, b \in Nat : a * b \in Nat
    OBVIOUS
  <2>. HIDE DEF n
  <2>. QED  BY <2>1, <2>2
<1>2. MutationsOf(tree) = [m \in 1..(Energy * n) |-> [tree |-> tree, at |-> 2 + ((m - 1) % n)]]
  BY DEF MutationsOf
<1>3. ASSUME NEW m \in 1..(Energy * n)
      PROVE  2 + ((m - 1) % n) \in 2..Len(tree)
  <2>1. n > 0
    <3>1. CASE n = 0
      BY <3>1, <1>1
    <3>. QED  BY <3>1, <1>1
  <2>2. (m - 1) % n \in 0..(n - 1)
    BY <2>1, <1>1
  <2>. QED  BY <2>2, <1>0
<1>4. ASSUME NEW m \in 1..(Energy * n)
      PROVE  /\ MutationsOf(tree)[m] \in Mutation
             /\ IsMutation(MutationsOf(tree)[m])
  <2>1. MutationsOf(tree)[m] = [tree |-> tree, at |-> 2 + ((m - 1) % n)]
    BY <1>2
  <2>. HIDE DEF n
  <2>. QED  BY <2>1, <1>3 DEF IsMutation, Mutation
<1>5. DOMAIN MutationsOf(tree) = 1..(Energy * n)
  BY <1>2
<1>6. MutationsOf(tree) \in Seq(Mutation)
  <2>1. MutationsOf(tree) \in [1..(Energy * n) -> Mutation]
    BY <1>2, <1>4
  <2>. QED  BY <2>1, <1>1, FunctionIsSeq
<1>. QED  BY <1>4, <1>5, <1>6

-----------------------------------------------------------------------------
(* Steps that make a path and leave the cache alone                        *)

(* What is cached, known and referred to does not change with the path.    *)
LEMMA MakingKeepsCache ==
  ASSUME NameInv, MatchInv, BuildInv,
         UNCHANGED <<fresh, cacheVars, s_reverse_tree_hash_set,
                     v_ref_reverse_trees, buildVars>>,
         pc' \in {"next", "climb", "trim"}
  PROVE  NameInv' /\ MatchInv' /\ BuildInv'
<1>. USE DEF cacheVars, buildVars, Cache
<1>1. NameInv'
  BY DEF NameInv
<1>2. MatchInv'
  BY DEF MatchInv, PointsTo
<1>3. BuildInv'
  BY DEF BuildInv, References, PointsTo
<1>. QED  BY <1>1, <1>2, <1>3

(* A new tree is the leaf alone.                                           *)
LEMMA DrawKeeps ==
  ASSUME TreesInv, Draw
  PROVE  TreesInv'
<1>. USE GrammarAssumption DEF TreesInv
<1>1. NameInv' /\ MatchInv' /\ BuildInv'
  BY MakingKeepsCache DEF Draw
<1>2. Head(jobs) \in Prods /\ Tail(jobs) \in Seq(Prods)
  <2>1. jobs \in Seq(Prods) /\ jobs # <<>>
    BY DEF Draw, TypeOK
  <2>. QED  BY <2>1, HeadTailProperties
<1>3. path' \in Seq(Nodes) /\ path' # <<>> /\ Climbs(path')
  <2>1. path' = <<Leaf(Head(jobs))>>
    BY DEF Draw
  <2>. QED  BY <2>1, <1>2, LeafClimbs
<1>a. fuel' \in 0..MaxDepth
  BY DEF Draw, FullFuel
<1>4. TypeOK'
  BY <1>2, <1>3, <1>a DEF Draw, TypeOK, TreeOK, cacheVars, buildVars
<1>5. TreeInv'
  BY <1>3 DEF Draw, TreeInv, cacheVars, Cache
<1>. QED  BY <1>1, <1>4, <1>5

(* A climb appends parents.                                                *)
LEMMA ClimbKeeps ==
  ASSUME TreesInv, Climb
  PROVE  TreesInv'
<1>. USE GrammarAssumption DEF TreesInv
<1>. DEFINE parents == ParentExprs(path[Len(path)].prod)
<1>0. path \in Seq(Nodes) /\ path # <<>> /\ Climbs(path)
  BY DEF TypeOK, TreeOK, TreeInv, Climb
<1>1. /\ path' \in Seq(Nodes) /\ Climbs(path')
      /\ pc' \in {"climb", "trim"} => path' # <<>>
      /\ pc' \in {"next", "climb", "trim"}
      /\ fuel' \in 0..MaxDepth
  <2>1. CASE parents = {} /\ pc' = "trim" /\ UNCHANGED <<path, fuel>>
    BY <2>1, <1>0 DEF TypeOK
  <2>2. CASE path' = <<>> /\ pc' = "next" /\ UNCHANGED fuel
    BY <2>2, EmptyClimbs DEF TypeOK
  <2>3. CASE /\ fuel > 0 /\ fuel' = fuel - 1
             /\ \E n \in parents :
                  /\ path' = Append(path, n)
                  /\ pc' = IF n.prod \in StmtTyped THEN "trim" ELSE "climb"
    <3>1. PICK n \in parents :
             /\ path' = Append(path, n)
             /\ pc' = IF n.prod \in StmtTyped THEN "trim" ELSE "climb"
      BY <2>3
    <3>2. path' \in Seq(Nodes) /\ path' # <<>> /\ Climbs(path')
      BY <3>1, <1>0, AppendClimbs
    <3>3. fuel' \in 0..MaxDepth
      <4>1. fuel \in 0..MaxDepth /\ MaxDepth \in Nat
        BY DEF TypeOK
      <4>. QED  BY <4>1, <2>3
    <3>. QED  BY <3>1, <3>2, <3>3
  <2>. QED  BY <2>1, <2>2, <2>3 DEF Climb, Burn
<1>2. NameInv' /\ MatchInv' /\ BuildInv'
  BY <1>1, MakingKeepsCache DEF Climb
<1>3. TypeOK'
  BY <1>1 DEF Climb, TypeOK, TreeOK, cacheVars, buildVars
<1>4. TreeInv'
  BY <1>1 DEF Climb, TreeInv, cacheVars, Cache
<1>. QED  BY <1>2, <1>3, <1>4

(* A scan cuts a gap between two nodes of one type.                        *)
LEMMA TrimKeeps ==
  ASSUME TreesInv, Trim
  PROVE  TreesInv'
<1>. USE DEF TreesInv
<1>1. path \in Seq(Nodes) /\ Climbs(path)
  BY DEF TypeOK, TreeOK, TreeInv
<1>2. PICK ij \in Repeats(path) : path' = WithoutGap(path, ij[1], ij[2])
  BY DEF Trim
<1>3. /\ ij[1] \in DOMAIN path /\ ij[2] \in DOMAIN path
      /\ ij[1] < ij[2] /\ path[ij[1]].prod = path[ij[2]].prod
  BY DEF Repeats
<1>4. path' \in Seq(Nodes) /\ path' # <<>> /\ Climbs(path')
  BY <1>1, <1>2, <1>3, WithoutGapClimbs
<1>5. NameInv' /\ MatchInv' /\ BuildInv'
  BY MakingKeepsCache DEF Trim
<1>6. TypeOK'
  BY <1>4 DEF Trim, TypeOK, TreeOK, cacheVars, buildVars
<1>7. TreeInv'
  BY <1>4 DEF Trim, TreeInv, cacheVars, Cache
<1>. QED  BY <1>5, <1>6, <1>7

(* A mutation starts from a prefix of a tree and another parent.           *)
LEMMA MutateKeeps ==
  ASSUME TreesInv, Mutate
  PROVE  TreesInv'
<1>. USE GrammarAssumption DEF TreesInv
<1>. DEFINE tree == Head(batch).tree
            at == Head(batch).at
<1>1. /\ batch \in Seq(Mutation) /\ batch # <<>>
      /\ Head(batch) = batch[1] /\ 1 \in DOMAIN batch
  <2>1. batch \in Seq(Mutation) /\ batch # <<>>
    BY DEF TypeOK, Mutate
  <2>. QED  BY <2>1, SeqFacts
<1>2. tree \in Seq(Nodes) /\ IsMutation(Head(batch))
  <2>1. batch[1] \in Mutation
    BY <1>1, SeqFacts
  <2>2. IsMutation(batch[1])
    BY <1>1 DEF TreeInv
  <2>. QED  BY <2>1, <2>2, <1>1 DEF Mutation
<1>3. Climbs(tree) /\ at \in 2..Len(tree)
  BY <1>2 DEF IsMutation
<1>4. /\ path' \in Seq(Nodes) /\ Climbs(path')
      /\ pc' \in {"climb", "trim"} => path' # <<>>
      /\ pc' \in {"next", "climb", "trim"}
      /\ fuel' \in 0..MaxDepth
  <2>1. CASE UNCHANGED <<path, fuel, pc>>
    BY <2>1 DEF TypeOK, TreeOK, TreeInv, Mutate
  <2>2. CASE /\ \E n \in OtherChoices(tree, at) : path' = Append(Filled(tree, at), n)
             /\ fuel' = FullFuel
             /\ pc' = "climb"
    <3>1. PICK n \in OtherChoices(tree, at) : path' = Append(Filled(tree, at), n)
      BY <2>2
    <3>2. n \in ParentExprs(tree[at - 1].prod)
      BY DEF OtherChoices
    <3>. HIDE DEF tree, at
    <3>3. /\ Filled(tree, at) \in Seq(Nodes) /\ Filled(tree, at) # <<>>
          /\ Climbs(Filled(tree, at))
          /\ Filled(tree, at)[Len(Filled(tree, at))] = tree[at - 1]
      BY <1>2, <1>3, FilledClimbs
    <3>4. n \in ParentExprs(Filled(tree, at)[Len(Filled(tree, at))].prod)
      BY <3>2, <3>3
    <3>5. path' \in Seq(Nodes) /\ path' # <<>> /\ Climbs(path')
      BY <3>1, <3>3, <3>4, AppendClimbs
    <3>. QED  BY <2>2, <3>5 DEF FullFuel
  <2>. QED  BY <2>1, <2>2 DEF Mutate
<1>5. /\ batch' \in Seq(Mutation)
      /\ \A i \in DOMAIN batch' : i + 1 \in DOMAIN batch /\ batch'[i] = batch[i + 1]
  BY <1>1 DEF Mutate
<1>6. NameInv' /\ MatchInv' /\ BuildInv'
  BY <1>4, MakingKeepsCache DEF Mutate
<1>7. TypeOK'
  BY <1>4, <1>5 DEF Mutate, TypeOK, TreeOK, cacheVars, buildVars
<1>8. TreeInv'
  BY <1>4, <1>5 DEF Mutate, TreeInv, cacheVars, Cache
<1>. QED  BY <1>6, <1>7, <1>8

(* The mutations of a sequence of cached trees.                            *)
LEMMA BatchesFacts ==
  ASSUME NEW n \in Nat, NEW trees, NEW batches,
         \A i \in 1..n : trees[i] \in Seq(Nodes) /\ trees[i] # <<>> /\ Climbs(trees[i]),
         batches = [i \in 1..n |-> MutationsOf(trees[i])]
  PROVE  /\ batches \in Seq(Seq(Mutation))
         /\ \A i \in DOMAIN batches : \A j \in DOMAIN batches[i] : IsMutation(batches[i][j])
<1>1. ASSUME NEW i \in 1..n
      PROVE  /\ batches[i] \in Seq(Mutation)
             /\ \A j \in DOMAIN batches[i] : IsMutation(batches[i][j])
  <2>1. batches[i] = MutationsOf(trees[i])
    OBVIOUS
  <2>. QED  BY <2>1, MutationsFacts
<1>2. batches \in [1..n -> Seq(Mutation)]
  BY <1>1
<1>3. batches \in Seq(Seq(Mutation)) /\ DOMAIN batches = 1..n
  BY <1>2, FunctionIsSeq
<1>. QED  BY <1>1, <1>3

(* Everything that was drawn is to be mutated.                             *)
LEMMA DrawsDoneKeeps ==
  ASSUME TreesInv, DrawsDone
  PROVE  TreesInv'
<1>. USE DEF TreesInv
<1>1. /\ Len(Cache) \in Nat /\ DOMAIN Cache = 1..Len(Cache)
      /\ \A i \in 1..Len(Cache) : Cache[i] \in Seq(Nodes)
  BY SeqFacts DEF TypeOK, Cache
<1>2. \A i \in 1..Len(Cache) : Cache[i] # <<>> /\ Climbs(Cache[i])
  BY <1>1 DEF TreeInv, IsFinished
<1>3. later' = [i \in 1..Len(Cache) |-> MutationsOf(Cache[i])]
  BY <1>1 DEF DrawsDone, Cache
<1>4. /\ later' \in Seq(Seq(Mutation))
      /\ \A i \in DOMAIN later' : \A j \in DOMAIN later'[i] : IsMutation(later'[i][j])
  <2>1. \A i \in 1..Len(Cache) :
          Cache[i] \in Seq(Nodes) /\ Cache[i] # <<>> /\ Climbs(Cache[i])
    BY <1>1, <1>2
  <2>. QED  BY <1>1, <1>3, <2>1, BatchesFacts, Zenon
<1>5. NameInv' /\ MatchInv' /\ BuildInv'
  BY MakingKeepsCache DEF DrawsDone
<1>6. TypeOK'
  BY <1>4 DEF DrawsDone, TypeOK, TreeOK, cacheVars, buildVars
<1>7. TreeInv'
  BY <1>4 DEF DrawsDone, TreeInv, cacheVars, Cache
<1>. QED  BY <1>5, <1>6, <1>7

(* The next batch of mutations is taken up.                                *)
LEMMA NextBatchKeeps ==
  ASSUME TreesInv, NextBatch
  PROVE  TreesInv'
<1>. USE DEF TreesInv
<1>1. later \in Seq(Seq(Mutation)) /\ later # <<>>
  BY DEF TypeOK, NextBatch
<1>2. /\ batch' = later[1] /\ 1 \in DOMAIN later
      /\ batch' \in Seq(Mutation)
      /\ later' \in Seq(Seq(Mutation))
      /\ \A i \in DOMAIN later' : i + 1 \in DOMAIN later /\ later'[i] = later[i + 1]
  BY <1>1 DEF NextBatch
<1>3. NameInv' /\ MatchInv' /\ BuildInv'
  BY MakingKeepsCache DEF NextBatch
<1>4. TypeOK'
  BY <1>2 DEF NextBatch, TypeOK, TreeOK, cacheVars, buildVars
<1>5. TreeInv'
  BY <1>2 DEF NextBatch, TreeInv, cacheVars, Cache
<1>. QED  BY <1>3, <1>4, <1>5

-----------------------------------------------------------------------------
(* Steps that fill the cache                                               *)

(* Pointers into the cache survive its growth.                             *)
LEMMA PointersSurvive ==
  ASSUME Cache \in Seq(Seq(Nodes)), NEW tree \in Seq(Nodes),
         Cache' = Append(Cache, tree),
         NEW ptr, NEW idx, NEW p, PointsTo(ptr, idx, p)
  PROVE  PointsTo(ptr, idx, p)' /\ Cache'[ptr] = Cache[ptr]
<1>1. Cache' \in Seq(Seq(Nodes)) /\ Len(Cache') = Len(Cache) + 1
  OBVIOUS
<1>2. DOMAIN Cache = 1..Len(Cache) /\ DOMAIN Cache' = 1..Len(Cache') /\ Len(Cache) \in Nat
  BY <1>1, SeqFacts
<1>3. ptr \in DOMAIN Cache' /\ Cache'[ptr] = Cache[ptr]
  BY <1>1, <1>2 DEF PointsTo
<1>. QED  BY <1>3 DEF PointsTo

(* A finished tree can be cached: it is stored with all its matches, or    *)
(* nothing happens.                                                        *)
LEMMA CachingKeeps ==
  ASSUME TypeOK, MatchInv, \A i \in DOMAIN Cache : IsFinished(Cache[i]),
         NEW tree \in Seq(Nodes), IsFinished(tree),
         _cache_reverse_tree_helper(tree)
  PROVE  /\ Cache' \in Seq(Seq(Nodes))
         /\ m_cached_reverse_tree' \in [Prods -> Seq(Match)]
         /\ MatchInv'
         /\ \/ Cache' = Cache
            \/ Cache' = Append(Cache, tree)
<1>. USE GrammarAssumption
<1>. DEFINE M == m_cached_reverse_tree
            At(p) == {k \in DOMAIN tree : tree[k].prod = p}
            new == Len(Cache) + 1
            Entry(p) == [tree |-> new, idx |-> (CHOOSE k \in At(p) : TRUE) - 1]
<1>1. /\ Cache \in Seq(Seq(Nodes)) /\ Len(Cache) \in Nat /\ DOMAIN Cache = 1..Len(Cache)
      /\ M \in [Prods -> Seq(Match)]
      /\ DOMAIN tree = 1..Len(tree) /\ Len(tree) \in Nat
      /\ \A k \in DOMAIN tree : tree[k] \in Nodes
  <2>1. Cache \in Seq(Seq(Nodes)) /\ M \in [Prods -> Seq(Match)]
    BY DEF TypeOK, Cache
  <2>2. Len(Cache) \in Nat /\ DOMAIN Cache = 1..Len(Cache)
    BY <2>1, SeqFacts
  <2>3. /\ DOMAIN tree = 1..Len(tree) /\ Len(tree) \in Nat
        /\ \A k \in DOMAIN tree : tree[k] \in Nodes
    BY SeqFacts
  <2>. QED  BY <2>1, <2>2, <2>3
<1>2. CASE Len(tree) >= MaxDepth
  <2>1. UNCHANGED <<v_p_cached_reverse_tree, m_cached_reverse_tree>>
    BY <1>2 DEF _cache_reverse_tree_helper, cacheVars
  <2>. QED  BY <2>1, <1>1 DEF MatchInv, PointsTo, Cache
<1>3. CASE ~(Len(tree) >= MaxDepth)
  <2>1. /\ Cache' = Append(Cache, tree)
        /\ M' = [p \in Prods |-> IF At(p) = {} THEN M[p] ELSE Append(M[p], Entry(p))]
    BY <1>3 DEF _cache_reverse_tree_helper, Cache
  <2>2. /\ Cache' \in Seq(Seq(Nodes)) /\ Len(Cache') = new /\ DOMAIN Cache' = 1..new
        /\ Cache'[new] = tree /\ \A i \in 1..Len(Cache) : Cache'[i] = Cache[i]
    <3>1. Cache' \in Seq(Seq(Nodes)) /\ Len(Cache') = new
      BY <2>1, <1>1
    <3>2. Cache'[new] = tree /\ \A i \in 1..Len(Cache) : Cache'[i] = Cache[i]
      BY <2>1, <1>1
    <3>. QED  BY <3>1, <3>2, SeqFacts
  <2>3. ASSUME NEW p \in Prods, At(p) # {}
        PROVE  /\ Entry(p) \in Match /\ Entry(p).tree = new
               /\ Entry(p).idx + 1 \in At(p)
    <3>1. PICK k \in At(p) : k = (CHOOSE c \in At(p) : TRUE)
      BY <2>3
    <3>2. k \in 1..Len(tree) /\ (k - 1) + 1 = k /\ k - 1 \in Nat
      BY <1>1
    <3>3. Entry(p) = [tree |-> new, idx |-> k - 1]
      BY <3>1
    <3>. QED  BY <3>1, <3>2, <3>3, <1>1 DEF Match
  <2>. HIDE DEF Entry
  <2>4. ASSUME NEW p \in Prods
        PROVE  /\ M[p] \in Seq(Match)
               /\ M'[p] = IF At(p) = {} THEN M[p] ELSE Append(M[p], Entry(p))
               /\ M'[p] \in Seq(Match)
               /\ \A k \in DOMAIN M[p] : k \in DOMAIN M'[p] /\ M'[p][k] = M[p][k]
               /\ At(p) # {} => /\ Len(M'[p]) \in DOMAIN M'[p]
                                /\ M'[p][Len(M'[p])] = Entry(p)
               /\ \A k \in DOMAIN M'[p] :
                    \/ k \in DOMAIN M[p] /\ M'[p][k] = M[p][k]
                    \/ At(p) # {} /\ M'[p][k] = Entry(p)
    <3>1. M[p] \in Seq(Match) /\ M'[p] = IF At(p) = {} THEN M[p] ELSE Append(M[p], Entry(p))
      BY <2>1, <1>1
    <3>2. CASE At(p) = {}
      BY <3>1, <3>2
    <3>3. CASE At(p) # {}
      <4>1. M'[p] = Append(M[p], Entry(p)) /\ Entry(p) \in Match
        BY <3>1, <3>3, <2>3
      <4>. HIDE DEF M, At
      <4>2. /\ M'[p] \in Seq(Match)
            /\ Len(M[p]) \in Nat /\ Len(M'[p]) = Len(M[p]) + 1
            /\ DOMAIN M[p] = 1..Len(M[p]) /\ DOMAIN M'[p] = 1..(Len(M[p]) + 1)
            /\ \A k \in 1..Len(M[p]) : M'[p][k] = M[p][k]
            /\ M'[p][Len(M[p]) + 1] = Entry(p)
            /\ \A k \in DOMAIN M'[p] : k \in DOMAIN M[p] \/ k = Len(M[p]) + 1
            /\ \A k \in DOMAIN M[p] : k \in DOMAIN M'[p]
        <5>. DEFINE grown == Append(M[p], Entry(p))
        <5>1. /\ grown \in Seq(Match)
              /\ Len(M[p]) \in Nat /\ Len(grown) = Len(M[p]) + 1
              /\ DOMAIN M[p] = 1..Len(M[p]) /\ DOMAIN grown = 1..(Len(M[p]) + 1)
              /\ \A k \in 1..Len(M[p]) : grown[k] = M[p][k]
              /\ grown[Len(M[p]) + 1] = Entry(p)
              /\ \A k \in DOMAIN grown : k \in DOMAIN M[p] \/ k = Len(M[p]) + 1
              /\ \A k \in DOMAIN M[p] : k \in DOMAIN grown
          BY <4>1, <3>1, AppendFacts, Zenon
        <5>. HIDE DEF grown
        <5>2. M'[p] = grown
          BY <4>1 DEF grown
        <5>. QED  BY <5>1, <5>2
      <4>3. Len(M[p]) + 1 \in 1..(Len(M[p]) + 1)
        BY <4>2
      <4>4. /\ Len(M'[p]) \in DOMAIN M'[p]
            /\ M'[p][Len(M'[p])] = Entry(p)
        BY <4>2, <4>3
      <4>5. \A k \in DOMAIN M[p] : k \in DOMAIN M'[p] /\ M'[p][k] = M[p][k]
        BY <4>2
      <4>6. \A k \in DOMAIN M'[p] :
              \/ k \in DOMAIN M[p] /\ M'[p][k] = M[p][k]
              \/ M'[p][k] = Entry(p)
        BY <4>2
      <4>. QED  BY <3>1, <3>3, <4>2, <4>4, <4>5, <4>6
    <3>. QED  BY <3>2, <3>3
  <2>5. M' \in [Prods -> Seq(Match)]
    <3>1. DOMAIN M' = Prods /\ M' = [p \in Prods |-> M'[p]]
      BY <2>1
    <3>. QED  BY <3>1, <2>4
  <2>6. \A i \in DOMAIN Cache' : Len(Cache'[i]) < MaxDepth
    <3>1. Len(tree) < MaxDepth
      BY <1>3, <1>1
    <3>2. \A i \in 1..Len(Cache) : Len(Cache[i]) < MaxDepth
      BY <1>1 DEF MatchInv
    <3>3. \A i \in 1..new : i \in 1..Len(Cache) \/ i = new
      BY <1>1
    <3>. QED  BY <3>1, <3>2, <3>3, <2>2
  <2>7. ASSUME NEW p \in Prods, NEW k \in DOMAIN M'[p]
        PROVE  PointsTo(M[p][k].tree, M[p][k].idx, p)'
    <3>1. CASE k \in DOMAIN M[p] /\ M'[p][k] = M[p][k]
      <4>1. PointsTo(M[p][k].tree, M[p][k].idx, p)
        BY <3>1 DEF MatchInv
      <4>2. M[p][k].tree \in DOMAIN Cache /\ M[p][k].tree \in DOMAIN Cache'
        BY <4>1, <1>1, <2>2 DEF PointsTo
      <4>3. Cache'[M[p][k].tree] = Cache[M[p][k].tree]
        BY <4>2, <1>1, <2>2
      <4>. QED  BY <3>1, <4>1, <4>2, <4>3 DEF PointsTo
    <3>2. CASE At(p) # {} /\ M'[p][k] = Entry(p)
      <4>1. Entry(p).tree = new /\ Entry(p).idx + 1 \in At(p)
        BY <3>2, <2>3
      <4>2. Entry(p).idx + 1 \in DOMAIN tree /\ tree[Entry(p).idx + 1].prod = p
        BY <4>1
      <4>3. new \in DOMAIN Cache' /\ Cache'[new] = tree
        BY <2>2, <1>1
      <4>. HIDE DEF new
      <4>. QED  BY <3>2, <4>1, <4>2, <4>3 DEF PointsTo
    <3>. QED  BY <2>4, <3>1, <3>2
  <2>8. ASSUME NEW i \in DOMAIN Cache', NEW j \in DOMAIN Cache'[i]
        PROVE  \E k \in DOMAIN M'[Cache'[i][j].prod] :
                  /\ M'[Cache'[i][j].prod][k].tree = i
                  /\ M'[Cache'[i][j].prod][k].idx = j - 1
    <3>1. CASE i \in DOMAIN Cache
      <4>1. Cache'[i] = Cache[i] /\ j \in DOMAIN Cache[i]
        BY <3>1, <2>2, <1>1
      <4>2. Cache[i] \in Seq(Nodes)
        BY <3>1, <1>1
      <4>3. Cache[i][j].prod \in Prods
        <5>1. Cache[i][j] \in Nodes
          BY <4>1, <4>2, SeqFacts
        <5>. QED  BY <5>1 DEF Nodes
      <4>4. PICK k \in DOMAIN M[Cache[i][j].prod] :
              M[Cache[i][j].prod][k].tree = i /\ M[Cache[i][j].prod][k].idx = j - 1
        BY <3>1, <4>1 DEF MatchInv
      <4>. QED  BY <4>1, <4>3, <4>4, <2>4
    <3>2. CASE i = new
      <4>. DEFINE p == tree[j].prod
      <4>1. Cache'[i] = tree /\ j \in DOMAIN tree /\ p \in Prods
        BY <3>2, <2>2, <1>1 DEF Nodes
      <4>2. At(p) = {j}
        BY <4>1 DEF IsFinished, NoRepeat
      <4>3. At(p) # {}
        BY <4>2
      <4>4. Entry(p).tree = i /\ Entry(p).idx + 1 = j /\ Entry(p) \in Match
        BY <4>1, <4>2, <4>3, <2>3, <3>2
      <4>5. Entry(p).idx = j - 1
        <5>1. Entry(p).idx \in Nat
          BY <4>4 DEF Match
        <5>. QED  BY <5>1, <4>4
      <4>6. /\ Len(M'[p]) \in DOMAIN M'[p]
            /\ M'[p][Len(M'[p])] = Entry(p)
        BY <4>1, <4>3, <2>4
      <4>. QED  BY <4>1, <4>4, <4>5, <4>6
    <3>. QED  BY <3>1, <3>2, <2>2, <1>1
  <2>9. MatchInv'
    BY <2>6, <2>7, <2>8 DEF MatchInv
  <2>. QED  BY <2>1, <2>2, <2>5, <2>9
<1>. QED  BY <1>2, <1>3

(* References and the regeneration under way survive the growth.           *)
LEMMA GrowthKeepsBuild ==
  ASSUME Cache \in Seq(Seq(Nodes)), BuildInv, NEW tree \in Seq(Nodes),
         Cache' = Cache \/ Cache' = Append(Cache, tree),
         UNCHANGED <<v_ref_reverse_trees, buildVars>>, pc' = "next"
  PROVE  BuildInv'
<1>1. DOMAIN Cache \subseteq DOMAIN Cache'
  <2>1. CASE Cache' = Cache
    BY <2>1
  <2>2. CASE Cache' = Append(Cache, tree)
    BY <2>2, AppendFacts
  <2>. QED  BY <2>1, <2>2
<1>2. References' = References
  BY DEF References
<1>3. call # NoCall =>
        PointsTo(call.tree, call.node_idx_in_tree, call.type)'
  <2>1. CASE Cache' = Cache
    BY <2>1 DEF BuildInv, PointsTo, buildVars
  <2>2. CASE Cache' = Append(Cache, tree)
    <3>. SUFFICES ASSUME call # NoCall
                  PROVE  PointsTo(call.tree, call.node_idx_in_tree, call.type)'
      OBVIOUS
    <3>1. PointsTo(call.tree, call.node_idx_in_tree, call.type) /\ call' = call
      BY DEF BuildInv, buildVars
    <3>. QED  BY <2>2, <3>1, PointersSurvive DEF PointsTo
  <2>. QED  BY <2>1, <2>2
<1>. QED  BY <1>1, <1>2, <1>3 DEF BuildInv, buildVars

(* A tree that is stored takes its name from those that wait to the cache. *)
LEMMA StoredTrees ==
  ASSUME Cache \in Seq(Seq(Nodes)), NEW tree \in Seq(Nodes),
         IsFinished(tree), \A i \in DOMAIN Cache : IsFinished(Cache[i]),
         Cache' = Cache \/ Cache' = Append(Cache, tree),
         NEW known, Names(tree) \in known,
         \A i \in DOMAIN Cache : Names(Cache[i]) \in known /\ Names(Cache[i]) # Names(tree),
         \A i, j \in DOMAIN Cache : Names(Cache[i]) = Names(Cache[j]) => i = j
  PROVE  /\ \A i \in DOMAIN Cache' :
              /\ IsFinished(Cache'[i])
              /\ Names(Cache'[i]) \in known
              /\ (i \in DOMAIN Cache /\ Cache'[i] = Cache[i]) \/ Cache'[i] = tree
         /\ \A i, j \in DOMAIN Cache' : Names(Cache'[i]) = Names(Cache'[j]) => i = j
<1>1. CASE Cache' = Cache
  BY <1>1
<1>2. CASE Cache' = Append(Cache, tree)
  <2>. DEFINE new == Len(Cache) + 1
  <2>1. IsLonger(Append(Cache, tree), Cache, tree)
    BY AppendCases
  <2>2. \A i \in DOMAIN Cache' :
          (i \in DOMAIN Cache /\ Cache'[i] = Cache[i]) \/ (i = new /\ Cache'[i] = tree)
    <3>1. IsLonger(Cache', Cache, tree)
      BY <1>2, <2>1
    <3>. QED  BY <3>1 DEF IsLonger
  <2>. HIDE DEF new
  <2>. QED  BY <2>2
<1>. QED  BY <1>1, <1>2

(* What a path was cut to is finished, and new: it is cached or set aside. *)
LEMMA AdmitKeeps ==
  ASSUME TreesInv, Admit
  PROVE  TreesInv'
<1>. USE GrammarAssumption DEF TreesInv
<1>1. path \in Seq(Nodes) /\ IsFinished(path)
  <2>1. path \in Seq(Nodes) /\ path # <<>> /\ Climbs(path) /\ Repeats(path) = {}
    BY DEF TypeOK, TreeOK, TreeInv, Admit
  <2>. QED  BY <2>1, NothingToCut DEF IsFinished
<1>2. Cache \in Seq(Seq(Nodes)) /\ \A i \in DOMAIN Cache : IsFinished(Cache[i])
  BY DEF TypeOK, TreeInv, Cache
<1>3. path' = <<>> /\ path' \in Seq(Nodes) /\ Climbs(path') /\ pc' = "next"
  BY EmptyClimbs DEF Admit
<1>4. CASE Names(path) \in s_reverse_tree_hash_set
  <2>1. UNCHANGED <<fresh, cacheVars, s_reverse_tree_hash_set,
                    v_ref_reverse_trees, buildVars>>
    BY <1>4 DEF Admit
  <2>2. NameInv' /\ MatchInv' /\ BuildInv'
    BY <2>1, <1>3, MakingKeepsCache
  <2>3. TypeOK'
    BY <2>1, <1>3 DEF Admit, TypeOK, TreeOK, cacheVars, buildVars
  <2>4. TreeInv'
    BY <2>1, <1>3 DEF Admit, TreeInv, cacheVars, Cache
  <2>. QED  BY <2>2, <2>3, <2>4
<1>5. CASE Names(path) \notin s_reverse_tree_hash_set
  <2>1. s_reverse_tree_hash_set' = s_reverse_tree_hash_set \cup {Names(path)}
    BY <1>5 DEF Admit, Remember
  <2>2. s_reverse_tree_hash_set' \subseteq Seq(Prods)
    <3>1. Len(path) \in Nat /\ DOMAIN path = 1..Len(path)
          /\ \A k \in 1..Len(path) : path[k] \in Nodes
      BY <1>1, SeqFacts
    <3>2. Names(path) \in [1..Len(path) -> Prods]
      BY <3>1 DEF Names, Nodes
    <3>3. Names(path) \in Seq(Prods)
      BY <3>1, <3>2, FunctionIsSeq
    <3>. QED  BY <2>1, <3>3 DEF TypeOK
  <2>3. \A i \in DOMAIN Cache : /\ Names(Cache[i]) \in s_reverse_tree_hash_set'
                                /\ Names(Cache[i]) # Names(path)
    BY <1>5, <2>1 DEF NameInv
  <2>4. \A i \in DOMAIN fresh : /\ Names(fresh[i]) \in s_reverse_tree_hash_set'
                                /\ Names(fresh[i]) # Names(path)
    BY <1>5, <2>1 DEF NameInv
  <2>5. CASE phase = "draw"
    <3>1. _cache_reverse_tree_helper(path) /\ UNCHANGED fresh
      BY <1>5, <2>5 DEF Admit
    <3>2. /\ Cache' \in Seq(Seq(Nodes))
          /\ m_cached_reverse_tree' \in [Prods -> Seq(Match)]
          /\ MatchInv'
          /\ \/ Cache' = Cache
             \/ Cache' = Append(Cache, path)
      BY <1>1, <1>2, <3>1, CachingKeeps
    <3>3. /\ \A i \in DOMAIN Cache' :
              /\ IsFinished(Cache'[i])
              /\ Names(Cache'[i]) \in s_reverse_tree_hash_set'
              /\ (i \in DOMAIN Cache /\ Cache'[i] = Cache[i]) \/ Cache'[i] = path
          /\ \A i, j \in DOMAIN Cache' : Names(Cache'[i]) = Names(Cache'[j]) => i = j
      <4>1. Names(path) \in s_reverse_tree_hash_set'
        BY <2>1
      <4>2. \A i, j \in DOMAIN Cache : Names(Cache[i]) = Names(Cache[j]) => i = j
        BY DEF NameInv
      <4>. QED  BY <1>1, <1>2, <2>3, <3>2, <4>1, <4>2, StoredTrees, Zenon
    <3>4. NameInv'
      <4>1. \A i \in DOMAIN fresh, j \in DOMAIN Cache' : Names(fresh[i]) # Names(Cache'[j])
        BY <2>4, <3>3 DEF NameInv
      <4>. QED  BY <2>4, <3>1, <3>3, <4>1 DEF NameInv
    <3>5. BuildInv'
      <4>1. UNCHANGED <<v_ref_reverse_trees, buildVars>>
        BY DEF Admit
      <4>. QED  BY <1>1, <1>2, <1>3, <3>2, <4>1, GrowthKeepsBuild
    <3>6. TypeOK'
      BY <1>3, <2>2, <3>1, <3>2 DEF Admit, TypeOK, TreeOK, buildVars, Cache
    <3>7. TreeInv'
      BY <1>3, <3>1, <3>3 DEF Admit, TreeInv
    <3>. QED  BY <3>2, <3>4, <3>5, <3>6, <3>7
  <2>6. CASE phase # "draw"
    <3>1. fresh' = Append(fresh, path) /\ UNCHANGED cacheVars
      BY <1>5, <2>6 DEF Admit
    <3>2. Cache' = Cache /\ UNCHANGED <<v_p_cached_reverse_tree, m_cached_reverse_tree>>
      BY <3>1 DEF Cache, cacheVars
    <3>3. fresh \in Seq(Seq(Nodes))
      BY DEF TypeOK
    <3>4. /\ fresh' \in Seq(Seq(Nodes))
          /\ \A i \in DOMAIN fresh' :
               \/ i \in DOMAIN fresh /\ fresh'[i] = fresh[i]
               \/ i = Len(fresh) + 1 /\ fresh'[i] = path
      <4>1. path \in Seq(Nodes) /\ fresh' = Append(fresh, path)
        BY <1>1, <3>1
      <4>2. fresh' \in Seq(Seq(Nodes)) /\ IsLonger(Append(fresh, path), fresh, path)
        BY <3>3, <4>1, AppendCases
      <4>3. IsLonger(fresh', fresh, path)
        BY <4>1, <4>2
      <4>. QED  BY <4>2, <4>3 DEF IsLonger
    <3>5. NameInv'
      <4>1. \A i \in DOMAIN fresh' : Names(fresh'[i]) \in s_reverse_tree_hash_set'
        BY <2>1, <2>4, <3>4
      <4>2. \A i, j \in DOMAIN fresh' : Names(fresh'[i]) = Names(fresh'[j]) => i = j
        <5>1. SUFFICES ASSUME NEW i \in DOMAIN fresh', NEW j \in DOMAIN fresh',
                              Names(fresh'[i]) = Names(fresh'[j])
                       PROVE  i = j
          OBVIOUS
        <5>2. \A k, l \in DOMAIN fresh : Names(fresh[k]) = Names(fresh[l]) => k = l
          BY DEF NameInv
        <5>3. \A k \in DOMAIN fresh : Names(fresh[k]) # Names(path)
          BY <2>4
        <5>4. CASE i \in DOMAIN fresh /\ fresh'[i] = fresh[i]
          <6>1. j \in DOMAIN fresh /\ fresh'[j] = fresh[j]
            <7>1. fresh'[j] # path
              BY <5>1, <5>3, <5>4, Zenon
            <7>. QED  BY <3>4, <5>1, <7>1, Zenon
          <6>. QED  BY <5>1, <5>2, <5>4, <6>1, Zenon
        <5>5. CASE i = Len(fresh) + 1 /\ fresh'[i] = path
          <6>1. j = Len(fresh) + 1
            BY <3>4, <5>1, <5>3, <5>5, Zenon
          <6>. QED  BY <5>5, <6>1, Zenon
        <5>. QED  BY <3>4, <5>1, <5>4, <5>5, Zenon
      <4>3. \A i \in DOMAIN fresh', j \in DOMAIN Cache : Names(fresh'[i]) # Names(Cache[j])
        BY <2>3, <3>4 DEF NameInv
      <4>4. /\ \A i \in DOMAIN Cache : Names(Cache[i]) \in s_reverse_tree_hash_set'
            /\ \A i, j \in DOMAIN Cache : Names(Cache[i]) = Names(Cache[j]) => i = j
        BY <2>3 DEF NameInv
      <4>. QED  BY <3>2, <4>1, <4>2, <4>3, <4>4 DEF NameInv
    <3>6. MatchInv'
      BY <3>2 DEF MatchInv, PointsTo
    <3>7. BuildInv'
      <4>1. UNCHANGED <<v_ref_reverse_trees, buildVars>>
        BY DEF Admit
      <4>. QED  BY <1>1, <1>2, <1>3, <3>2, <4>1, GrowthKeepsBuild
    <3>8. TypeOK'
      BY <1>3, <2>2, <3>2, <3>4 DEF Admit, TypeOK, TreeOK, buildVars
    <3>9. TreeInv'
      <4>1. \A i \in DOMAIN fresh' : IsFinished(fresh'[i])
        BY <1>1, <3>4 DEF TreeInv
      <4>. QED  BY <1>3, <3>2, <4>1 DEF Admit, TreeInv
    <3>. QED  BY <3>5, <3>6, <3>7, <3>8, <3>9
  <2>. QED  BY <2>5, <2>6
<1>. QED  BY <1>4, <1>5

(* A mutant that waited is cached.                                         *)
LEMMA CacheMutantKeeps ==
  ASSUME TreesInv, CacheMutant
  PROVE  TreesInv'
<1>. USE GrammarAssumption DEF TreesInv
<1>. DEFINE tree == Head(fresh)
<1>1. /\ fresh \in Seq(Seq(Nodes)) /\ fresh # <<>>
      /\ tree = fresh[1] /\ 1 \in DOMAIN fresh
      /\ fresh' \in Seq(Seq(Nodes))
      /\ \A i \in DOMAIN fresh' :
           i + 1 \in DOMAIN fresh /\ i + 1 # 1 /\ fresh'[i] = fresh[i + 1]
  <2>1. fresh \in Seq(Seq(Nodes)) /\ fresh # <<>>
    BY DEF TypeOK, CacheMutant
  <2>2. fresh' = Tail(fresh)
    BY DEF CacheMutant
  <2>. QED  BY <2>1, <2>2
<1>2. tree \in Seq(Nodes) /\ IsFinished(tree) /\ Names(tree) \in s_reverse_tree_hash_set
  <2>1. fresh[1] \in Seq(Nodes)
    BY <1>1, SeqFacts
  <2>2. IsFinished(fresh[1]) /\ Names(fresh[1]) \in s_reverse_tree_hash_set
    BY <1>1 DEF TreeInv, NameInv
  <2>. QED  BY <1>1, <2>1, <2>2
<1>3. Cache \in Seq(Seq(Nodes)) /\ \A i \in DOMAIN Cache : IsFinished(Cache[i])
  BY DEF TypeOK, TreeInv, Cache
<1>4. _cache_reverse_tree_helper(tree) /\ pc' = "next"
  BY DEF CacheMutant
<1>. HIDE DEF tree
<1>5. /\ Cache' \in Seq(Seq(Nodes))
      /\ m_cached_reverse_tree' \in [Prods -> Seq(Match)]
      /\ MatchInv'
      /\ \/ Cache' = Cache
         \/ Cache' = Append(Cache, tree)
  BY <1>2, <1>3, <1>4, CachingKeeps
<1>6. \A i \in DOMAIN Cache : /\ Names(Cache[i]) \in s_reverse_tree_hash_set
                              /\ Names(Cache[i]) # Names(tree)
  BY <1>1 DEF NameInv
<1>7. /\ \A i \in DOMAIN Cache' :
           /\ IsFinished(Cache'[i])
           /\ Names(Cache'[i]) \in s_reverse_tree_hash_set
           /\ (i \in DOMAIN Cache /\ Cache'[i] = Cache[i]) \/ Cache'[i] = tree
      /\ \A i, j \in DOMAIN Cache' : Names(Cache'[i]) = Names(Cache'[j]) => i = j
  <2>1. \A i, j \in DOMAIN Cache : Names(Cache[i]) = Names(Cache[j]) => i = j
    BY DEF NameInv
  <2>. QED  BY <1>2, <1>3, <1>5, <1>6, <2>1, StoredTrees, Zenon
<1>8. NameInv'
  <2>1. \A i \in DOMAIN fresh' : /\ Names(fresh'[i]) \in s_reverse_tree_hash_set
                                 /\ Names(fresh'[i]) # Names(tree)
    BY <1>1 DEF NameInv
  <2>2. \A i, j \in DOMAIN fresh' : Names(fresh'[i]) = Names(fresh'[j]) => i = j
    <3>. SUFFICES ASSUME NEW i \in DOMAIN fresh', NEW j \in DOMAIN fresh',
                         Names(fresh'[i]) = Names(fresh'[j])
                  PROVE  i = j
      OBVIOUS
    <3>1. i + 1 = j + 1
      BY <1>1 DEF NameInv
    <3>2. i \in Nat /\ j \in Nat
      <4>1. DOMAIN fresh' = 1..Len(fresh') /\ Len(fresh') \in Nat
        BY <1>1, SeqFacts
      <4>. QED  BY <4>1
    <3>. QED  BY <3>1, <3>2
  <2>3. \A i \in DOMAIN fresh', j \in DOMAIN Cache : Names(fresh'[i]) # Names(Cache[j])
    BY <1>1 DEF NameInv
  <2>4. \A i \in DOMAIN fresh', j \in DOMAIN Cache' : Names(fresh'[i]) # Names(Cache'[j])
    BY <1>7, <2>1, <2>3
  <2>5. UNCHANGED s_reverse_tree_hash_set
    BY DEF CacheMutant
  <2>. QED  BY <1>7, <2>1, <2>2, <2>4, <2>5 DEF NameInv
<1>9. BuildInv'
  <2>1. UNCHANGED <<v_ref_reverse_trees, buildVars>>
    BY DEF CacheMutant
  <2>. QED  BY <1>2, <1>3, <1>4, <1>5, <2>1, GrowthKeepsBuild
<1>10. TypeOK'
  BY <1>1, <1>5 DEF CacheMutant, TypeOK, TreeOK, buildVars, Cache
<1>11. TreeInv'
  <2>1. \A i \in DOMAIN fresh' : IsFinished(fresh'[i])
    BY <1>1 DEF TreeInv
  <2>. QED  BY <1>7, <2>1 DEF CacheMutant, TreeInv
<1>. QED  BY <1>5, <1>8, <1>9, <1>10, <1>11

-----------------------------------------------------------------------------
(* Steps that build a statement                                            *)

(* They leave trees and cache alone.                                       *)
LEMMA BuildingKeepsTrees ==
  ASSUME TreesInv, UNCHANGED <<treeVars, cacheVars, s_reverse_tree_hash_set>>,
         pc' \in {"idle", "forward", "build", "ready"}
  PROVE  TreeInv' /\ NameInv' /\ MatchInv' /\ Cache' = Cache
<1>. USE DEF TreesInv, treeVars, cacheVars, Cache
<1>1. TreeInv'
  BY DEF TreeInv
<1>2. NameInv'
  BY DEF NameInv
<1>3. MatchInv'
  BY DEF MatchInv, PointsTo
<1>. QED  BY <1>1, <1>2, <1>3

(* No call, no references.                                                 *)
LEMMA NothingUnderWay ==
  /\ NoCall \in [tree : Nat, node_idx_in_tree : Nat, type : Prods \cup {""},
                 full : BOOLEAN, nested : BOOLEAN]
  /\ "" \in Prods \cup {""}
  /\ <<>> \in Seq(Nat \ {0})
  /\ \A i \in DOMAIN <<>> : FALSE
<1>1. NoCall \in [tree : Nat, node_idx_in_tree : Nat, type : Prods \cup {""},
                 full : BOOLEAN, nested : BOOLEAN]
  BY DEF NoCall
<1>2. <<>> \in Seq(Nat \ {0}) /\ \A i \in DOMAIN <<>> : FALSE
  OBVIOUS
<1>. QED  BY <1>1, <1>2

(* Without trees to build from there is nothing that refers to one.        *)
LEMMA NoReferences ==
  ASSUME v_ref_reverse_trees' = <<>>
  PROVE  References' = {}
BY DEF References

(* When the mutations are done, nothing refers to a tree.                  *)
LEMMA MutationsDoneKeeps ==
  ASSUME TreesInv, MutationsDone
  PROVE  TreesInv'
<1>. USE DEF TreesInv
<1>1. TreeInv' /\ NameInv' /\ MatchInv'
  BY BuildingKeepsTrees DEF MutationsDone
<1>3. v_ref_reverse_trees' = <<>> /\ References' = {}
  BY NoReferences DEF MutationsDone
<1>4. TypeOK'
  BY <1>3, NothingUnderWay DEF MutationsDone, TypeOK, TreeOK, treeVars, cacheVars
<1>5. BuildInv'
  BY <1>3 DEF MutationsDone, BuildInv
<1>. QED  BY <1>1, <1>4, <1>5

(* A match that is taken starts a regeneration at the leaf of a live tree. *)
LEMMA TakeMatchKeeps ==
  ASSUME TreesInv, UNCHANGED <<treeVars, cacheVars, s_reverse_tree_hash_set>>,
         NEW refs \in Seq(Nat \ {0}), NEW full \in BOOLEAN, NEW nested \in BOOLEAN,
         \A i \in DOMAIN refs : refs[i] \in DOMAIN Cache,
         TakeMatch(refs, full, nested),
         used' = {refs[i] : i \in DOMAIN refs} \cup {call'.tree}
  PROVE  TreesInv'
<1>. USE GrammarAssumption DEF TreesInv
<1>0. PICK p \in Prods : \E m \in DOMAIN m_cached_reverse_tree[p] :
        LET match == m_cached_reverse_tree[p][m]
        IN  /\ v_ref_reverse_trees' = Append(refs, match.tree)
            /\ call' = [tree |-> match.tree, type |-> p, full |-> full,
                        node_idx_in_tree |-> match.idx, nested |-> nested]
            /\ top' = Tree(match.tree)[1].prod
            /\ cur_iter_idx' = FirstIter
            /\ pc' = IF ~full /\ match.idx = 0
                     THEN IF nested THEN "forward" ELSE "ready"
                     ELSE "build"
  BY DEF TakeMatch
<1>1. PICK m \in DOMAIN m_cached_reverse_tree[p] :
        LET match == m_cached_reverse_tree[p][m]
        IN  /\ v_ref_reverse_trees' = Append(refs, match.tree)
            /\ call' = [tree |-> match.tree, type |-> p, full |-> full,
                        node_idx_in_tree |-> match.idx, nested |-> nested]
            /\ top' = Tree(match.tree)[1].prod
            /\ cur_iter_idx' = FirstIter
            /\ pc' = IF ~full /\ match.idx = 0
                     THEN IF nested THEN "forward" ELSE "ready"
                     ELSE "build"
  BY <1>0
<1>. DEFINE match == m_cached_reverse_tree[p][m]
            tree == Cache[match.tree]
<1>2. /\ v_ref_reverse_trees' = Append(refs, match.tree)
      /\ call' = [tree |-> match.tree, type |-> p, full |-> full,
                  node_idx_in_tree |-> match.idx, nested |-> nested]
      /\ top' = tree[1].prod
      /\ cur_iter_idx' = 1
      /\ pc' \in {"forward", "build", "ready"}
      /\ pc' # "build" => ~full /\ match.idx = 0
      /\ pc' = "build" => full \/ match.idx # 0
  BY <1>1 DEF FirstIter, Tree, Cache
<1>3. match \in Match /\ PointsTo(match.tree, match.idx, p)
  <2>1. m_cached_reverse_tree[p] \in Seq(Match)
    BY DEF TypeOK
  <2>2. match \in Match
    BY <2>1, SeqFacts
  <2>. QED  BY <2>2 DEF MatchInv
<1>4. match.tree \in Nat \ {0} /\ match.idx \in Nat
  BY <1>3 DEF Match
<1>. HIDE DEF match
<1>5. /\ match.tree \in DOMAIN Cache /\ match.idx + 1 \in DOMAIN tree
      /\ tree[match.idx + 1].prod = p
  BY <1>3 DEF PointsTo
<1>6. 1 \in DOMAIN tree /\ tree[1].prod \in Prods
  <2>1. Cache \in Seq(Seq(Nodes))
    BY DEF TypeOK, Cache
  <2>2. tree \in Seq(Nodes)
    BY <1>5, <2>1, SeqFacts
  <2>. HIDE DEF tree
  <2>3. DOMAIN tree = 1..Len(tree) /\ Len(tree) \in Nat
    BY <2>2, SeqFacts
  <2>4. 1 \in DOMAIN tree
    BY <1>4, <1>5, <2>3
  <2>5. tree[1] \in Nodes
    BY <2>2, <2>3, <2>4, SeqFacts
  <2>. QED  BY <2>4, <2>5 DEF Nodes
<1>7. TreeInv' /\ NameInv' /\ MatchInv' /\ Cache' = Cache
  BY <1>2, BuildingKeepsTrees
<1>8. /\ v_ref_reverse_trees' \in Seq(Nat \ {0})
      /\ References' = {refs[i] : i \in DOMAIN refs} \cup {match.tree}
  <2>. DEFINE S == Nat \ {0}
              new == v_ref_reverse_trees'
  <2>1. refs \in Seq(S) /\ match.tree \in S
    BY <1>4
  <2>2. new = Append(refs, match.tree)
    BY <1>2
  <2>. HIDE DEF S, new
  <2>3. /\ Append(refs, match.tree) \in Seq(S) /\ Len(refs) \in Nat
        /\ DOMAIN refs = 1..Len(refs)
        /\ DOMAIN Append(refs, match.tree) = 1..(Len(refs) + 1)
        /\ \A k \in 1..Len(refs) : Append(refs, match.tree)[k] = refs[k]
        /\ Append(refs, match.tree)[Len(refs) + 1] = match.tree
    BY <2>1, AppendFacts
  <2>4. {new[i] : i \in DOMAIN new} = {refs[i] : i \in DOMAIN refs} \cup {match.tree}
    <3>1. /\ Len(refs) \in Nat /\ DOMAIN refs = 1..Len(refs)
          /\ DOMAIN new = 1..(Len(refs) + 1)
          /\ \A k \in 1..Len(refs) : new[k] = refs[k]
          /\ new[Len(refs) + 1] = match.tree
      BY <2>2, <2>3
    <3>2. \A k \in DOMAIN new : k \in DOMAIN refs \/ k = Len(refs) + 1
      BY <3>1
    <3>3. /\ \A k \in DOMAIN refs : k \in DOMAIN new
          /\ Len(refs) + 1 \in DOMAIN new
      BY <3>1
    <3>. QED  BY <3>1, <3>2, <3>3
  <2>. QED  BY <2>2, <2>3, <2>4 DEF References, S, new
<1>9. /\ call'.tree = match.tree /\ call'.node_idx_in_tree = match.idx
      /\ call'.type = p /\ call'.full = full /\ call' # NoCall
  BY <1>2, <1>4 DEF NoCall
<1>10. BuildInv'
  <2>1. References' \subseteq DOMAIN Cache' /\ References' = used'
    BY <1>5, <1>7, <1>8, <1>9
  <2>2. PointsTo(call.tree, call.node_idx_in_tree, call.type)'
    BY <1>5, <1>7, <1>9 DEF PointsTo
  <2>3. pc' = "build" =>
          /\ cur_iter_idx' \in DOMAIN Cache'[call'.tree]
          /\ top' = Cache'[call'.tree][cur_iter_idx'].prod
          /\ ~call'.full => cur_iter_idx' <= call'.node_idx_in_tree
    BY <1>2, <1>4, <1>6, <1>7, <1>9
  <2>4. pc' \in {"forward", "ready"} /\ call' # NoCall /\ ~call'.full =>
          top' = call'.type
    BY <1>2, <1>5, <1>9
  <2>. QED  BY <2>1, <2>2, <2>3, <2>4, <1>9 DEF BuildInv
<1>11. TypeOK'
  <2>1. used' \subseteq Nat \ {0}
    <3>1. \A i \in DOMAIN refs : refs[i] \in Nat \ {0}
      BY ElementOfSeq
    <3>. QED  BY <3>1, <1>4, <1>9
  <2>2. call' \in [tree : Nat, node_idx_in_tree : Nat, type : Prods \cup {""},
                   full : BOOLEAN, nested : BOOLEAN]
    BY <1>2, <1>4
  <2>3. top' \in Prods \cup {""} /\ cur_iter_idx' \in Nat
    BY <1>2, <1>6
  <2>. QED  BY <1>2, <1>8, <2>1, <2>2, <2>3
            DEF TypeOK, TreeOK, treeVars, cacheVars
<1>. QED  BY <1>7, <1>10, <1>11

(* A statement from a tree refers to that tree alone.                      *)
LEMMA GenerateFromTreeKeeps ==
  ASSUME TreesInv, GenerateFromTree
  PROVE  TreesInv'
<1>1. PICK full \in BOOLEAN : TakeMatch(<<>>, full, FALSE)
  BY DEF GenerateFromTree, FreshReferences
<1>2. UNCHANGED <<treeVars, cacheVars, s_reverse_tree_hash_set>>
      /\ used' = {call'.tree}
  BY DEF GenerateFromTree
<1>. DEFINE none == <<>>
<1>3. none \in Seq(Nat \ {0}) /\ \A i \in DOMAIN none : FALSE
  OBVIOUS
<1>4. TakeMatch(none, full, FALSE)
  BY <1>1
<1>. HIDE DEF none
<1>5. used' = {none[i] : i \in DOMAIN none} \cup {call'.tree}
  BY <1>2, <1>3
<1>6. \A i \in DOMAIN none : none[i] \in DOMAIN Cache
  BY <1>3
<1>. QED  BY <1>2, <1>3, <1>4, <1>5, <1>6, TakeMatchKeeps

(* Forward generation refers to no tree at first.                          *)
LEMMA GenerateForwardKeeps ==
  ASSUME TreesInv, GenerateForward
  PROVE  TreesInv'
<1>. USE DEF TreesInv
<1>1. TreeInv' /\ NameInv' /\ MatchInv' /\ Cache' = Cache
  BY BuildingKeepsTrees DEF GenerateForward
<1>2. v_ref_reverse_trees' = <<>> /\ References' = {}
  BY NoReferences DEF GenerateForward, FreshReferences
<1>3. TypeOK'
  BY <1>2, NothingUnderWay DEF GenerateForward, TypeOK, TreeOK, treeVars, cacheVars
<1>4. BuildInv'
  BY <1>2 DEF GenerateForward, BuildInv
<1>. QED  BY <1>1, <1>3, <1>4

(* A child along a cached tree adds its tree to the references.            *)
LEMMA GenerateChildKeeps ==
  ASSUME TreesInv, GenerateChild
  PROVE  TreesInv'
<1>1. /\ v_ref_reverse_trees \in Seq(Nat \ {0})
      /\ References \subseteq DOMAIN Cache /\ used = References
  BY DEF TreesInv, TypeOK, BuildInv, GenerateChild
<1>2. \A i \in DOMAIN v_ref_reverse_trees : v_ref_reverse_trees[i] \in DOMAIN Cache
  BY <1>1 DEF References
<1>3. /\ UNCHANGED <<treeVars, cacheVars, s_reverse_tree_hash_set>>
      /\ TakeMatch(v_ref_reverse_trees, FALSE, TRUE)
      /\ used' = used \cup {call'.tree}
  BY DEF GenerateChild
<1>4. used' = {v_ref_reverse_trees[i] : i \in DOMAIN v_ref_reverse_trees} \cup {call'.tree}
  BY <1>1, <1>3 DEF References
<1>. QED  BY <1>1, <1>2, <1>3, <1>4, TakeMatchKeeps

(* The end of forward generation keeps what was built.                     *)
LEMMA EndForwardKeeps ==
  ASSUME TreesInv, EndForward
  PROVE  TreesInv'
<1>. USE DEF TreesInv
<1>1. TreeInv' /\ NameInv' /\ MatchInv' /\ Cache' = Cache
  BY BuildingKeepsTrees DEF EndForward
<1>2. TypeOK'
  BY DEF EndForward, TypeOK, TreeOK, treeVars, cacheVars, buildVars
<1>3. BuildInv'
  BY <1>1 DEF EndForward, BuildInv, References, PointsTo, buildVars
<1>. QED  BY <1>1, <1>2, <1>3

(* The climb along a tree stops at the match or at the root.               *)
LEMMA ReverseGenerateKeeps ==
  ASSUME TreesInv, ReverseGenerate
  PROVE  TreesInv'
<1>. USE DEF TreesInv
<1>. DEFINE tree == Cache[call.tree]
            idx == call.node_idx_in_tree
<1>0. pc' \in {"forward", "build", "ready"}
      /\ UNCHANGED <<treeVars, cacheVars, s_reverse_tree_hash_set,
                     v_ref_reverse_trees, used, call>>
  BY DEF ReverseGenerate
<1>1. TreeInv' /\ NameInv' /\ MatchInv' /\ Cache' = Cache
  BY <1>0, BuildingKeepsTrees
<1>2. /\ References \subseteq DOMAIN Cache /\ References = used
      /\ call # NoCall /\ PointsTo(call.tree, idx, call.type)
      /\ cur_iter_idx \in DOMAIN tree
      /\ top = tree[cur_iter_idx].prod
      /\ ~call.full => cur_iter_idx <= idx
  BY DEF ReverseGenerate, BuildInv
<1>3. /\ call.tree \in DOMAIN Cache /\ idx + 1 \in DOMAIN tree
      /\ tree[idx + 1].prod = call.type
  BY <1>2 DEF PointsTo
<1>4. idx \in Nat
  BY DEF TypeOK
<1>5. tree \in Seq(Nodes)
  <2>1. Cache \in Seq(Seq(Nodes))
    BY DEF TypeOK, Cache
  <2>. QED  BY <1>3, <2>1, SeqFacts
<1>. HIDE DEF tree, idx
<1>6. DOMAIN tree = 1..Len(tree) /\ Len(tree) \in Nat
      /\ \A k \in 1..Len(tree) : tree[k] \in Nodes
  BY <1>5, SeqFacts
<1>7. CASE cur_iter_idx >= Len(tree)
  <2>1. UNCHANGED <<top, cur_iter_idx>> /\ pc' \in {"forward", "ready"}
    BY <1>7 DEF ReverseGenerate, Tree, tree, Cache
  <2>2. call.full
    BY <1>2, <1>3, <1>4, <1>6, <1>7
  <2>3. BuildInv'
    BY <1>0, <1>1, <1>2, <2>1, <2>2 DEF BuildInv, References, PointsTo, idx
  <2>4. TypeOK'
    BY <1>0, <2>1 DEF TypeOK, TreeOK, treeVars, cacheVars
  <2>. QED  BY <1>1, <2>3, <2>4
<1>8. CASE ~(cur_iter_idx >= Len(tree))
  <2>1. /\ top' = tree[cur_iter_idx + 1].prod /\ cur_iter_idx' = cur_iter_idx + 1
        /\ pc' = "build" => call.full \/ idx # cur_iter_idx
        /\ pc' # "build" => ~call.full /\ idx = cur_iter_idx
    BY <1>8 DEF ReverseGenerate, AtMatch, Tree, tree, idx, Cache
  <2>2. cur_iter_idx' \in DOMAIN tree /\ cur_iter_idx' \in Nat
    BY <1>2, <1>6, <1>8, <2>1
  <2>3. top' = tree[cur_iter_idx'].prod /\ top' \in Prods
    BY <1>6, <2>1, <2>2 DEF Nodes
  <2>4. pc' = "build" /\ ~call.full => cur_iter_idx' <= idx
    BY <1>2, <1>4, <1>6, <2>1
  <2>5. pc' # "build" => top' = call.type
    BY <1>3, <2>1
  <2>6. BuildInv'
    <3>1. References' = References /\ call' = call /\ used' = used
      BY <1>0 DEF References
    <3>2. PointsTo(call.tree, call.node_idx_in_tree, call.type)'
      BY <1>1, <1>2, <3>1 DEF PointsTo, idx
    <3>3. Cache'[call'.tree] = tree /\ call'.node_idx_in_tree = idx
      BY <1>1, <3>1 DEF tree, idx
    <3>. QED  BY <1>1, <1>2, <2>2, <2>3, <2>4, <2>5, <3>1, <3>2, <3>3 DEF BuildInv
  <2>7. TypeOK'
    BY <1>0, <2>2, <2>3 DEF TypeOK, TreeOK, treeVars, cacheVars
  <2>. QED  BY <1>1, <2>6, <2>7
<1>. QED  BY <1>7, <1>8

-----------------------------------------------------------------------------
(* Steps that judge a statement                                            *)

(* A rewarded statement has its trees mutated again.                       *)
LEMMA RewardKeeps ==
  ASSUME TreesInv, Reward
  PROVE  TreesInv'
<1>. USE DEF TreesInv
<1>. DEFINE refs == v_ref_reverse_trees
<1>1. /\ Len(refs) \in Nat /\ DOMAIN refs = 1..Len(refs)
      /\ \A i \in 1..Len(refs) : refs[i] \in DOMAIN Cache
  <2>1. refs \in Seq(Nat \ {0})
    BY DEF TypeOK
  <2>2. Len(refs) \in Nat /\ DOMAIN refs = 1..Len(refs)
    BY <2>1, SeqFacts
  <2>3. \A i \in DOMAIN refs : refs[i] \in DOMAIN Cache
    BY DEF BuildInv, References
  <2>. QED  BY <2>2, <2>3
<1>2. \A i \in 1..Len(refs) : LET tree == Cache[refs[i]]
                              IN  tree \in Seq(Nodes) /\ tree # <<>> /\ Climbs(tree)
  <2>1. Cache \in Seq(Seq(Nodes))
    BY DEF TypeOK, Cache
  <2>2. \A c \in DOMAIN Cache : Cache[c] \in Seq(Nodes)
    BY <2>1, SeqFacts
  <2>3. \A c \in DOMAIN Cache : Cache[c] # <<>> /\ Climbs(Cache[c])
    BY DEF TreeInv, IsFinished
  <2>. QED  BY <1>1, <2>2, <2>3
<1>. DEFINE trees == [i \in 1..Len(refs) |-> Cache[refs[i]]]
<1>3. later' = [i \in 1..Len(refs) |-> MutationsOf(trees[i])]
  <2>1. later' = [i \in 1..Len(refs) |-> MutationsOf(Cache[refs[i]])]
    BY <1>1 DEF Reward, Tree, Cache
  <2>. QED  BY <2>1
<1>4. \A i \in 1..Len(refs) :
        trees[i] \in Seq(Nodes) /\ trees[i] # <<>> /\ Climbs(trees[i])
  BY <1>2
<1>. HIDE DEF trees
<1>5. /\ later' \in Seq(Seq(Mutation))
      /\ \A i \in DOMAIN later' : \A j \in DOMAIN later'[i] : IsMutation(later'[i][j])
  BY <1>1, <1>3, <1>4, BatchesFacts, Zenon
<1>6. NameInv' /\ MatchInv' /\ BuildInv'
  BY MakingKeepsCache DEF Reward
<1>7. TypeOK'
  BY <1>5 DEF Reward, TypeOK, TreeOK, cacheVars, buildVars
<1>8. TreeInv'
  BY <1>5 DEF Reward, TreeInv, cacheVars, Cache
<1>. QED  BY <1>6, <1>7, <1>8

(* Clearing the references leaves none.                                    *)
LEMMA ClearReferencesKeeps ==
  ASSUME TreesInv, ClearReferences
  PROVE  TreesInv'
<1>. USE DEF TreesInv
<1>1. TreeInv' /\ NameInv' /\ MatchInv' /\ Cache' = Cache
  BY BuildingKeepsTrees DEF ClearReferences
<1>2. v_ref_reverse_trees' = <<>> /\ References' = {}
  BY NoReferences DEF ClearReferences
<1>3. TypeOK'
  BY <1>2, NothingUnderWay DEF ClearReferences, TypeOK, TreeOK, treeVars, cacheVars
<1>4. BuildInv'
  BY <1>2 DEF ClearReferences, BuildInv
<1>. QED  BY <1>1, <1>3, <1>4

(* References left behind still point into the cache.                      *)
LEMMA LeaveReferencesKeeps ==
  ASSUME TreesInv, LeaveReferences
  PROVE  TreesInv'
<1>. USE DEF TreesInv
<1>1. TreeInv' /\ NameInv' /\ MatchInv' /\ Cache' = Cache
  BY BuildingKeepsTrees DEF LeaveReferences
<1>2. TypeOK'
  BY NothingUnderWay DEF LeaveReferences, TypeOK, TreeOK, treeVars, cacheVars
<1>3. BuildInv'
  BY <1>1 DEF LeaveReferences, BuildInv, References
<1>. QED  BY <1>1, <1>2, <1>3

-----------------------------------------------------------------------------
(* The theorems                                                            *)

(* Before the first tree is drawn everything is empty.                     *)
LEMMA TreesInit == Init => TreesInv
<1>. SUFFICES ASSUME Init  PROVE TreesInv
  OBVIOUS
<1>1. \A i \in DOMAIN <<>> : FALSE
  OBVIOUS
<1>a. 0 \in 0..MaxDepth
  BY GrammarAssumption
<1>. USE GrammarAssumption DEF Init, Cache
<1>2. TypeOK
  <2>1. /\ <<>> \in Seq(Nodes) /\ <<>> \in Seq(Mutation)
        /\ <<>> \in Seq(Seq(Mutation)) /\ <<>> \in Seq(Seq(Nodes))
        /\ <<>> \in Seq(Match)
    BY EmptySeq
  <2>2. m_cached_reverse_tree \in [Prods -> Seq(Match)]
    BY <2>1
  <2>3. jobs \in Seq(Prods) /\ fuel \in 0..MaxDepth
    <3>1. Interesting \in Seq(Prods)
      BY DEF GrammarAssumption
    <3>2. jobs = Interesting /\ fuel = 0
      OBVIOUS
    <3>3. fuel \in 0..MaxDepth
      BY <1>a, <3>2, Zenon
    <3>. QED  BY <3>1, <3>2, <3>3, Zenon
  <2>. QED  BY <2>1, <2>2, <2>3, NothingUnderWay DEF TypeOK, TreeOK
<1>3. TreeInv
  BY <1>1, EmptyClimbs DEF TreeInv
<1>4. NameInv
  BY <1>1 DEF NameInv
<1>5. MatchInv
  <2>1. \A p \in Prods : m_cached_reverse_tree[p] = <<>>
    OBVIOUS
  <2>. QED  BY <1>1, <2>1 DEF MatchInv
<1>6. BuildInv
  BY <1>1 DEF BuildInv, References
<1>. QED  BY <1>2, <1>3, <1>4, <1>5, <1>6 DEF TreesInv

(* Every step keeps the invariant.                                         *)
LEMMA TreesNext == TreesInv /\ [Next]_vars => TreesInv'
<1>. SUFFICES ASSUME TreesInv, [Next]_vars  PROVE TreesInv'
  OBVIOUS
<1>1. CASE MakeTrees
  BY <1>1, DrawKeeps, ClimbKeeps, TrimKeeps, AdmitKeeps, MutateKeeps, DrawsDoneKeeps,
     NextBatchKeeps, CacheMutantKeeps, MutationsDoneKeeps DEF MakeTrees
<1>2. CASE MakeStatement
  BY <1>2, GenerateFromTreeKeeps, GenerateForwardKeeps, GenerateChildKeeps,
     EndForwardKeeps, ReverseGenerateKeeps, RewardKeeps, ClearReferencesKeeps,
     LeaveReferencesKeeps DEF MakeStatement
<1>3. CASE UNCHANGED vars
  <2>. USE <1>3 DEF vars, treeVars, cacheVars, buildVars, Cache
  <2>1. TypeOK'
    BY DEF TreesInv, TypeOK, TreeOK
  <2>2. TreeInv' /\ NameInv'
    BY DEF TreesInv, TreeInv, NameInv
  <2>3. MatchInv' /\ BuildInv'
    BY DEF TreesInv, MatchInv, BuildInv, PointsTo, References
  <2>. QED  BY <2>1, <2>2, <2>3 DEF TreesInv
<1>. QED  BY <1>1, <1>2, <1>3 DEF Next

(* The inductive invariant holds throughout, whatever the grammar.         *)
THEOREM TreesInvariant == Spec => []TreesInv
BY TreesInit, TreesNext, PTL DEF Spec

(* The types of the state.                                                 *)
THEOREM TreesTypes == Spec => []TypeOK
<1>1. TreesInv => TypeOK
  BY DEF TreesInv
<1>. QED  BY <1>1, TreesInvariant, PTL

(* Every cached tree climbs the grammar node by node, passes no type twice *)
(* and is there once.                                                      *)
THEOREM CacheStaysSound == Spec => []CacheIsSound
<1>1. TreesInv => CacheIsSound
  <2>. SUFFICES ASSUME TreesInv, NEW i \in DOMAIN v_p_cached_reverse_tree
                PROVE  /\ Climbs(Tree(i))
                       /\ NoRepeat(Tree(i))
                       /\ \A j \in DOMAIN v_p_cached_reverse_tree :
                            Names(Tree(i)) = Names(Tree(j)) => i = j
    BY DEF CacheIsSound, NoRepeat
  <2>1. Climbs(Tree(i)) /\ NoRepeat(Tree(i))
    BY DEF TreesInv, TreeInv, IsFinished, Tree, Cache
  <2>2. \A j \in DOMAIN v_p_cached_reverse_tree : Names(Tree(i)) = Names(Tree(j)) => i = j
    BY DEF TreesInv, NameInv, Tree, Cache
  <2>. QED  BY <2>1, <2>2
<1>. QED  BY <1>1, TreesInvariant, PTL

(* The index by type and the cache agree.                                  *)
THEOREM IndexAgrees == Spec => []MatchesIndexTheCache
<1>1. TreesInv => MatchesIndexTheCache
  <2>. SUFFICES ASSUME TreesInv, NEW p \in Prods
                PROVE  {<<m.tree, m.idx>> : m \in {m_cached_reverse_tree[p][k] :
                                   k \in DOMAIN m_cached_reverse_tree[p]}}
     = {ik \in (DOMAIN Cache) \X (0..MaxDepth) :
          ik[2] < Len(Cache[ik[1]]) /\ Cache[ik[1]][ik[2] + 1].prod = p}
    BY DEF MatchesIndexTheCache, Tree, Cache
  <2>. USE GrammarAssumption DEF TreesInv
  <2>. DEFINE M == m_cached_reverse_tree[p]
              Places == {ik \in (DOMAIN Cache) \X (0..MaxDepth) :
                 ik[2] < Len(Cache[ik[1]]) /\ Cache[ik[1]][ik[2] + 1].prod = p}
  <2>1. M \in Seq(Match) /\ Cache \in Seq(Seq(Nodes))
    BY DEF TypeOK, Cache
  <2>2. \A i \in DOMAIN Cache : /\ DOMAIN Cache[i] = 1..Len(Cache[i])
                                /\ Len(Cache[i]) \in Nat /\ Len(Cache[i]) < MaxDepth
    <3>. TAKE i \in DOMAIN Cache
    <3>1. Cache[i] \in Seq(Nodes)
      BY <2>1, SeqFacts
    <3>. QED  BY <3>1, SeqFacts DEF MatchInv
  <2>3. ASSUME NEW k \in DOMAIN M  PROVE <<M[k].tree, M[k].idx>> \in Places
    <3>1. PointsTo(M[k].tree, M[k].idx, p)
      BY DEF MatchInv
    <3>2. M[k] \in Match
      BY <2>1, SeqFacts
    <3>3. M[k].idx \in Nat
      BY <3>2 DEF Match
    <3>4. /\ M[k].tree \in DOMAIN Cache /\ M[k].idx + 1 \in DOMAIN Cache[M[k].tree]
          /\ Cache[M[k].tree][M[k].idx + 1].prod = p
      BY <3>1 DEF PointsTo
    <3>. HIDE DEF M
    <3>5. M[k].idx < Len(Cache[M[k].tree]) /\ M[k].idx \in 0..MaxDepth
      BY <2>2, <3>3, <3>4
    <3>. QED  BY <3>4, <3>5
  <2>4. ASSUME NEW i \in DOMAIN Cache, NEW x \in 0..MaxDepth,
               x < Len(Cache[i]), Cache[i][x + 1].prod = p
        PROVE  \E k \in DOMAIN M : M[k].tree = i /\ M[k].idx = x
    <3>1. x + 1 \in DOMAIN Cache[i] /\ (x + 1) - 1 = x
      BY <2>2, <2>4
    <3>2. \E k \in DOMAIN m_cached_reverse_tree[Cache[i][x + 1].prod] :
             /\ m_cached_reverse_tree[Cache[i][x + 1].prod][k].tree = i
             /\ m_cached_reverse_tree[Cache[i][x + 1].prod][k].idx = (x + 1) - 1
      BY <3>1 DEF MatchInv
    <3>. QED  BY <2>4, <3>1, <3>2
  <2>. HIDE DEF M
  <2>5. ASSUME NEW ik \in Places
        PROVE  \E k \in DOMAIN M : ik = <<M[k].tree, M[k].idx>>
    <3>. DEFINE i == ik[1]
                x == ik[2]
    <3>1. /\ ik = <<i, x>> /\ i \in DOMAIN Cache /\ x \in 0..MaxDepth
          /\ x < Len(Cache[i]) /\ Cache[i][x + 1].prod = p
      OBVIOUS
    <3>. HIDE DEF i, x, Places
    <3>2. PICK k \in DOMAIN M : M[k].tree = i /\ M[k].idx = x
      BY <2>4, <3>1
    <3>. QED  BY <3>1, <3>2
  <2>. HIDE DEF Places
  <2>6. {<<m.tree, m.idx>> : m \in {M[k] : k \in DOMAIN M}} = Places
    BY <2>3, <2>5
  <2>. QED  BY <2>6 DEF M, Places
<1>. QED  BY <1>1, TreesInvariant, PTL

(* What reverse generation builds is in the grammar: a parent takes the    *)
(* child it is given, and the last one has the type that was asked for.    *)
THEOREM BuildingFollowsGrammar == Spec => []MatchYieldsItsType
<1>1. TreesInv => ParentTakesChild
  <2>. SUFFICES ASSUME TreesInv, pc = "build", cur_iter_idx < Len(Cache[call.tree])
                PROVE  LET n == Cache[call.tree][cur_iter_idx + 1]
                       IN  IsRuleToken(n) /\ Slot(n) = top
    BY DEF ParentTakesChild, Tree, Cache
  <2>. DEFINE tree == Cache[call.tree]
  <2>1. call.tree \in DOMAIN Cache /\ cur_iter_idx \in DOMAIN tree
        /\ top = tree[cur_iter_idx].prod
    BY DEF TreesInv, BuildInv, PointsTo
  <2>2. Climbs(tree)
    BY <2>1 DEF TreesInv, TreeInv, IsFinished
  <2>3. tree \in Seq(Nodes)
    <3>1. Cache \in Seq(Seq(Nodes))
      BY DEF TreesInv, TypeOK, Cache
    <3>. QED  BY <2>1, <3>1, SeqFacts
  <2>4. cur_iter_idx < Len(tree)
    OBVIOUS
  <2>. HIDE DEF tree
  <2>5. cur_iter_idx + 1 \in 2..Len(tree) /\ (cur_iter_idx + 1) - 1 = cur_iter_idx
    <3>1. DOMAIN tree = 1..Len(tree) /\ Len(tree) \in Nat
      BY <2>3, SeqFacts
    <3>. QED  BY <2>1, <2>4, <3>1
  <2>6. IsRuleToken(tree[cur_iter_idx + 1])
        /\ Slot(tree[cur_iter_idx + 1]) = tree[cur_iter_idx].prod
    BY <2>2, <2>5 DEF Climbs
  <2>. QED  BY <2>1, <2>6 DEF tree
<1>2. TreesInv => ChildIsAsAsked
  BY DEF TreesInv, BuildInv, ChildIsAsAsked
<1>3. TreesInv => MatchYieldsItsType
  BY <1>1, <1>2 DEF MatchYieldsItsType
<1>. QED  BY <1>3, TreesInvariant, PTL

(* A statement is judged with references to its own trees.                 *)
THEOREM ReferencesAlwaysOwn == Spec => []ReferencesAreOwn
<1>1. TreesInv => ReferencesAreOwn
  BY DEF TreesInv, BuildInv, References, ReferencesAreOwn
<1>. QED  BY <1>1, TreesInvariant, PTL
-----------------------------------------------------------------------------
(* Rounds converge                                                         *)

(* The order of efforts, written out.                                      *)
Drawing == IF phase = "draw" THEN 1 ELSE 0
SameRest ==
  UNCHANGED <<Drawing, Len(jobs), Len(later), Len(batch)>>
LessToDo ==
  \/ Drawing' < Drawing
  \/ UNCHANGED Drawing /\ Len(jobs') < Len(jobs)
  \/ UNCHANGED <<Drawing, Len(jobs)>> /\ Len(later') < Len(later)
  \/ UNCHANGED <<Drawing, Len(jobs), Len(later)>> /\ Len(batch') < Len(batch)
  \/ SameRest /\ Stage' < Stage
  \/ SameRest /\ UNCHANGED Stage /\ StepsOfStage' < StepsOfStage
  \/ SameRest /\ UNCHANGED <<Stage, StepsOfStage>> /\ Len(fresh') < Len(fresh)

LEMMA LighterFacts ==
  ASSUME LessToDo
  PROVE  Lighter(Effort', Effort)
<1>1. /\ DOMAIN Effort = 1..7
      /\ Effort[1] = Drawing /\ Effort[2] = Len(jobs) /\ Effort[3] = Len(later)
      /\ Effort[4] = Len(batch) /\ Effort[5] = Stage /\ Effort[6] = StepsOfStage
      /\ Effort[7] = Len(fresh)
  BY DEF Effort, Drawing
<1>2. /\ Effort'[1] = Drawing' /\ Effort'[2] = Len(jobs') /\ Effort'[3] = Len(later')
      /\ Effort'[4] = Len(batch') /\ Effort'[5] = Stage' /\ Effort'[6] = StepsOfStage'
      /\ Effort'[7] = Len(fresh')
  BY DEF Effort, Drawing
<1>3. PICK i \in 1..7 :
        Effort'[i] < Effort[i] /\ \A j \in 1..7 : j < i => Effort'[j] = Effort[j]
  <2>. DEFINE At(i) == Effort'[i] < Effort[i] /\ \A j \in 1..7 : j < i => Effort'[j] = Effort[j]
  <2>1. CASE Drawing' < Drawing
    <3>1. At(1)
      BY <1>1, <1>2, <2>1
    <3>. QED  BY <3>1
  <2>2. CASE UNCHANGED Drawing /\ Len(jobs') < Len(jobs)
    <3>1. \A j \in 1..7 : j < 2 => j = 1
      OBVIOUS
    <3>2. At(2)
      BY <1>1, <1>2, <2>2, <3>1
    <3>. QED  BY <3>2
  <2>3. CASE UNCHANGED <<Drawing, Len(jobs)>> /\ Len(later') < Len(later)
    <3>1. \A j \in 1..7 : j < 3 => j = 1 \/ j = 2
      OBVIOUS
    <3>2. At(3)
      BY <1>1, <1>2, <2>3, <3>1
    <3>. QED  BY <3>2
  <2>4. CASE UNCHANGED <<Drawing, Len(jobs), Len(later)>> /\ Len(batch') < Len(batch)
    <3>1. \A j \in 1..7 : j < 4 => j = 1 \/ j = 2 \/ j = 3
      OBVIOUS
    <3>2. At(4)
      BY <1>1, <1>2, <2>4, <3>1
    <3>. QED  BY <3>2
  <2>5. CASE SameRest /\ Stage' < Stage
    <3>1. \A j \in 1..7 : j < 5 => j = 1 \/ j = 2 \/ j = 3 \/ j = 4
      OBVIOUS
    <3>2. At(5)
      BY <1>1, <1>2, <2>5, <3>1 DEF SameRest
    <3>. QED  BY <3>2
  <2>6. CASE SameRest /\ UNCHANGED Stage /\ StepsOfStage' < StepsOfStage
    <3>1. \A j \in 1..7 : j < 6 => j = 1 \/ j = 2 \/ j = 3 \/ j = 4 \/ j = 5
      OBVIOUS
    <3>2. At(6)
      BY <1>1, <1>2, <2>6, <3>1 DEF SameRest
    <3>. QED  BY <3>2
  <2>7. CASE SameRest /\ UNCHANGED <<Stage, StepsOfStage>> /\ Len(fresh') < Len(fresh)
    <3>1. \A j \in 1..7 : j < 7 => j = 1 \/ j = 2 \/ j = 3 \/ j = 4 \/ j = 5 \/ j = 6
      OBVIOUS
    <3>2. At(7)
      BY <1>1, <1>2, <2>7, <3>1 DEF SameRest
    <3>. QED  BY <3>2
  <2>. QED  BY <2>1, <2>2, <2>3, <2>4, <2>5, <2>6, <2>7 DEF LessToDo
<1>4. \A j \in 1..(i - 1) : j \in 1..7 /\ j < i
  OBVIOUS
<1>. QED  BY <1>1, <1>3, <1>4 DEF Lighter

(* A cut shortens the tree.                                                *)
LEMMA TrimShortens ==
  ASSUME TreesInv, Trim
  PROVE  Len(path) \in Nat /\ Len(path') \in Nat /\ Len(path') < Len(path)
<1>1. path \in Seq(Nodes) /\ Len(path) \in Nat /\ DOMAIN path = 1..Len(path)
  BY SeqFacts DEF TreesInv, TypeOK, TreeOK
<1>2. PICK ij \in Repeats(path) : path' = WithoutGap(path, ij[1], ij[2])
  BY DEF Trim
<1>3. ij[1] \in 1..Len(path) /\ ij[2] \in 1..Len(path) /\ ij[1] < ij[2]
  BY <1>1, <1>2 DEF Repeats
<1>4. PICK n \in Nat : n = Len(path) - (ij[2] - ij[1]) /\ n < Len(path)
  BY <1>1, <1>3
<1>5. DOMAIN path' = 1..n
  BY <1>2, <1>4 DEF WithoutGap
<1>6. path' \in Seq(Nodes)
  BY TrimKeeps DEF TreesInv, TypeOK, TreeOK
<1>7. DOMAIN path' = 1..Len(path') /\ Len(path') \in Nat
  BY <1>6, SeqFacts
<1>8. Len(path') = n
  BY <1>4, <1>5, <1>7
<1>. QED  BY <1>1, <1>4, <1>8

(* Every step of the making of trees leaves less to do.                    *)
LEMMA Converges ==
  TreesInv /\ Next /\ MakingTrees /\ MakingTrees' => Lighter(Effort', Effort)
<1>. SUFFICES ASSUME TreesInv, Next, MakingTrees, MakingTrees'
              PROVE  Lighter(Effort', Effort)
  OBVIOUS
<1>1. /\ jobs \in Seq(Prods) /\ batch \in Seq(Mutation)
      /\ later \in Seq(Seq(Mutation)) /\ fresh \in Seq(Seq(Nodes))
      /\ fuel \in 0..MaxDepth
  BY DEF TreesInv, TypeOK
<1>. USE DEF MakingTrees, Drawing, SameRest
<1>3. CASE Draw
  <2>1. Len(jobs') < Len(jobs)
    BY <1>1, <1>3 DEF Draw
  <2>2. UNCHANGED phase
    BY <1>3 DEF Draw
  <2>. QED  BY <2>1, <2>2, LighterFacts DEF LessToDo
<1>4. CASE Climb
  <2>1. UNCHANGED <<phase, jobs, later, batch>> /\ Stage = 2
    BY <1>4 DEF Climb, Stage
  <2>2. \/ pc' \in {"trim", "next"}
        \/ pc' = "climb" /\ fuel' = fuel - 1
    BY <1>4 DEF Climb, Burn
  <2>3. CASE pc' \in {"trim", "next"}
    <3>1. Stage' < Stage
      BY <2>1, <2>3 DEF Stage
    <3>. QED  BY <2>1, <3>1, LighterFacts DEF LessToDo
  <2>4. CASE pc' = "climb" /\ fuel' = fuel - 1
    <3>1. Stage' = Stage
      BY <2>1, <2>4 DEF Stage
    <3>2. StepsOfStage' < StepsOfStage
      BY <1>1, <1>4, <2>4 DEF StepsOfStage, Climb
    <3>. QED  BY <2>1, <3>1, <3>2, LighterFacts DEF LessToDo
  <2>. QED  BY <2>2, <2>3, <2>4
<1>5. CASE Trim
  <2>1. UNCHANGED <<phase, jobs, later, batch>> /\ Stage' = Stage
    BY <1>5 DEF Trim, Stage
  <2>2. StepsOfStage' < StepsOfStage
    BY <1>5, TrimShortens DEF StepsOfStage, Trim
  <2>. QED  BY <2>1, <2>2, LighterFacts DEF LessToDo
<1>6. CASE Admit
  <2>1. UNCHANGED <<phase, jobs, later, batch>> /\ Stage = 1 /\ Stage' = 0
    BY <1>6 DEF Admit, Stage
  <2>. QED  BY <2>1, LighterFacts DEF LessToDo
<1>7. CASE Mutate
  <2>1. UNCHANGED <<phase, jobs, later>> /\ batch # <<>> /\ batch' = Tail(batch)
    BY <1>7 DEF Mutate
  <2>2. Len(batch') < Len(batch)
    BY <1>1, <2>1
  <2>. QED  BY <2>1, <2>2, LighterFacts DEF LessToDo
<1>8. CASE DrawsDone
  <2>1. Drawing' < Drawing
    BY <1>8 DEF DrawsDone
  <2>. QED  BY <2>1, LighterFacts DEF LessToDo
<1>9. CASE NextBatch
  <2>1. UNCHANGED <<phase, jobs>> /\ later # <<>> /\ later' = Tail(later)
    BY <1>9 DEF NextBatch
  <2>2. Len(later') < Len(later)
    BY <1>1, <2>1
  <2>. QED  BY <2>1, <2>2, LighterFacts DEF LessToDo
<1>10. CASE CacheMutant
  <2>1. /\ UNCHANGED <<phase, jobs, later, batch, pc, fuel, path>>
        /\ fresh # <<>> /\ fresh' = Tail(fresh)
    BY <1>10 DEF CacheMutant
  <2>2. Len(fresh') < Len(fresh)
    BY <1>1, <2>1
  <2>3. Stage' = Stage /\ StepsOfStage' = StepsOfStage
    BY <2>1 DEF Stage, StepsOfStage
  <2>. QED  BY <2>1, <2>2, <2>3, LighterFacts DEF LessToDo
<1>11. CASE MutationsDone
  BY <1>11 DEF MutationsDone
<1>12. CASE MakeStatement
  BY <1>12 DEF MakeStatement, GenerateFromTree, GenerateForward, GenerateChild, EndForward,
               ReverseGenerate, Reward, ClearReferences, LeaveReferences
<1>. QED
  BY <1>3, <1>4, <1>5, <1>6, <1>7, <1>8, <1>9, <1>10, <1>11, <1>12 DEF Next, MakeTrees

(* For every grammar, a round of drawing or mutating cannot go on for ever:*)
(* the order of efforts is well-founded.                                   *)
THEOREM RoundsAlwaysConverge == Spec => RoundsConverge
<1>1. TreesInv /\ [Next]_vars =>
        [MakingTrees /\ MakingTrees' => Lighter(Effort', Effort)]_vars
  BY Converges
<1>. QED  BY <1>1, TreesInvariant, PTL DEF Spec, RoundsConverge
=============================================================================
