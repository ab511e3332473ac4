---------------------------- MODULE ReverseTrees ----------------------------
(***************************************************************************)
(* The reverse trees of the random statement generator                     *)
(* (rsg_generator/rsg.cpp, headers/reverse_tree.h).                        *)
(*                                                                         *)
(* A reverse tree is a path that climbs the grammar: from a production, to *)
(* an expression that has it as a token, to the production the expression  *)
(* belongs to, and so on until a statement.  The generator draws trees for *)
(* the interesting productions when it starts, mutates them, and keeps     *)
(* every new one in a cache with an index by type.  A statement is built   *)
(* along cached trees; if it finds new coverage, the trees it was built    *)
(* from are mutated once more.                                             *)
(*                                                                         *)
(* The IR is abstracted to the type of its topmost node, a production and  *)
(* its type are one, and the outcome of a statement is nondeterministic.   *)
(* Tree pointers are positions in the cache; indexes of nodes count from 0 *)
(* as in the code, so node i of a tree is its element i + 1.               *)
(***************************************************************************)
EXTENDS Integers, Sequences, FiniteSets

CONSTANTS
  Grammar,        \* production -> its expressions, each a sequence of tokens
  StmtTyped,      \* the productions whose type is a statement
  Interesting,    \* the productions to draw trees for, in order, with repeats
  MaxDepth,       \* reverse_maximum_depth (20)
  Energy,         \* num_reverse_tree_mutation (10)
  MaxUses         \* cached trees one forward generation uses

Prods == DOMAIN Grammar

ASSUME GrammarAssumption ==
  /\ \A p \in Prods : Grammar[p] \in Seq(Seq(STRING))
  /\ StmtTyped \subseteq Prods
  /\ Interesting \in Seq(Prods)
  /\ MaxDepth \in Nat \ {0} /\ Energy \in Nat \ {0} /\ MaxUses \in Nat

VARIABLES
  pc,        \* what the generator is doing
  phase,     \* whether it draws, mutates what it drew, or mutates for a reward
  path,      \* res_tree, the tree under construction
  fuel,      \* maximum_depth of the climb
  jobs,      \* the interesting productions left to draw a tree for
  batch,     \* the mutations left for the trees at hand
  later,     \* the batches to come
  fresh,     \* mutated trees not cached yet
  v_p_cached_reverse_tree,
  m_cached_reverse_tree,    \* type -> its matches
  s_reverse_tree_hash_set,  \* the paths seen so far, by their names
  v_ref_reverse_trees,      \* the trees the statement at hand was built from
  used,      \* history: the trees it really was built from
  call,      \* the regeneration under way or just finished
  top,       \* the type of its topmost IR
  cur_iter_idx

treeVars == <<phase, path, fuel, jobs, batch, later, fresh>>
cacheVars == <<v_p_cached_reverse_tree, m_cached_reverse_tree>>
buildVars == <<used, call, top, cur_iter_idx>>
vars == <<pc, treeVars, cacheVars, s_reverse_tree_hash_set,
          v_ref_reverse_trees, buildVars>>

-----------------------------------------------------------------------------
(* ReverseTreeNode: a production, the rule that was climbed through, and   *)
(* the token of it the climb came from.  The first node has no rule.       *)
Leaf(p) == [prod |-> p, rule |-> 0, at |-> 0]

Nodes == [prod : Prods, rule : Nat, at : Nat]

(* A mutation to make of a tree, and ReverseTreeMatch.                     *)
Mutation == [tree : Seq(Nodes), at : Nat]
Match == [tree : Nat \ {0}, idx : Nat]

(* The token a node was reached from.                                      *)
Slot(n) == Grammar[n.prod][n.rule][n.at]

IsRuleToken(n) ==
  /\ n.rule \in DOMAIN Grammar[n.prod]
  /\ n.at \in DOMAIN Grammar[n.prod][n.rule]

(* get_parent_exprs, as connect_grammar_prods sets it up: every place of   *)
(* the grammar that has the production as a token.                         *)
ParentExprs(p) ==
  UNION {UNION {{[prod |-> q, rule |-> r, at |-> k] :
                   k \in {k \in DOMAIN Grammar[q][r] : Grammar[q][r][k] = p}} :
                r \in DOMAIN Grammar[q]} : q \in Prods}

Names(tree) == [k \in DOMAIN tree |-> tree[k].prod]

NoCall == [tree |-> 0, node_idx_in_tree |-> 0, type |-> "", full |-> FALSE,
           nested |-> FALSE]

Init ==
  /\ pc = "next" /\ phase = "draw"
  /\ path = <<>> /\ fuel = 0
  /\ jobs = Interesting
  /\ batch = <<>> /\ later = <<>> /\ fresh = <<>>
  /\ v_p_cached_reverse_tree = <<>>
  /\ m_cached_reverse_tree = [p \in Prods |-> <<>>]
  /\ s_reverse_tree_hash_set = {}
  /\ v_ref_reverse_trees = <<>>
  /\ used = {} /\ call = NoCall /\ top = "" /\ cur_iter_idx = 0

-----------------------------------------------------------------------------
(* Drawing a tree                                                          *)

(* Slip: one more turn than the maximum.                                   *)
FullFuelAndOne == MaxDepth + 1

FullFuel == MaxDepth

Draw ==
  /\ pc = "next" /\ phase = "draw" /\ jobs # <<>>
  /\ path' = <<Leaf(Head(jobs))>>
  /\ fuel' = FullFuel
  /\ jobs' = Tail(jobs)
  /\ pc' = "climb"
  /\ UNCHANGED <<phase, batch, later, fresh, cacheVars, s_reverse_tree_hash_set,
                 v_ref_reverse_trees, buildVars>>

(* Slip: the maximum is tested and never approached.                       *)
BurnForgotten == UNCHANGED fuel

Burn == fuel' = fuel - 1

(* _reverse_traverse_prod_node_to_stmt_helper: one turn of its loop.  A    *)
(* production nothing refers to ends the climb; so does a statement, but   *)
(* only one that this climb appended.  Without fuel the tree is cleared,   *)
(* and its callers pass over an empty tree.                                *)
Climb ==
  /\ pc = "climb"
  /\ LET parents == ParentExprs(path[Len(path)].prod)
     IN  \/ /\ parents = {}
            /\ pc' = "trim"
            /\ UNCHANGED <<path, fuel>>
         \/ /\ parents # {} /\ fuel = 0
            /\ path' = <<>>
            /\ pc' = "next"
            /\ UNCHANGED fuel
         \/ /\ fuel > 0
            /\ \E n \in parents :
                 /\ path' = Append(path, n)
                 /\ pc' = IF n.prod \in StmtTyped THEN "trim" ELSE "climb"
            /\ Burn
  /\ UNCHANGED <<phase, jobs, batch, later, fresh, cacheVars,
                 s_reverse_tree_hash_set, v_ref_reverse_trees, buildVars>>

(* The pairs of positions of a tree that hold the same type.               *)
Repeats(tree) ==
  {ij \in (DOMAIN tree) \X (DOMAIN tree) :
     ij[1] < ij[2] /\ tree[ij[1]].prod = tree[ij[2]].prod}

(* Slip: the upper end of the gap is kept with its own rule, not the lower.*)
WithoutGapKeepingTop(tree, i, j) ==
  [k \in 1..(Len(tree) - (j - i)) |-> IF k < i THEN tree[k] ELSE tree[k + (j - i)]]

(* Slip: the upper end of the gap is kept as well.                         *)
WithoutGapKeepingBoth(tree, i, j) ==
  [k \in 1..(Len(tree) - (j - i) + 1) |->
     IF k <= i THEN tree[k] ELSE tree[k + (j - i) - 1]]

(* The tree up to i, and after j.                                          *)
WithoutGap(tree, i, j) ==
  [k \in 1..(Len(tree) - (j - i)) |-> IF k <= i THEN tree[k] ELSE tree[k + (j - i)]]

(* remove_recursive_in_reverse_path: one scan, which cuts the gap between  *)
(* the last node that repeats a type and the first node it repeats.        *)
Trim ==
  /\ pc = "trim"
  /\ \E ij \in Repeats(path) :
       /\ \A other \in Repeats(path) :
            other[2] < ij[2] \/ (other[2] = ij[2] /\ ij[1] <= other[1])
       /\ path' = WithoutGap(path, ij[1], ij[2])
  /\ UNCHANGED <<pc, phase, fuel, jobs, batch, later, fresh, cacheVars,
                 s_reverse_tree_hash_set, v_ref_reverse_trees, buildVars>>

(* Slip: the matches are stored before the length is tested.               *)
_cache_reverse_tree_helperTooEarly(tree) ==
  LET ptr == Len(v_p_cached_reverse_tree) + 1
      MatchesOf(p) == {k \in DOMAIN tree : tree[k].prod = p}
      AddMatch(p) ==
        Append(m_cached_reverse_tree[p],
               [tree |-> ptr, idx |-> (CHOOSE k \in MatchesOf(p) : TRUE) - 1])
  IN  /\ v_p_cached_reverse_tree' =
           IF Len(tree) >= MaxDepth THEN v_p_cached_reverse_tree
           ELSE Append(v_p_cached_reverse_tree, tree)
      /\ m_cached_reverse_tree' =
           [p \in Prods |-> IF MatchesOf(p) = {} THEN m_cached_reverse_tree[p]
                            ELSE AddMatch(p)]

(* A tree that is too long is deleted.  Another one is stored, and every   *)
(* node of it becomes a match of its type.                                 *)
_cache_reverse_tree_helper(tree) ==
  LET MatchesOf(p) == {k \in DOMAIN tree : tree[k].prod = p}
      AddMatch(p) ==
        Append(m_cached_reverse_tree[p],
               [tree |-> Len(v_p_cached_reverse_tree) + 1,
                idx |-> (CHOOSE k \in MatchesOf(p) : TRUE) - 1])
  IN  IF Len(tree) >= MaxDepth
      THEN UNCHANGED cacheVars
      ELSE /\ v_p_cached_reverse_tree' = Append(v_p_cached_reverse_tree, tree)
           /\ m_cached_reverse_tree' =
                [p \in Prods |-> IF MatchesOf(p) = {} THEN m_cached_reverse_tree[p]
                                 ELSE AddMatch(p)]

Remember(names) ==
  s_reverse_tree_hash_set' = s_reverse_tree_hash_set \cup {names}

(* is_reverse_tree_existed, which compares names only, and what follows:   *)
(* a drawn tree is cached at once, a mutated one set aside.                *)
Admit ==
  /\ pc = "trim" /\ Repeats(path) = {}
  /\ IF Names(path) \in s_reverse_tree_hash_set
     THEN UNCHANGED <<s_reverse_tree_hash_set, cacheVars, fresh>>
     ELSE /\ Remember(Names(path))
          /\ IF phase = "draw"
             THEN _cache_reverse_tree_helper(path) /\ UNCHANGED fresh
             ELSE fresh' = Append(fresh, path) /\ UNCHANGED cacheVars
  /\ path' = <<>>
  /\ pc' = "next"
  /\ UNCHANGED <<phase, fuel, jobs, batch, later, v_ref_reverse_trees, buildVars>>

-----------------------------------------------------------------------------
(* mutate_reverse_tree                                                     *)

(* Its loops: Energy times, every node but the first.                      *)
MutationsOf(tree) ==
  LET n == Len(tree) - 1
  IN  [m \in 1..(Energy * n) |-> [tree |-> tree, at |-> 2 + ((m - 1) % n)]]

(* What the loop that forces another choice leaves.  It looks for the      *)
(* expression alone, so of two places in one expression it excludes the    *)
(* first.                                                                  *)
OtherChoices(tree, at) ==
  LET parents == ParentExprs(tree[at - 1].prod)
      SameRule(n) == n.prod = tree[at].prod /\ n.rule = tree[at].rule
  IN  {n \in parents :
         SameRule(n) => \E m \in parents : SameRule(m) /\ m.at < n.at}

(* "Fill till the mutation point."                                         *)
Filled(tree, at) == SubSeq(tree, 1, at - 1)

Mutate ==
  /\ pc = "next" /\ batch # <<>>
  /\ LET tree == Head(batch).tree
         at == Head(batch).at
     IN  IF Cardinality(ParentExprs(tree[at - 1].prod)) <= 1
         THEN UNCHANGED <<path, fuel, pc>>
         ELSE /\ \E n \in OtherChoices(tree, at) :
                   path' = Append(Filled(tree, at), n)
              /\ fuel' = FullFuel
              /\ pc' = "climb"
  /\ batch' = Tail(batch)
  /\ UNCHANGED <<phase, jobs, later, fresh, cacheVars, s_reverse_tree_hash_set,
                 v_ref_reverse_trees, buildVars>>

(* The second half of cache_reverse_tree: all that was drawn is mutated,   *)
(* and what comes of it is cached at the end.                              *)
DrawsDone ==
  /\ pc = "next" /\ phase = "draw" /\ jobs = <<>>
  /\ phase' = "mutate"
  /\ later' = [i \in DOMAIN v_p_cached_reverse_tree |->
                 MutationsOf(v_p_cached_reverse_tree[i])]
  /\ UNCHANGED <<pc, path, fuel, jobs, batch, fresh, cacheVars,
                 s_reverse_tree_hash_set, v_ref_reverse_trees, buildVars>>

NextBatch ==
  /\ pc = "next" /\ batch = <<>> /\ later # <<>>
  /\ phase = "mutate" \/ fresh = <<>>
  /\ batch' = Head(later)
  /\ later' = Tail(later)
  /\ UNCHANGED <<pc, phase, path, fuel, jobs, fresh, cacheVars,
                 s_reverse_tree_hash_set, v_ref_reverse_trees, buildVars>>

(* The mutants of one tree are cached before the next tree of a reward is  *)
(* mutated, those of cache_reverse_tree after all of them.                 *)
CacheMutant ==
  /\ pc = "next" /\ batch = <<>> /\ fresh # <<>>
  /\ phase = "mutate" => later = <<>>
  /\ _cache_reverse_tree_helper(Head(fresh))
  /\ fresh' = Tail(fresh)
  /\ UNCHANGED <<pc, phase, path, fuel, jobs, batch, later,
                 s_reverse_tree_hash_set, v_ref_reverse_trees, buildVars>>

MutationsDone ==
  /\ pc = "next" /\ phase # "draw"
  /\ batch = <<>> /\ later = <<>> /\ fresh = <<>>
  /\ v_ref_reverse_trees' = <<>>
  /\ used' = {} /\ call' = NoCall /\ top' = "" /\ cur_iter_idx' = 0
  /\ pc' = "idle"
  /\ UNCHANGED <<treeVars, cacheVars, s_reverse_tree_hash_set>>

-----------------------------------------------------------------------------
(* Building a statement                                                    *)

Tree(ptr) == v_p_cached_reverse_tree[ptr]

(* "cur_iter_idx do not start from 0."                                     *)
FirstIter == 1

(* get_random_cached_reverse_generated_ir for a type: a random match is    *)
(* taken and its tree noted in refs, then reverse_generate_ir_from_prod    *)
(* makes the IR of the leaf.  Index 0 asks for no more than that.          *)
TakeMatch(refs, full, nested) ==
  \E p \in Prods : \E m \in DOMAIN m_cached_reverse_tree[p] :
     LET match == m_cached_reverse_tree[p][m]
     IN  /\ v_ref_reverse_trees' = Append(refs, match.tree)
         /\ call' = [tree |-> match.tree, type |-> p, full |-> full,
                     node_idx_in_tree |-> match.idx, nested |-> nested]
         /\ top' = Tree(match.tree)[1].prod
         /\ cur_iter_idx' = FirstIter
         /\ pc' = IF ~full /\ match.idx = 0
                  THEN IF nested THEN "forward" ELSE "ready"
                  ELSE "build"

(* Slip: the references of the statement before are kept.                  *)
FreshReferencesForgotten == v_ref_reverse_trees

(* generate_stmt_with_stmt_type and mutate_on_input_stmt_ir clear the      *)
(* references first.                                                       *)
FreshReferences == <<>>

(* A whole statement from a tree, or a subtree to mutate one with.         *)
GenerateFromTree ==
  /\ pc = "idle"
  /\ \E full \in BOOLEAN : TakeMatch(FreshReferences, full, FALSE)
  /\ used' = {call'.tree}
  /\ UNCHANGED <<treeVars, cacheVars, s_reverse_tree_hash_set>>

(* Forward generation, or a saved subtree that takes the place of another. *)
GenerateForward ==
  /\ pc = "idle"
  /\ v_ref_reverse_trees' = FreshReferences
  /\ used' = {} /\ call' = NoCall /\ top' = "" /\ cur_iter_idx' = 0
  /\ pc' = "forward"
  /\ UNCHANGED <<treeVars, cacheVars, s_reverse_tree_hash_set>>

(* generate_ir_vec_from_expr may build a child along a cached tree.        *)
GenerateChild ==
  /\ pc = "forward" /\ Len(v_ref_reverse_trees) < MaxUses
  /\ TakeMatch(v_ref_reverse_trees, FALSE, TRUE)
  /\ used' = used \cup {call'.tree}
  /\ UNCHANGED <<treeVars, cacheVars, s_reverse_tree_hash_set>>

EndForward ==
  /\ pc = "forward"
  /\ pc' = "ready"
  /\ UNCHANGED <<treeVars, cacheVars, s_reverse_tree_hash_set,
                 v_ref_reverse_trees, buildVars>>

(* Slip: the match is tested against the index after it was advanced.      *)
AtMatchLate(idx) == ~call.full /\ call.node_idx_in_tree = idx + 1

AtMatch(idx) == ~call.full /\ call.node_idx_in_tree = idx

(* reverse_generate_ir_helper: the IR so far becomes a child of the next   *)
(* production of the tree, up to the match or to the tree's root.          *)
ReverseGenerate ==
  /\ pc = "build"
  /\ LET done == IF call.nested THEN "forward" ELSE "ready"
     IN  IF cur_iter_idx >= Len(Tree(call.tree))
         THEN pc' = done /\ UNCHANGED <<top, cur_iter_idx>>
         ELSE /\ top' = Tree(call.tree)[cur_iter_idx + 1].prod
              /\ cur_iter_idx' = cur_iter_idx + 1
              /\ pc' = IF AtMatch(cur_iter_idx) THEN done ELSE "build"
  /\ UNCHANGED <<treeVars, cacheVars, s_reverse_tree_hash_set,
                 v_ref_reverse_trees, used, call>>

-----------------------------------------------------------------------------
(* What becomes of the statement                                           *)

(* rsg_succeed_with_reward, for a statement it has not rewarded before.    *)
Reward ==
  /\ pc = "ready"
  /\ phase' = "reward"
  /\ later' = [i \in DOMAIN v_ref_reverse_trees |->
                 MutationsOf(Tree(v_ref_reverse_trees[i]))]
  /\ pc' = "next"
  /\ UNCHANGED <<path, fuel, jobs, batch, fresh, cacheVars,
                 s_reverse_tree_hash_set, v_ref_reverse_trees, buildVars>>

(* The reward of a statement rewarded before, rsg_failed_with_penalty, and *)
(* clear_v_ref_reverse_trees after an SQL error clear the references.      *)
ClearReferences ==
  /\ pc = "ready"
  /\ v_ref_reverse_trees' = <<>>
  /\ used' = {} /\ call' = NoCall /\ top' = "" /\ cur_iter_idx' = 0
  /\ pc' = "idle"
  /\ UNCHANGED <<treeVars, cacheVars, s_reverse_tree_hash_set>>

(* A statement that is dropped, crashes the server, or is not kept in a    *)
(* mode without feedback leaves them behind.                               *)
LeaveReferences ==
  /\ pc = "ready"
  /\ used' = {} /\ call' = NoCall /\ top' = "" /\ cur_iter_idx' = 0
  /\ pc' = "idle"
  /\ UNCHANGED <<treeVars, cacheVars, s_reverse_tree_hash_set, v_ref_reverse_trees>>

MakeTrees ==
  \/ Draw \/ Climb \/ Trim \/ Admit
  \/ Mutate \/ DrawsDone \/ NextBatch \/ CacheMutant \/ MutationsDone

MakeStatement ==
  \/ GenerateFromTree \/ GenerateForward \/ GenerateChild \/ EndForward
  \/ ReverseGenerate
  \/ Reward \/ ClearReferences \/ LeaveReferences

Next == MakeTrees \/ MakeStatement

Spec == Init /\ [][Next]_vars

(* The making of trees is a plain loop of one thread.                      *)
FairSpec == Spec /\ WF_vars(MakeTrees)

-----------------------------------------------------------------------------
(* Properties                                                              *)

TreeOK(tree) == tree \in Seq(Nodes)

(* Types of the state.                                                     *)
TypeOK ==
  /\ pc \in {"next", "climb", "trim", "idle", "forward", "build", "ready"}
  /\ phase \in {"draw", "mutate", "reward"}
  /\ TreeOK(path) /\ fuel \in 0..MaxDepth
  /\ jobs \in Seq(Prods)
  /\ batch \in Seq(Mutation)
  /\ later \in Seq(Seq(Mutation))
  /\ fresh \in Seq(Seq(Nodes))
  /\ v_p_cached_reverse_tree \in Seq(Seq(Nodes))
  /\ m_cached_reverse_tree \in [Prods -> Seq(Match)]
  /\ s_reverse_tree_hash_set \subseteq Seq(Prods)
  /\ v_ref_reverse_trees \in Seq(Nat \ {0})
  /\ used \subseteq Nat \ {0}
  /\ call \in [tree : Nat, node_idx_in_tree : Nat, type : Prods \cup {""},
               full : BOOLEAN, nested : BOOLEAN]
  /\ top \in Prods \cup {""}
  /\ cur_iter_idx \in Nat

(* A tree climbs the grammar if it begins with a node without a rule and   *)
(* every other node is a place of the grammar whose token is the           *)
(* production of the node below.                                           *)
Climbs(tree) ==
  /\ tree # <<>> => tree[1] = Leaf(tree[1].prod)
  /\ \A k \in 2..Len(tree) :
       IsRuleToken(tree[k]) /\ Slot(tree[k]) = tree[k - 1].prod

(* Whatever was mutated, cut and mutated again, a cached tree still climbs *)
(* the grammar node by node: reverse generation follows it blindly, putting*)
(* the IR so far where the node says (rsg.cpp:514).  It passes no type     *)
(* twice: after all the cuts no recursion is left (rsg.cpp:599).  And no   *)
(* other cached tree is the same path, although a path is tested long      *)
(* before it is cached and batches of mutants wait in between              *)
(* (rsg.cpp:1659).                                                         *)
CacheIsSound ==
  \A i \in DOMAIN v_p_cached_reverse_tree :
     /\ Climbs(Tree(i))
     /\ \A j, k \in DOMAIN Tree(i) : Tree(i)[j].prod = Tree(i)[k].prod => j = k
     /\ \A j \in DOMAIN v_p_cached_reverse_tree : Names(Tree(i)) = Names(Tree(j)) => i = j

(* The index by type and the cache agree: every match points to a tree     *)
(* that is alive and to a node of its type, and every node of every cached *)
(* tree has its match (rsg.cpp:397).                                       *)
MatchesIndexTheCache ==
  \A p \in Prods :
     {<<m.tree, m.idx>> : m \in {m_cached_reverse_tree[p][k] :
                                   k \in DOMAIN m_cached_reverse_tree[p]}}
     = {ik \in (DOMAIN v_p_cached_reverse_tree) \X (0..MaxDepth) :
          ik[2] < Len(Tree(ik[1])) /\ Tree(ik[1])[ik[2] + 1].prod = p}

(* What reverse generation builds is in the grammar: the IR built so far   *)
(* is accepted by the expression it is put into next (rsg.cpp:514), and    *)
(* the child it ends with has the type that was asked for (the assertion   *)
(* of rsg.cpp:831).                                                        *)
ParentTakesChild ==
  pc = "build" /\ cur_iter_idx < Len(Tree(call.tree)) =>
     LET n == Tree(call.tree)[cur_iter_idx + 1]
     IN  IsRuleToken(n) /\ Slot(n) = top
ChildIsAsAsked ==
  pc \in {"forward", "ready"} /\ call # NoCall /\ ~call.full => top = call.type
MatchYieldsItsType == ParentTakesChild /\ ChildIsAsAsked

(* When a statement is judged, the references are those of the trees this  *)
(* very statement was built from, none of an earlier one that was dropped  *)
(* or crashed the server (rsg.cpp:1231, 1331, 1573).                       *)
ReferencesAreOwn ==
  pc \in {"forward", "ready"} =>
     {v_ref_reverse_trees[i] : i \in DOMAIN v_ref_reverse_trees} = used

(* What a round still has to do, the most significant first.               *)
Stage == CASE pc = "climb" -> 2 [] pc = "trim" -> 1 [] OTHER -> 0
StepsOfStage == IF pc = "climb" THEN fuel ELSE Len(path)
Effort ==
  <<IF phase = "draw" THEN 1 ELSE 0, Len(jobs), Len(later), Len(batch),
    Stage, StepsOfStage, Len(fresh)>>

Lighter(a, b) ==
  \E i \in DOMAIN b : a[i] < b[i] /\ \A j \in 1..(i - 1) : a[j] = b[j]

MakingTrees == pc \in {"next", "climb", "trim"}

(* Whatever the grammar, recursive or not, each step of the making of      *)
(* trees leaves less to do: a climb burns fuel, a cut shortens the tree    *)
(* (rsg.cpp:599), a mutant that is cached is not mutated in the same round *)
(* (rsg.cpp:1659), so no round can go on for ever.                         *)
RoundsConverge ==
  [][MakingTrees /\ MakingTrees' => Lighter(Effort', Effort)]_vars

(* Every round of drawing or mutating ends: cutting recursion reaches a    *)
(* tree without any, and a climb runs out of fuel at the latest.           *)
EveryRoundEnds == pc = "next" ~> pc = "idle"
=============================================================================
