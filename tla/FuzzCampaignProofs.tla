------------------------- MODULE FuzzCampaignProofs -------------------------
(***************************************************************************)
(* Memory safety of the fuzzing loop and its queue, for any number of      *)
(* addresses, statements, lineages and bytes of the map: what the invariant*)
(* CampaignInv says holds in every reachable state.                        *)
(***************************************************************************)
EXTENDS FuzzCampaign, WellFoundedInduction, TLAPS

(* The last element of a sequence that is not empty.                       *)
LEMMA LastIn ==
  ASSUME NEW S, NEW s \in Seq(S), s # <<>>
  PROVE  Last(s) \in S /\ Last(s) = s[Len(s)] /\ Len(s) \in DOMAIN s
  BY DEF Last

(* Every set of numbers that is not empty has a least element.             *)
LEMMA SmallestNat ==
  ASSUME NEW T \in SUBSET Nat, T # {}
  PROVE  \E i \in T : \A j \in T : i <= j
<1>. DEFINE R == {ss \in Nat \X Nat : ss[1] < ss[2]}
<1>1. R = OpToRel(<, Nat)
  BY Zenon DEF OpToRel
<1>2. IsWellFoundedOn(R, Nat)
  BY <1>1, NatLessThanWellFounded, Zenon
<1>3. PICK x \in T : \A y \in T : ~(<<y, x>> \in R)
  <2>. HIDE DEF R
  <2>. QED  BY <1>2, WFMin, Zenon
<1>4. ASSUME NEW y \in T PROVE ~(y < x)
  <2>1. <<y, x>> \in Nat \X Nat /\ <<y, x>>[1] = y /\ <<y, x>>[2] = x
    OBVIOUS
  <2>. QED  BY <1>3, <2>1, Zenon
<1>. QED  BY <1>4

-----------------------------------------------------------------------------
(* The variables of the loop agree with where the loop is.                 *)
PhaseInv ==
  /\ pc # "segv"
  /\ pc = "main" => p_query_sequence = Nil
  /\ Running => p_query_sequence # Nil
  /\ p_query_sequence = Nil => p_saved_query_sequence = Nil
  /\ pc \in {"generate", "generated", "filled"} => stmt_idx < MaxStmts
  /\ pc \in {"generated", "filled", "finish"} => gen_mode # "GenUnknown"

(* A borrowed sequence is the one of the group that was handed out last;   *)
(* a run that began from scratch leaves room for the group it may found.   *)
BorrowInv ==
  /\ current_queue_iter <= QueueSize
  /\ QueueSize <= MaxLineages
  /\ Len(all_scores) = QueueSize
  /\ p_query_sequence # Nil =>
       /\ gen_mode = "GenMut" <=> p_saved_query_sequence # Nil
       /\ gen_mode = "GenAllFromNew" => QueueSize < MaxLineages
  /\ p_saved_query_sequence # Nil =>
       /\ current_chosen_seq_idx < QueueSize
       /\ current_queue_iter = current_chosen_seq_idx + 1
       /\ p_saved_query_sequence = Group(current_chosen_seq_idx)[1]

(* What the queue owns, one object per group, and what the run owns.       *)
Owned == {all_saved_query_sequences[g][1] : g \in DOMAIN all_saved_query_sequences}

OwnerInv ==
  /\ \A g \in DOMAIN all_saved_query_sequences : Len(all_saved_query_sequences[g]) = 1
  /\ \A g, h \in DOMAIN all_saved_query_sequences :
       all_saved_query_sequences[g][1] = all_saved_query_sequences[h][1] => g = h
  /\ live = Owned \cup OfRun
  /\ p_query_sequence \notin Owned

(* A sequence is the bootstrap followed by statements with their data.     *)
WellFormed(stmts) ==
  /\ Len(stmts) >= BootLen
  /\ \A i \in DOMAIN stmts :
       IF i <= BootLen THEN stmts[i] = "string" ELSE HasInstanData(stmts[i])

ContentInv ==
  /\ \A s \in live : WellFormed(good[s])
  /\ \A s \in Owned : Len(good[s]) > BootLen
  /\ p_query_sequence # Nil /\ is_total_new_coverage =>
       Len(good[p_query_sequence]) > BootLen

LinkInv ==
  /\ \A s \in Owned : previous_sequence[s] = Nil
  /\ p_query_sequence # Nil =>
       previous_sequence[p_query_sequence] \in {Nil, p_saved_query_sequence}

StmtInv ==
  /\ cur_stmt.gen_method = "GenMut" => cur_stmt.instan
  /\ cur_stmt.original # 0 =>
       /\ p_saved_query_sequence # Nil
       /\ cur_stmt.original \in DOMAIN good[p_saved_query_sequence]
       /\ cur_stmt.original > BootLen

CampaignInv ==
  /\ TypeOK
  /\ PhaseInv
  /\ BorrowInv
  /\ OwnerInv
  /\ ContentInv
  /\ LinkInv
  /\ StmtInv

-----------------------------------------------------------------------------
(* The groups of the queue are numbered from 1 to its size.                *)
LEMMA QueueShape ==
  ASSUME TypeOK
  PROVE  /\ QueueSize \in Nat
         /\ DOMAIN all_saved_query_sequences = 1..QueueSize
         /\ \A g \in 1..QueueSize : all_saved_query_sequences[g] \in Seq(Seqs)
<1>1. all_saved_query_sequences \in Seq(Seq(Seqs))
  BY DEF TypeOK, QueueTypeOK
<1>. QED  BY <1>1 DEF QueueSize

(* The sequence a mutating run works from is in the queue and ends with a  *)
(* statement that has its data.                                            *)
LEMMA SavedIsOwned ==
  ASSUME CampaignInv, pc = "generate", "GenMut" \in ModeChoices
  PROVE  /\ QueueSize > 0
         /\ NextGroup \in 0..(QueueSize - 1)
         /\ Saved \in Owned /\ Saved \in live /\ Saved \in Seqs /\ Saved # Nil
         /\ Saved # p_query_sequence
         /\ good[Saved] \in Seq(Kind) /\ WellFormed(good[Saved])
         /\ Len(good[Saved]) > BootLen
         /\ HasInstanData(Last(good[Saved]))
         /\ p_saved_query_sequence = Nil => Saved = Group(NextGroup)[1]
<1>. USE DEF CampaignInv
<1>1. QueueSize > 0
  <2>1. QueueSize # 0
    BY CampaignAssumption DEF ModeChoices
  <2>2. QueueSize \in Nat
    BY QueueShape DEF CampaignInv
  <2>. QED  BY <2>1, <2>2
<1>2. NextGroup \in 0..(QueueSize - 1)
  <2>1. QueueSize \in Nat /\ current_queue_iter \in Nat
    BY QueueShape DEF TypeOK, QueueTypeOK
  <2>. QED  BY <1>1, <2>1 DEF NextGroup, BorrowInv
<1>3. /\ NextGroup + 1 \in DOMAIN all_saved_query_sequences
      /\ Group(NextGroup) \in Seq(Seqs)
  BY <1>2 DEF Group, QueueSize, TypeOK, QueueTypeOK
<1>4. Last(Group(NextGroup)) = Group(NextGroup)[1] /\ Group(NextGroup)[1] \in Owned
  <2>1. Len(Group(NextGroup)) = 1
    BY <1>3 DEF Group, OwnerInv
  <2>2. Last(Group(NextGroup)) = Group(NextGroup)[1]
    BY <2>1 DEF Last
  <2>3. Group(NextGroup)[1] \in Owned
    BY <1>3 DEF Owned, Group
  <2>. QED  BY <2>2, <2>3
<1>5. Saved \in Owned /\ (p_saved_query_sequence = Nil => Saved = Group(NextGroup)[1])
  <2>1. CASE p_saved_query_sequence = Nil
    BY <1>4, <2>1 DEF Saved
  <2>2. CASE p_saved_query_sequence # Nil
    <3>1. current_chosen_seq_idx + 1 \in DOMAIN all_saved_query_sequences
      BY <2>2 DEF BorrowInv, QueueSize, TypeOK, QueueTypeOK
    <3>. QED  BY <2>2, <3>1 DEF Saved, BorrowInv, Owned, Group
  <2>. QED  BY <2>1, <2>2
<1>6. Saved \in live /\ Saved \in Seqs /\ Saved # p_query_sequence
  BY <1>5 DEF OwnerInv, TypeOK
<1>7. /\ good[Saved] \in Seq(Kind) /\ WellFormed(good[Saved])
      /\ Len(good[Saved]) > BootLen
  BY <1>5, <1>6 DEF ContentInv, TypeOK
<1>8. HasInstanData(Last(good[Saved]))
  <2>1. good[Saved] # <<>>
    BY <1>7, CampaignAssumption
  <2>2. /\ Last(good[Saved]) = good[Saved][Len(good[Saved])]
        /\ Len(good[Saved]) \in DOMAIN good[Saved]
    BY <1>7, <2>1, LastIn
  <2>. QED  BY <1>7, <2>2, CampaignAssumption DEF WellFormed
<1>9. Saved # Nil
  BY <1>6, NilAssumption
<1>. QED  BY <1>1, <1>2, <1>5, <1>6, <1>7, <1>8, <1>9

(* The process starts without any sequence.                                *)
LEMMA CampaignInvInit == Init => CampaignInv
<1>. SUFFICES ASSUME Init PROVE CampaignInv
  OBVIOUS
<1>. USE CampaignAssumption DEF Init, QueueInit
<1>1. TypeOK
  <2>1. NoStmt \in Stmt
    BY DEF NoStmt, Stmt, Method
  <2>2. QueueTypeOK
    BY DEF QueueTypeOK
  <2>3. /\ good \in [Seqs -> Seq(Kind)]
        /\ previous_sequence \in [Seqs -> Seqs \cup {Nil}]
    BY DEF Init
  <2>4. stmt_idx \in 0..MaxStmts /\ unique_crashes \in 0..KeepUniqueCrash
    BY DEF Init
  <2>. QED  BY <2>1, <2>2, <2>3, <2>4 DEF TypeOK, Terminal
<1>2. Owned = {} /\ OfRun = {}
  BY DEF Owned, OfRun
<1>3. PhaseInv
  BY DEF PhaseInv, Running
<1>4. BorrowInv
  BY DEF BorrowInv, QueueSize
<1>5. OwnerInv /\ ContentInv /\ LinkInv
  BY <1>2 DEF OwnerInv, ContentInv, LinkInv
<1>6. StmtInv
  BY DEF StmtInv, NoStmt
<1>. QED  BY <1>1, <1>3, <1>4, <1>5, <1>6 DEF CampaignInv

-----------------------------------------------------------------------------
(* The steps that touch neither the heap nor the queue nor what the run    *)
(* works on.                                                               *)
LEMMA QuietStep ==
  ASSUME CampaignInv,
         UNCHANGED <<heapVars, queueVars, p_query_sequence,
                     p_saved_query_sequence, is_total_new_coverage>>,
         gen_mode' = gen_mode
  PROVE  BorrowInv' /\ OwnerInv' /\ ContentInv' /\ LinkInv'
<1>. USE DEF CampaignInv, heapVars, queueVars
<1>1. Owned' = Owned /\ OfRun' = OfRun
  BY DEF Owned, OfRun
<1>2. BorrowInv'
  BY DEF BorrowInv, QueueSize, Group
<1>3. OwnerInv'
  BY <1>1 DEF OwnerInv
<1>4. ContentInv'
  BY <1>1 DEF ContentInv, WellFormed
<1>5. LinkInv'
  BY <1>1 DEF LinkInv
<1>. QED  BY <1>2, <1>3, <1>4, <1>5

(* A stop signal only ends the loop.                                       *)
LEMMA StopSignalKeeps ==
  ASSUME CampaignInv, StopSignal
  PROVE  CampaignInv'
<1>. USE DEF CampaignInv, StopSignal, heapVars, genVars, saveVars, discoveries, queueVars
<1>1. TypeOK'
  BY DEF TypeOK, QueueTypeOK
<1>2. PhaseInv' /\ StmtInv'
  BY DEF PhaseInv, StmtInv, Running
<1>3. BorrowInv' /\ OwnerInv' /\ ContentInv' /\ LinkInv'
  BY QuietStep
<1>. QED  BY <1>1, <1>2, <1>3

(* Filling in a statement gives it its data.                               *)
LEMMA InstantiateKeeps ==
  ASSUME CampaignInv, Instantiate
  PROVE  CampaignInv'
<1>. USE DEF CampaignInv, Instantiate, heapVars, genVars, saveVars, discoveries, queueVars
<1>1. pc' = "filled"
  BY DEF StmtInv
<1>2. TypeOK'
  BY <1>1 DEF TypeOK, QueueTypeOK
<1>3. PhaseInv' /\ StmtInv'
  BY <1>1 DEF PhaseInv, StmtInv, Running
<1>4. BorrowInv' /\ OwnerInv' /\ ContentInv' /\ LinkInv'
  BY QuietStep
<1>. QED  BY <1>2, <1>3, <1>4

(* What going on to the next iteration of the statement loop preserves.    *)
LEMMA IterationKeeps ==
  ASSUME CampaignInv, pc \in {"generated", "filled"}, NextIteration,
         UNCHANGED <<p_query_sequence, p_saved_query_sequence, gen_mode>>
  PROVE  /\ PhaseInv' /\ StmtInv'
         /\ stmt_idx' \in 0..MaxStmts /\ cur_stmt' \in Stmt
         /\ pc' \in {"generate", "finish"}
<1>. USE DEF CampaignInv, NextIteration
<1>1. stmt_idx \in 0..MaxStmts /\ stmt_idx < MaxStmts /\ MaxStmts \in Nat
  BY CampaignAssumption DEF TypeOK, PhaseInv
<1>2. stmt_idx' \in 0..MaxStmts /\ pc' \in {"generate", "finish"}
  BY <1>1
<1>3. cur_stmt' \in Stmt
  BY DEF NoStmt, Stmt, Method
<1>4. PhaseInv'
  BY <1>1, <1>2 DEF PhaseInv, Running
<1>5. StmtInv'
  BY DEF StmtInv, NoStmt
<1>. QED  BY <1>2, <1>3, <1>4, <1>5

(* A statement that cannot be filled in is left out.                       *)
LEMMA DropStmtKeeps ==
  ASSUME CampaignInv, DropStmt
  PROVE  CampaignInv'
<1>. USE DEF CampaignInv, DropStmt, heapVars, genVars, saveVars, discoveries, queueVars
<1>1. /\ PhaseInv' /\ StmtInv'
      /\ stmt_idx' \in 0..MaxStmts /\ cur_stmt' \in Stmt
      /\ pc' \in {"generate", "finish"}
  BY IterationKeeps
<1>2. TypeOK'
  BY <1>1 DEF TypeOK, QueueTypeOK
<1>3. BorrowInv' /\ OwnerInv' /\ ContentInv' /\ LinkInv'
  BY QuietStep
<1>. QED  BY <1>1, <1>2, <1>3

(* An internal error ends the run.                                         *)
LEMMA InternalErrorKeeps ==
  ASSUME CampaignInv, ExecuteInternalError
  PROVE  CampaignInv'
<1>. USE DEF CampaignInv, ExecuteInternalError, heapVars, genVars, discoveries, queueVars
<1>1. cur_stmt' \in Stmt
  BY DEF NoStmt, Stmt, Method
<1>2. TypeOK'
  BY <1>1 DEF TypeOK, QueueTypeOK
<1>3. PhaseInv'
  BY DEF PhaseInv, Running
<1>4. StmtInv'
  BY DEF StmtInv, NoStmt
<1>5. BorrowInv' /\ OwnerInv' /\ ContentInv' /\ LinkInv'
  BY QuietStep
<1>. QED  BY <1>2, <1>3, <1>4, <1>5

-----------------------------------------------------------------------------
(* Statements are only ever added to the run's own sequence, which is not  *)
(* in the queue, and only with their data.                                 *)
LEMMA AppendKeeps ==
  ASSUME CampaignInv, pc = "filled", NEW kind, HasInstanData(kind),
         AppendGood(kind),
         UNCHANGED <<queueVars, p_query_sequence, p_saved_query_sequence, gen_mode>>
  PROVE  /\ good' \in [Seqs -> Seq(Kind)]
         /\ BorrowInv' /\ OwnerInv' /\ ContentInv' /\ LinkInv'
<1>. USE DEF CampaignInv, AppendGood, queueVars
<1>1. p_query_sequence \in live /\ p_query_sequence \notin Owned /\ p_query_sequence \in Seqs
  BY NilAssumption DEF TypeOK, PhaseInv, OwnerInv, OfRun, Running
<1>2. kind \in Kind
  BY DEF HasInstanData, Kind
<1>3. good \in [Seqs -> Seq(Kind)] /\ good[p_query_sequence] \in Seq(Kind)
  BY <1>1 DEF TypeOK
<1>4. good' \in [Seqs -> Seq(Kind)]
  BY <1>1, <1>2, <1>3
<1>5. /\ good'[p_query_sequence] = Append(good[p_query_sequence], kind)
      /\ \A s \in Seqs : s # p_query_sequence => good'[s] = good[s]
  BY <1>1, <1>3
<1>6. Owned' = Owned /\ OfRun' = OfRun
  BY DEF Owned, OfRun
<1>7. BorrowInv'
  BY DEF BorrowInv, QueueSize, Group
<1>8. OwnerInv'
  BY <1>6 DEF OwnerInv
<1>9. LinkInv'
  BY <1>6 DEF LinkInv
<1>10. WellFormed(Append(good[p_query_sequence], kind))
  <2>1. WellFormed(good[p_query_sequence])
    BY <1>1 DEF ContentInv
  <2>. QED  BY <2>1, <1>2, <1>3, CampaignAssumption DEF WellFormed
<1>11. Len(Append(good[p_query_sequence], kind)) > BootLen
  BY <1>1, <1>2, <1>3, CampaignAssumption DEF ContentInv, WellFormed
<1>12. ContentInv'
  <2>1. live \subseteq Seqs /\ Owned \subseteq Seqs
    BY DEF OwnerInv, TypeOK
  <2>2. ASSUME NEW s \in live' PROVE WellFormed(good'[s])
    BY <1>5, <1>10, <2>1, <2>2 DEF ContentInv
  <2>3. ASSUME NEW s \in Owned' PROVE Len(good'[s]) > BootLen
    BY <1>1, <1>5, <1>6, <2>1 DEF ContentInv
  <2>. QED  BY <2>2, <2>3, <1>5, <1>11 DEF ContentInv, WellFormed
<1>. QED  BY <1>4, <1>7, <1>8, <1>9, <1>12

(* A statement that ran without error is added with its data.              *)
LEMMA CleanKeeps ==
  ASSUME CampaignInv, ExecuteClean
  PROVE  CampaignInv'
<1>. USE DEF CampaignInv, ExecuteClean, Raised, genVars, queueVars
<1>1. /\ good' \in [Seqs -> Seq(Kind)]
      /\ BorrowInv' /\ OwnerInv' /\ ContentInv' /\ LinkInv'
  BY AppendKeeps DEF HasInstanData
<1>2. /\ PhaseInv' /\ StmtInv'
      /\ stmt_idx' \in 0..MaxStmts /\ cur_stmt' \in Stmt
      /\ pc' \in {"generate", "finish"}
  BY IterationKeeps
<1>3. /\ is_save_curr_query_seq' \in BOOLEAN /\ is_total_new_coverage' \in BOOLEAN
      /\ virgin_bits' \in SUBSET Bits /\ found' \in SUBSET Bits
  BY DEF TypeOK, ClearBits
<1>4. TypeOK'
  BY <1>1, <1>2, <1>3 DEF TypeOK, QueueTypeOK, AppendGood
<1>. QED  BY <1>1, <1>2, <1>4

(* So is one that brought the server down.                                 *)
LEMMA CrashKeeps ==
  ASSUME CampaignInv, ExecuteCrash
  PROVE  CampaignInv'
<1>. USE DEF CampaignInv, ExecuteCrash, genVars, discoveries, queueVars
<1>1. /\ good' \in [Seqs -> Seq(Kind)]
      /\ BorrowInv' /\ OwnerInv' /\ ContentInv' /\ LinkInv'
  BY AppendKeeps DEF HasInstanData
<1>2. /\ PhaseInv' /\ StmtInv'
      /\ stmt_idx' \in 0..MaxStmts /\ cur_stmt' \in Stmt
      /\ pc' \in {"generate", "finish"}
  BY IterationKeeps
<1>3. unique_crashes' \in 0..KeepUniqueCrash /\ is_save_curr_query_seq' \in BOOLEAN
  <2>1. unique_crashes \in 0..KeepUniqueCrash /\ is_save_curr_query_seq \in BOOLEAN
    BY DEF TypeOK
  <2>2. CASE unique_crashes >= KeepUniqueCrash
    BY <2>1, <2>2
  <2>3. CASE ~(unique_crashes >= KeepUniqueCrash)
    <3>1. unique_crashes' = unique_crashes + 1 /\ is_save_curr_query_seq' = TRUE
      BY <2>3
    <3>. QED  BY <2>1, <2>3, <3>1, CampaignAssumption
  <2>. QED  BY <2>2, <2>3
<1>4. TypeOK'
  BY <1>1, <1>2, <1>3 DEF TypeOK, QueueTypeOK, AppendGood
<1>. QED  BY <1>1, <1>2, <1>4

(* A fault of the fuzzer's own ends the process.                           *)
LEMMA FatalKeeps ==
  ASSUME CampaignInv, ExecuteFatal
  PROVE  CampaignInv'
<1>. USE DEF CampaignInv, ExecuteFatal, genVars, queueVars, saveVars, discoveries
<1>1. /\ good' \in [Seqs -> Seq(Kind)]
      /\ BorrowInv' /\ OwnerInv' /\ ContentInv' /\ LinkInv'
  BY AppendKeeps DEF HasInstanData
<1>2. PhaseInv'
  BY DEF PhaseInv, Running
<1>3. StmtInv'
  <2>1. cur_stmt.original # 0 =>
          /\ p_saved_query_sequence \in Seqs
          /\ p_saved_query_sequence # p_query_sequence
    <3>1. SUFFICES ASSUME cur_stmt.original # 0
                   PROVE  /\ p_saved_query_sequence \in Owned
                          /\ p_saved_query_sequence \in Seqs
      BY DEF OwnerInv
    <3>2. current_chosen_seq_idx + 1 \in DOMAIN all_saved_query_sequences
      BY <3>1 DEF StmtInv, BorrowInv, QueueSize, TypeOK, QueueTypeOK
    <3>. QED  BY <3>1, <3>2 DEF StmtInv, BorrowInv, Owned, Group, TypeOK
  <2>2. \A s \in Seqs : s # p_query_sequence => good'[s] = good[s]
    BY DEF AppendGood, TypeOK
  <2>. QED  BY <2>1, <2>2 DEF StmtInv
<1>4. TypeOK'
  BY <1>1 DEF TypeOK, QueueTypeOK, AppendGood, Terminal
<1>. QED  BY <1>1, <1>2, <1>3, <1>4

(* A statement that failed leaves the sequence as it was, or its fallback  *)
(* ends it.                                                                *)
LEMMA ErrorKeeps ==
  ASSUME CampaignInv, ExecuteError
  PROVE  CampaignInv'
<1>. USE DEF CampaignInv, ExecuteError, genVars, queueVars, saveVars, discoveries
<1>1. /\ PhaseInv' /\ StmtInv'
      /\ stmt_idx' \in 0..MaxStmts /\ cur_stmt' \in Stmt
      /\ pc' \in {"generate", "finish"}
  BY IterationKeeps
<1>2. virgin_bits' \in SUBSET Bits
  BY DEF TypeOK, ClearBits
<1>3. /\ good' \in [Seqs -> Seq(Kind)] /\ UNCHANGED <<live, previous_sequence>>
      /\ BorrowInv' /\ OwnerInv' /\ ContentInv' /\ LinkInv'
  <2>1. CASE cur_stmt.original = 0
    <3>1. UNCHANGED heapVars
      BY <2>1
    <3>. QED  BY <3>1, QuietStep DEF heapVars, TypeOK
  <2>2. CASE cur_stmt.original # 0
    <3>. DEFINE kind == good[p_saved_query_sequence][cur_stmt.original]
    <3>1. p_saved_query_sequence \in live
      <4>1. current_chosen_seq_idx + 1 \in DOMAIN all_saved_query_sequences
        BY <2>2 DEF StmtInv, BorrowInv, QueueSize, TypeOK, QueueTypeOK
      <4>. QED  BY <2>2, <4>1 DEF StmtInv, BorrowInv, OwnerInv, Owned, Group
    <3>2. HasInstanData(kind)
      BY <2>2, <3>1, CampaignAssumption DEF StmtInv, ContentInv, WellFormed, TypeOK, Stmt
    <3>3. AppendGood(kind)
      BY <2>2
    <3>. QED  BY <3>2, <3>3, AppendKeeps DEF AppendGood
  <2>. QED  BY <2>1, <2>2
<1>4. TypeOK'
  BY <1>1, <1>2, <1>3 DEF TypeOK, QueueTypeOK
<1>. QED  BY <1>1, <1>3, <1>4

-----------------------------------------------------------------------------
(* A run begins on an object nobody owns.                                  *)
LEMMA StartRunKeeps ==
  ASSUME CampaignInv, StartRun
  PROVE  CampaignInv'
<1>. USE DEF CampaignInv
<1>1. PICK s \in Seqs \ live :
        /\ live' = live \cup {s}
        /\ good' = [good EXCEPT ![s] = Bootstrap]
        /\ previous_sequence' = [previous_sequence EXCEPT ![s] = Nil]
        /\ p_query_sequence' = s
  BY DEF StartRun
<1>2. p_query_sequence = Nil /\ p_saved_query_sequence = Nil /\ cur_stmt.original = 0
  BY DEF StartRun, PhaseInv, StmtInv
<1>3. /\ UNCHANGED <<queueVars, stop_soon, cur_stmt, unique_crashes, found, lost>>
      /\ p_saved_query_sequence' = Nil /\ gen_mode' = "GenUnknown"
      /\ gen_idx' = 0 /\ tries' = 0 /\ stmt_idx' = 0 /\ pc' = "generate"
      /\ is_total_new_coverage' = FALSE /\ is_save_curr_query_seq' = FALSE
      /\ virgin_bits' \in SUBSET Bits
  BY DEF StartRun, TypeOK, discoveries
<1>4. Owned' = Owned /\ live = Owned /\ s \notin Owned /\ OfRun' = {s} /\ s # Nil
  BY <1>1, <1>2, <1>3, NilAssumption DEF Owned, OfRun, OwnerInv, queueVars
<1>5. Bootstrap \in Seq(Kind) /\ Len(Bootstrap) = BootLen /\ WellFormed(Bootstrap)
  BY CampaignAssumption DEF Bootstrap, WellFormed, Kind
<1>6. /\ good' \in [Seqs -> Seq(Kind)]
      /\ previous_sequence' \in [Seqs -> Seqs \cup {Nil}]
      /\ live' \in SUBSET Seqs
  BY <1>1, <1>5 DEF TypeOK
<1>7. /\ good'[s] = Bootstrap /\ previous_sequence'[s] = Nil
      /\ \A t \in Seqs : t # s => good'[t] = good[t]
                               /\ previous_sequence'[t] = previous_sequence[t]
  BY <1>1 DEF TypeOK
<1>8. TypeOK'
  <2>1. QueueTypeOK'
    BY <1>3 DEF TypeOK, QueueTypeOK, queueVars
  <2>2. stop_soon' \in BOOLEAN /\ cur_stmt' \in Stmt /\ unique_crashes' \in 0..KeepUniqueCrash
    BY <1>3 DEF TypeOK
  <2>3. stmt_idx' \in 0..MaxStmts
    BY <1>3, CampaignAssumption
  <2>. QED  BY <1>1, <1>3, <1>6, <2>1, <2>2, <2>3 DEF TypeOK
<1>9. PhaseInv'
  BY <1>1, <1>3, <1>4, CampaignAssumption DEF PhaseInv, Running
<1>10. BorrowInv'
  BY <1>1, <1>3 DEF BorrowInv, QueueSize, queueVars
<1>11. OwnerInv'
  BY <1>1, <1>3, <1>4 DEF OwnerInv, queueVars
<1>12. Owned \subseteq Seqs
  BY <1>4 DEF TypeOK
<1>13. ContentInv'
  <2>1. ASSUME NEW t \in live' PROVE WellFormed(good'[t])
    BY <1>1, <1>4, <1>5, <1>7, <1>12, <2>1 DEF ContentInv
  <2>2. ASSUME NEW t \in Owned' PROVE Len(good'[t]) > BootLen
    BY <1>4, <1>7, <1>12, <2>2 DEF ContentInv
  <2>. QED  BY <1>3, <2>1, <2>2 DEF ContentInv, WellFormed
<1>14. LinkInv'
  BY <1>1, <1>4, <1>7, <1>12 DEF LinkInv
<1>15. StmtInv'
  BY <1>2, <1>3 DEF StmtInv
<1>. QED  BY <1>8, <1>9, <1>10, <1>11, <1>13, <1>14, <1>15

(* A generated statement has no data yet and stems from no other.          *)
LEMMA NewStmtsShape ==
  ASSUME NEW stmt \in NewStmts
  PROVE  stmt \in Stmt /\ stmt.gen_method # "GenMut" /\ stmt.original = 0
<1>1. PICK m \in {"GenAllFromNew", "GenMutFromOtherSequence"} :
        stmt = [gen_method |-> m, instan |-> FALSE, original |-> 0]
  <2>. DEFINE m == stmt.gen_method
  <2>1. /\ m \in {"GenAllFromNew", "GenMutFromOtherSequence"}
        /\ stmt = [gen_method |-> m, instan |-> FALSE, original |-> 0]
    BY DEF NewStmts
  <2>. QED  BY <2>1, Zenon
<1>2. m \in Method
  BY DEF Method
<1>. QED  BY <1>1, <1>2 DEF Stmt

(* Generation from scratch borrows nothing.                                *)
LEMMA FromScratchKeeps ==
  ASSUME CampaignInv, GenerateFromScratch
  PROVE  CampaignInv'
<1>. USE DEF CampaignInv, GenerateFromScratch, heapVars, saveVars, discoveries
<1>1. /\ cur_stmt' \in Stmt /\ cur_stmt'.gen_method # "GenMut"
      /\ cur_stmt'.original = 0
  BY NewStmtsShape
<1>2. p_query_sequence # Nil /\ stmt_idx < MaxStmts
  BY DEF PhaseInv, Running
<1>3. QueueSize \in Nat /\ MaxLineages \in Nat \ {0}
  BY QueueShape, CampaignAssumption
<1>4. gen_mode # "GenMut"
  <2>1. SUFFICES ASSUME gen_mode = "GenMut" PROVE FALSE
    OBVIOUS
  <2>2. QueueSize > 0
    BY <1>2, <1>3, <2>1 DEF BorrowInv, TypeOK, QueueTypeOK
  <2>. QED  BY <2>1, <2>2, <1>3 DEF ModeChoices
<1>5. QueueSize < MaxLineages
  <2>1. CASE QueueSize = 0
    BY <1>3, <2>1
  <2>2. CASE gen_mode = "GenAllFromNew"
    BY <1>2, <2>2 DEF BorrowInv
  <2>3. CASE QueueSize > 0 /\ gen_mode = "GenUnknown"
    BY <1>3, <2>3 DEF ModeChoices
  <2>. QED  BY <1>3, <1>4, <2>1, <2>2, <2>3 DEF TypeOK
<1>6. TypeOK'
  BY <1>1 DEF TypeOK, QueueTypeOK, queueVars
<1>7. PhaseInv'
  BY <1>2 DEF PhaseInv, Running
<1>8. BorrowInv'
  BY <1>2, <1>4, <1>5 DEF BorrowInv, QueueSize, queueVars, Group
<1>9. Owned' = Owned /\ OfRun' = OfRun
  BY DEF Owned, OfRun, queueVars
<1>10. OwnerInv' /\ LinkInv'
  BY <1>9 DEF OwnerInv, LinkInv, queueVars
<1>11. ContentInv'
  BY <1>9 DEF ContentInv, WellFormed
<1>12. StmtInv'
  BY <1>1 DEF StmtInv
<1>. QED  BY <1>6, <1>7, <1>8, <1>10, <1>11, <1>12

-----------------------------------------------------------------------------
(* Borrowing takes nothing from the queue.                                 *)
LEMMA BorrowKeeps ==
  ASSUME CampaignInv, BorrowSaved
  PROVE  /\ BorrowInv' /\ OwnerInv' /\ ContentInv' /\ QueueTypeOK'
         /\ Owned' = Owned /\ p_saved_query_sequence' = Saved
<1>. USE DEF CampaignInv, BorrowSaved, saveVars
<1>1. /\ QueueSize > 0 /\ NextGroup \in 0..(QueueSize - 1)
      /\ Saved # Nil /\ QueueSize \in Nat
      /\ p_saved_query_sequence = Nil => Saved = Group(NextGroup)[1]
  BY SavedIsOwned, QueueShape
<1>2. UNCHANGED <<all_saved_query_sequences, all_scores>>
  BY DEF get_next_query_sequence_from_queue, queueVars
<1>3. Owned' = Owned /\ OfRun' = OfRun
  BY <1>2 DEF Owned, OfRun
<1>4. QueueTypeOK'
  BY <1>1, <1>2 DEF TypeOK, QueueTypeOK, get_next_query_sequence_from_queue, queueVars
<1>5. p_query_sequence # Nil
  BY DEF PhaseInv, Running
<1>6. BorrowInv'
  <2>1. CASE p_saved_query_sequence = Nil
    <3>1. current_chosen_seq_idx' = NextGroup /\ current_queue_iter' = NextGroup + 1
      BY <2>1 DEF get_next_query_sequence_from_queue
    <3>2. p_saved_query_sequence' = all_saved_query_sequences'[current_chosen_seq_idx' + 1][1]
      BY <1>1, <1>2, <2>1, <3>1 DEF Group
    <3>. QED  BY <1>1, <1>2, <1>5, <3>1, <3>2 DEF BorrowInv, QueueSize, Group
  <2>2. CASE p_saved_query_sequence # Nil
    <3>1. UNCHANGED queueVars /\ UNCHANGED p_saved_query_sequence
      BY <2>2 DEF Saved
    <3>. QED  BY <1>5, <2>2, <3>1 DEF BorrowInv, QueueSize, Group, queueVars
  <2>. QED  BY <2>1, <2>2
<1>7. OwnerInv'
  BY <1>2, <1>3 DEF OwnerInv
<1>8. ContentInv'
  BY <1>3 DEF ContentInv, WellFormed
<1>. QED  BY <1>3, <1>4, <1>6, <1>7, <1>8

(* Delivering a statement links the run's sequence to the borrowed one.    *)
LEMMA DeliverKeeps ==
  ASSUME CampaignInv, BorrowSaved, gen_idx' \in Nat,
         NEW stmt \in Stmt, Deliver(stmt),
         stmt.gen_method = "GenMut" => stmt.instan,
         stmt.original # 0 =>
           stmt.original \in DOMAIN good[Saved] /\ stmt.original > BootLen
  PROVE  CampaignInv'
<1>. USE DEF CampaignInv
<1>1. /\ BorrowInv' /\ OwnerInv' /\ ContentInv' /\ QueueTypeOK'
      /\ Owned' = Owned /\ p_saved_query_sequence' = Saved
  BY BorrowKeeps
<1>2. /\ HasInstanData(Last(good[Saved])) /\ Saved # Nil /\ Saved \in Seqs
  BY SavedIsOwned DEF BorrowSaved
<1>3. /\ cur_stmt' = stmt /\ tries' = 0 /\ pc' = "generated"
      /\ previous_sequence' =
            [previous_sequence EXCEPT ![p_query_sequence] =
               IF @ = Nil THEN Saved ELSE @]
  BY <1>2 DEF Deliver
<1>4. /\ UNCHANGED <<stop_soon, live, good, p_query_sequence, stmt_idx,
                     is_total_new_coverage, is_save_curr_query_seq,
                     virgin_bits, unique_crashes, found, lost>>
      /\ gen_mode' = "GenMut"
  BY DEF BorrowSaved, saveVars, discoveries
<1>5. /\ p_query_sequence \in Seqs /\ p_query_sequence # Nil
      /\ p_query_sequence \notin Owned /\ stmt_idx < MaxStmts
  BY DEF BorrowSaved, PhaseInv, Running, TypeOK, OwnerInv
<1>6. previous_sequence' \in [Seqs -> Seqs \cup {Nil}]
  BY <1>2, <1>3, <1>5 DEF TypeOK
<1>7. TypeOK'
  BY <1>1, <1>2, <1>3, <1>4, <1>6 DEF TypeOK
<1>8. PhaseInv'
  BY <1>3, <1>4, <1>5 DEF PhaseInv, Running
<1>9. LinkInv'
  <2>1. Owned \subseteq Seqs
    BY DEF OwnerInv, TypeOK
  <2>2. \A s \in Seqs : s # p_query_sequence =>
          previous_sequence'[s] = previous_sequence[s]
    BY <1>3 DEF TypeOK
  <2>3. previous_sequence'[p_query_sequence] \in {Nil, Saved}
    <3>1. previous_sequence[p_query_sequence] \in {Nil, p_saved_query_sequence}
      BY <1>5 DEF LinkInv
    <3>2. p_saved_query_sequence \in {Nil, Saved}
      BY DEF Saved
    <3>3. previous_sequence'[p_query_sequence] =
            IF previous_sequence[p_query_sequence] = Nil THEN Saved
            ELSE previous_sequence[p_query_sequence]
      BY <1>3, <1>5 DEF TypeOK
    <3>. QED  BY <3>1, <3>2, <3>3
  <2>4. \A s \in Owned' : previous_sequence'[s] = Nil
    BY <1>1, <1>5, <2>1, <2>2 DEF LinkInv
  <2>. QED  BY <1>1, <1>4, <2>3, <2>4 DEF LinkInv
<1>10. StmtInv'
  BY <1>1, <1>2, <1>3, <1>4 DEF StmtInv
<1>. QED  BY <1>1, <1>7, <1>8, <1>9, <1>10

(* A new statement among those of the borrowed sequence.                   *)
LEMMA InsertedKeeps ==
  ASSUME CampaignInv, GenerateInserted
  PROVE  CampaignInv'
<1>1. PICK stmt \in NewStmts : Deliver(stmt)
  BY DEF GenerateInserted
<1>2. stmt \in Stmt /\ stmt.gen_method # "GenMut" /\ stmt.original = 0
  BY NewStmtsShape
<1>3. gen_idx' \in Nat /\ BorrowSaved
  BY DEF GenerateInserted, CampaignInv, TypeOK
<1>. QED  BY <1>1, <1>2, <1>3, DeliverKeeps

(* While statements of the borrowed sequence are left, one of them has an  *)
(* IR, it is past the bootstrap, and it has its data.                      *)
LEMMA NextWithIRShape ==
  ASSUME CampaignInv, BorrowSaved, gen_idx < Len(good[Saved])
  PROVE  /\ NextWithIR \in DOMAIN good[Saved] /\ NextWithIR > BootLen
         /\ NextWithIR <= Len(good[Saved]) /\ NextWithIR \in Nat
         /\ HasInstanData(good[Saved][NextWithIR])
<1>. DEFINE n == Len(good[Saved])
            candidates == {i \in (gen_idx + 1)..n : HasIR(good[Saved][i])}
<1>1. /\ good[Saved] \in Seq(Kind) /\ WellFormed(good[Saved])
      /\ n > BootLen /\ HasInstanData(Last(good[Saved]))
  BY SavedIsOwned DEF BorrowSaved
<1>2. n \in Nat /\ DOMAIN good[Saved] = 1..n /\ gen_idx \in Nat /\ BootLen \in Nat
  BY <1>1, CampaignAssumption DEF CampaignInv, TypeOK
<1>3. n \in candidates
  <2>1. good[Saved] # <<>>
    BY <1>1, <1>2
  <2>2. HasInstanData(good[Saved][n])
    BY <1>1, <2>1, LastIn
  <2>. QED  BY <1>2, <2>2 DEF HasIR, HasInstanData
<1>4. candidates \in SUBSET Nat /\ candidates # {}
  BY <1>2, <1>3
<1>5. \E i \in candidates : \A j \in candidates : i <= j
  BY <1>4, SmallestNat, Zenon
<1>6. NextWithIR = CHOOSE i \in candidates : \A j \in candidates : i <= j
  BY <1>4, Zenon DEF NextWithIR
<1>7. NextWithIR \in candidates
  <2>. HIDE DEF candidates
  <2>. QED  BY <1>5, <1>6, Zenon
<1>8. NextWithIR \in (gen_idx + 1)..n /\ HasIR(good[Saved][NextWithIR])
  BY <1>7
<1>9. NextWithIR \in 1..n /\ NextWithIR \in Nat
  BY <1>2, <1>8
<1>10. NextWithIR > BootLen
  BY <1>1, <1>2, <1>8, <1>9 DEF WellFormed, HasIR
<1>. QED  BY <1>1, <1>2, <1>9, <1>10 DEF WellFormed

(* A mutant of a statement of the borrowed sequence: its source is past    *)
(* the bootstrap and has data.                                             *)
LEMMA MutantKeeps ==
  ASSUME CampaignInv, GenerateMutant
  PROVE  CampaignInv'
<1>1. BorrowSaved /\ gen_idx < Len(good[Saved])
  BY DEF GenerateMutant
<1>2. /\ NextWithIR \in DOMAIN good[Saved] /\ NextWithIR > BootLen
      /\ NextWithIR <= Len(good[Saved]) /\ NextWithIR \in Nat
      /\ HasInstanData(good[Saved][NextWithIR])
  BY <1>1, NextWithIRShape
<1>3. ~(NextWithIR > Len(good[Saved]))
  <2>1. good[Saved] \in Seq(Kind)
    BY <1>1, SavedIsOwned DEF BorrowSaved
  <2>2. Len(good[Saved]) \in Nat
    BY <2>1
  <2>. QED  BY <1>2, <2>2
<1>4. /\ gen_idx' = NextWithIR
      /\ \E m \in MutatedAs :
           Deliver([gen_method |-> m, instan |-> TRUE, original |-> NextWithIR])
  BY <1>2, <1>3 DEF GenerateMutant
<1>5. PICK m \in MutatedAs :
        Deliver([gen_method |-> m, instan |-> TRUE, original |-> NextWithIR])
  BY <1>4
<1>. DEFINE stmt == [gen_method |-> m, instan |-> TRUE, original |-> NextWithIR]
<1>6. stmt \in Stmt /\ stmt.instan /\ stmt.original = NextWithIR
  BY <1>2 DEF Stmt, Method, MutatedAs
<1>7. Deliver(stmt)
  BY <1>5
<1>. HIDE DEF stmt
<1>. QED  BY <1>1, <1>2, <1>4, <1>6, <1>7, DeliverKeeps

-----------------------------------------------------------------------------
(* Only what was found can be lost.                                        *)
LEMMA AccountKeeps ==
  CampaignInv /\ Account => lost' \in SUBSET Bits
BY DEF CampaignInv, TypeOK, Account

(* What the end of a run leaves, whatever it frees.                        *)
LEMMA ReleaseKeeps ==
  ASSUME CampaignInv, pc \notin Terminal,
         NEW objects, NEW contents, NEW links,
         Release(objects, contents, links),
         contents \in [Seqs -> Seq(Kind)],
         links \in [Seqs -> Seqs \cup {Nil}],
         QueueTypeOK', live' \in SUBSET Seqs, lost' \in SUBSET Bits
  PROVE  /\ TypeOK' /\ PhaseInv' /\ StmtInv'
         /\ p_query_sequence' = Nil /\ p_saved_query_sequence' = Nil
         /\ OfRun' = {}
         /\ \A s \in Seqs : s \notin objects =>
              good'[s] = contents[s] /\ previous_sequence'[s] = links[s]
<1>. USE DEF CampaignInv, Release
<1>1. cur_stmt' \in Stmt /\ cur_stmt'.gen_method # "GenMut" /\ cur_stmt'.original = 0
  BY DEF NoStmt, Stmt, Method
<1>2. good' \in [Seqs -> Seq(Kind)]
  <2>1. <<>> \in Seq(Kind)
    OBVIOUS
  <2>. QED  BY <2>1
<1>3. previous_sequence' \in [Seqs -> Seqs \cup {Nil}]
  OBVIOUS
<1>4. TypeOK'
  BY <1>1, <1>2, <1>3 DEF TypeOK, Terminal
<1>5. PhaseInv'
  BY DEF PhaseInv, Running
<1>6. StmtInv'
  BY <1>1 DEF StmtInv
<1>7. OfRun' = {}
  BY DEF OfRun
<1>. QED  BY <1>4, <1>5, <1>6, <1>7

(* A run that is not saved takes only its own sequence with it.            *)
LEMMA DiscardKeeps ==
  ASSUME CampaignInv, AbandonRun \/ FinishWithoutSaving
  PROVE  CampaignInv'
<1>. USE DEF CampaignInv
<1>1. /\ pc \in {"generated", "finish"}
      /\ live' = live \ {p_query_sequence}
      /\ Release({p_query_sequence}, good, previous_sequence)
      /\ UNCHANGED queueVars
  BY DEF AbandonRun, FinishWithoutSaving
<1>2. QueueTypeOK' /\ live' \in SUBSET Seqs /\ lost' \in SUBSET Bits
  <2>1. lost' \in SUBSET Bits
    BY AccountKeeps DEF AbandonRun, FinishWithoutSaving, TypeOK
  <2>. QED  BY <1>1, <2>1 DEF TypeOK, QueueTypeOK, queueVars
<1>3. good \in [Seqs -> Seq(Kind)] /\ previous_sequence \in [Seqs -> Seqs \cup {Nil}]
  BY DEF TypeOK
<1>4. /\ TypeOK' /\ PhaseInv' /\ StmtInv'
      /\ p_query_sequence' = Nil /\ p_saved_query_sequence' = Nil
      /\ OfRun' = {}
      /\ \A s \in Seqs : s \notin {p_query_sequence} =>
           good'[s] = good[s] /\ previous_sequence'[s] = previous_sequence[s]
  BY <1>1, <1>2, <1>3, ReleaseKeeps DEF Terminal
<1>5. Owned' = Owned /\ p_query_sequence \notin Owned /\ live' = Owned
      /\ Owned \subseteq Seqs
  BY <1>1 DEF Owned, OwnerInv, OfRun, queueVars, TypeOK
<1>6. BorrowInv'
  BY <1>1, <1>4 DEF BorrowInv, QueueSize, queueVars
<1>7. OwnerInv'
  <2>1. Nil \notin Owned
    BY <1>5, NilAssumption
  <2>. QED  BY <1>1, <1>4, <1>5, <2>1 DEF OwnerInv, queueVars
<1>8. ContentInv'
  <2>1. \A s \in Owned : good'[s] = good[s] /\ s \in live
    BY <1>4, <1>5 DEF OwnerInv
  <2>. QED  BY <1>4, <1>5, <2>1 DEF ContentInv, WellFormed
<1>9. LinkInv'
  BY <1>4, <1>5 DEF LinkInv
<1>. QED  BY <1>4, <1>6, <1>7, <1>8, <1>9

(* What a copy of the run's sequence brings to the queue.                  *)
LEMMA CopyShape ==
  ASSUME CampaignInv, pc = "finish", WorthSaving,
         NEW copy \in Seqs \ live, NEW link \in Seqs \cup {Nil}
  PROVE  /\ p_query_sequence \in Seqs /\ p_query_sequence \in live
         /\ p_query_sequence # Nil /\ p_query_sequence \notin Owned
         /\ copy # p_query_sequence /\ copy \notin Owned
         /\ good[p_query_sequence] \in Seq(Kind)
         /\ WellFormed(good[p_query_sequence])
         /\ Len(good[p_query_sequence]) > BootLen
         /\ [good EXCEPT ![copy] = good[p_query_sequence]] \in [Seqs -> Seq(Kind)]
         /\ [previous_sequence EXCEPT ![copy] = link] \in [Seqs -> Seqs \cup {Nil}]
<1>. USE DEF CampaignInv
<1>1. /\ p_query_sequence # Nil /\ p_query_sequence \in Seqs
      /\ p_query_sequence \in live /\ p_query_sequence \notin Owned
  BY DEF PhaseInv, Running, TypeOK, OwnerInv, OfRun
<1>2. copy # p_query_sequence /\ copy \notin Owned
  BY <1>1 DEF OwnerInv
<1>3. good[p_query_sequence] \in Seq(Kind) /\ WellFormed(good[p_query_sequence])
  BY <1>1 DEF TypeOK, ContentInv
<1>4. Len(good[p_query_sequence]) > BootLen
  BY <1>1 DEF ContentInv, WorthSaving
<1>. QED  BY <1>1, <1>2, <1>3, <1>4 DEF TypeOK

(* The copy founds a group of its own, for which the run left room.        *)
LEMMA NewLineageKeeps ==
  ASSUME CampaignInv, SaveNewLineage
  PROVE  CampaignInv'
<1>. USE DEF CampaignInv
<1>1. PICK copy \in Seqs \ live :
        /\ append_new_sequence_from_scratch(copy)
        /\ live' = (live \cup {copy}) \ {p_query_sequence}
        /\ Release({p_query_sequence},
                   [good EXCEPT ![copy] = good[p_query_sequence]],
                   [previous_sequence EXCEPT
                      ![copy] = previous_sequence[p_query_sequence]])
  BY DEF SaveNewLineage
<1>2. pc = "finish" /\ WorthSaving /\ gen_mode = "GenAllFromNew"
  BY DEF SaveNewLineage
<1>. DEFINE contents == [good EXCEPT ![copy] = good[p_query_sequence]]
            links == [previous_sequence EXCEPT
                        ![copy] = previous_sequence[p_query_sequence]]
<1>3. previous_sequence[p_query_sequence] = Nil
  BY <1>2 DEF PhaseInv, Running, BorrowInv, LinkInv
<1>4. /\ p_query_sequence \in Seqs /\ p_query_sequence \in live
      /\ p_query_sequence # Nil /\ p_query_sequence \notin Owned
      /\ copy # p_query_sequence /\ copy \notin Owned
      /\ good[p_query_sequence] \in Seq(Kind)
      /\ WellFormed(good[p_query_sequence])
      /\ Len(good[p_query_sequence]) > BootLen
      /\ contents \in [Seqs -> Seq(Kind)]
      /\ links \in [Seqs -> Seqs \cup {Nil}]
  BY <1>2, <1>3, CopyShape
<1>5. /\ all_saved_query_sequences \in Seq(Seq(Seqs)) /\ QueueSize \in Nat
      /\ all_scores \in Seq(Nat \X Score)
      /\ DOMAIN all_saved_query_sequences = 1..QueueSize
  BY QueueShape DEF TypeOK, QueueTypeOK
<1>6. /\ all_saved_query_sequences' = Append(all_saved_query_sequences, <<copy>>)
      /\ all_scores' = Append(all_scores, <<0, "0.0">>)
      /\ UNCHANGED <<current_chosen_seq_idx, current_queue_iter>>
  BY <1>1 DEF append_new_sequence_from_scratch
<1>7. /\ all_saved_query_sequences' \in Seq(Seq(Seqs))
      /\ QueueSize' = QueueSize + 1
      /\ DOMAIN all_saved_query_sequences' = 1..(QueueSize + 1)
      /\ all_saved_query_sequences'[QueueSize + 1] = <<copy>>
      /\ \A g \in 1..QueueSize :
           all_saved_query_sequences'[g] = all_saved_query_sequences[g]
  BY <1>5, <1>6 DEF QueueSize
<1>8. all_scores' \in Seq(Nat \X Score) /\ Len(all_scores') = Len(all_scores) + 1
  BY <1>5, <1>6 DEF Score
<1>9. QueueTypeOK' /\ live' \in SUBSET Seqs /\ lost' \in SUBSET Bits
  <2>1. lost' \in SUBSET Bits
    BY AccountKeeps DEF SaveNewLineage
  <2>. QED  BY <1>1, <1>6, <1>7, <1>8, <2>1 DEF TypeOK, QueueTypeOK
<1>10. /\ TypeOK' /\ PhaseInv' /\ StmtInv'
       /\ p_query_sequence' = Nil /\ p_saved_query_sequence' = Nil
       /\ OfRun' = {}
       /\ \A s \in Seqs : s \notin {p_query_sequence} =>
            good'[s] = contents[s] /\ previous_sequence'[s] = links[s]
  <2>1. PICK o, c, l : o = {p_query_sequence} /\ c = contents /\ l = links
    BY Zenon
  <2>2. Release(o, c, l)
    BY <1>1, <2>1
  <2>3. c \in [Seqs -> Seq(Kind)] /\ l \in [Seqs -> Seqs \cup {Nil}]
    BY <1>4, <2>1
  <2>4. pc \notin Terminal
    BY <1>2 DEF Terminal
  <2>5. /\ TypeOK' /\ PhaseInv' /\ StmtInv'
        /\ p_query_sequence' = Nil /\ p_saved_query_sequence' = Nil
        /\ OfRun' = {}
        /\ \A s \in Seqs : s \notin o =>
             good'[s] = c[s] /\ previous_sequence'[s] = l[s]
    <3>. HIDE DEF contents, links, CampaignInv
    <3>. QED  BY <1>9, <2>2, <2>3, <2>4, ReleaseKeeps
  <2>. QED  BY <2>1, <2>5
<1>11. Owned' = Owned \cup {copy}
  <2>1. Owned' = {all_saved_query_sequences'[g][1] : g \in 1..(QueueSize + 1)}
    BY <1>7 DEF Owned
  <2>2. Owned = {all_saved_query_sequences[g][1] : g \in 1..QueueSize}
    BY <1>5 DEF Owned
  <2>3. all_saved_query_sequences'[QueueSize + 1][1] = copy
    BY <1>7
  <2>4. \A g \in 1..QueueSize :
          all_saved_query_sequences'[g][1] = all_saved_query_sequences[g][1]
    BY <1>7
  <2>5. ASSUME NEW s \in Owned' PROVE s \in Owned \cup {copy}
    <3>1. PICK g \in 1..(QueueSize + 1) : s = all_saved_query_sequences'[g][1]
      BY <2>1, <2>5
    <3>2. g \in 1..QueueSize \/ g = QueueSize + 1
      BY <1>5
    <3>. QED  BY <2>2, <2>3, <2>4, <3>1, <3>2
  <2>6. copy \in Owned' /\ Owned \subseteq Owned'
    <3>1. QueueSize + 1 \in 1..(QueueSize + 1) /\ 1..QueueSize \subseteq 1..(QueueSize + 1)
      BY <1>5
    <3>. QED  BY <2>1, <2>2, <2>3, <2>4, <3>1
  <2>. QED  BY <2>5, <2>6
<1>12. live' = Owned' /\ Owned \subseteq Seqs /\ Owned \subseteq live
  BY <1>1, <1>4, <1>11 DEF OwnerInv, OfRun, TypeOK
<1>13. BorrowInv'
  <2>1. QueueSize < MaxLineages /\ current_queue_iter <= QueueSize
        /\ current_queue_iter \in Nat /\ MaxLineages \in Nat
        /\ Len(all_scores) = QueueSize
    BY <1>2, <1>4, CampaignAssumption DEF BorrowInv, TypeOK, QueueTypeOK
  <2>2. QueueSize' <= MaxLineages /\ current_queue_iter' <= QueueSize'
        /\ Len(all_scores') = QueueSize'
    BY <1>5, <1>6, <1>7, <1>8, <2>1
  <2>. QED  BY <1>10, <2>2 DEF BorrowInv
<1>14. OwnerInv'
  <2>1. ASSUME NEW g \in 1..(QueueSize + 1)
        PROVE  Len(all_saved_query_sequences'[g]) = 1
    <3>1. CASE g \in 1..QueueSize
      BY <1>5, <1>7, <3>1 DEF OwnerInv
    <3>2. CASE g = QueueSize + 1
      BY <1>7, <3>2
    <3>. QED  BY <1>5, <3>1, <3>2
  <2>2. \A g \in 1..QueueSize : all_saved_query_sequences'[g][1] \in Owned
    BY <1>5, <1>7 DEF Owned
  <2>3. all_saved_query_sequences'[QueueSize + 1][1] = copy
    BY <1>7
  <2>4. ASSUME NEW g \in 1..(QueueSize + 1), NEW h \in 1..(QueueSize + 1),
               all_saved_query_sequences'[g][1] = all_saved_query_sequences'[h][1]
        PROVE  g = h
    <3>1. CASE g \in 1..QueueSize /\ h \in 1..QueueSize
      BY <1>5, <1>7, <2>4, <3>1 DEF OwnerInv
    <3>2. CASE g = QueueSize + 1 /\ h \in 1..QueueSize
      BY <1>4, <2>2, <2>3, <2>4, <3>2
    <3>3. CASE h = QueueSize + 1 /\ g \in 1..QueueSize
      BY <1>4, <2>2, <2>3, <2>4, <3>3
    <3>. QED  BY <1>5, <3>1, <3>2, <3>3
  <2>5. Nil \notin Owned'
    BY <1>11, <1>12, NilAssumption
  <2>. QED  BY <1>7, <1>10, <1>12, <2>1, <2>4, <2>5 DEF OwnerInv
<1>15. /\ good'[copy] = good[p_query_sequence] /\ previous_sequence'[copy] = Nil
       /\ \A s \in Owned : good'[s] = good[s] /\ previous_sequence'[s] = previous_sequence[s]
  BY <1>3, <1>4, <1>10, <1>12 DEF TypeOK
<1>16. ContentInv'
  <2>1. ASSUME NEW s \in live' PROVE WellFormed(good'[s]) /\ Len(good'[s]) > BootLen
    <3>1. CASE s = copy
      BY <1>4, <1>15, <3>1
    <3>2. CASE s \in Owned
      BY <1>12, <1>15, <3>2 DEF ContentInv
    <3>. QED  BY <1>11, <1>12, <2>1, <3>1, <3>2
  <2>. QED  BY <1>10, <1>12, <2>1 DEF ContentInv, WellFormed
<1>17. LinkInv'
  BY <1>10, <1>11, <1>15 DEF LinkInv
<1>. QED  BY <1>10, <1>13, <1>14, <1>16, <1>17

(* The copy takes the place of the sequence it was mutated from.           *)
LEMMA ToLineageKeeps ==
  ASSUME CampaignInv, SaveToLineage
  PROVE  CampaignInv'
<1>. USE DEF CampaignInv
<1>1. pc = "finish" /\ WorthSaving /\ gen_mode # "GenAllFromNew"
      /\ UNCHANGED current_chosen_seq_idx
  BY DEF SaveToLineage
<1>. DEFINE freed == DisplacedBy(TRUE) \cup {p_query_sequence}
            cell == current_chosen_seq_idx + 1
<1>2. PICK copy \in Seqs \ live :
        /\ append_new_sequence_to_existing_group(copy, TRUE)
        /\ repeat_previous_query_seq
        /\ live' = (live \cup {copy}) \ freed
        /\ Release(freed,
                   [good EXCEPT ![copy] = good[p_query_sequence]],
                   [previous_sequence EXCEPT ![copy] = Nil])
  BY DEF SaveToLineage, PredecessorIn
<1>3. /\ all_saved_query_sequences \in Seq(Seq(Seqs)) /\ QueueSize \in Nat
      /\ all_scores \in Seq(Nat \X Score)
      /\ DOMAIN all_saved_query_sequences = 1..QueueSize
  BY QueueShape DEF TypeOK, QueueTypeOK
<1>4. p_saved_query_sequence # Nil
  BY <1>1 DEF PhaseInv, Running, BorrowInv, TypeOK
<1>5. /\ cell \in 1..QueueSize /\ all_saved_query_sequences[cell] \in Seq(Seqs)
      /\ current_queue_iter = current_chosen_seq_idx + 1
      /\ Len(all_saved_query_sequences[cell]) = 1
      /\ all_saved_query_sequences[cell][1] = p_saved_query_sequence
      /\ current_chosen_seq_idx \in Nat
  <2>1. cell \in 1..QueueSize /\ current_chosen_seq_idx \in Nat
    BY <1>3, <1>4 DEF BorrowInv, TypeOK, QueueTypeOK
  <2>2. all_saved_query_sequences[cell] \in Seq(Seqs)
        /\ Len(all_saved_query_sequences[cell]) = 1
    <3>1. \A g \in 1..QueueSize : all_saved_query_sequences[g] \in Seq(Seqs)
      BY QueueShape
    <3>2. \A g \in 1..QueueSize : Len(all_saved_query_sequences[g]) = 1
      BY <1>3 DEF OwnerInv
    <3>. HIDE DEF cell
    <3>. QED  BY <2>1, <3>1, <3>2
  <2>. QED  BY <1>4, <2>1, <2>2 DEF BorrowInv, Group
<1>6. freed = {p_saved_query_sequence, p_query_sequence}
  <2>1. DisplacedBy(TRUE) = {p_saved_query_sequence}
    BY <1>5 DEF DisplacedBy, Group, ToSet
  <2>. QED  BY <2>1
<1>7. /\ p_query_sequence \in Seqs /\ p_query_sequence \in live
      /\ p_query_sequence # Nil /\ p_query_sequence \notin Owned
      /\ copy # p_query_sequence /\ copy \notin Owned
      /\ good[p_query_sequence] \in Seq(Kind)
      /\ WellFormed(good[p_query_sequence])
      /\ Len(good[p_query_sequence]) > BootLen
      /\ [good EXCEPT ![copy] = good[p_query_sequence]] \in [Seqs -> Seq(Kind)]
      /\ [previous_sequence EXCEPT ![copy] = Nil] \in [Seqs -> Seqs \cup {Nil}]
  BY <1>1, CopyShape
<1>8. /\ all_saved_query_sequences' = [all_saved_query_sequences EXCEPT ![cell] = <<copy>>]
      /\ current_queue_iter' = current_chosen_seq_idx
  BY <1>2, <1>5 DEF append_new_sequence_to_existing_group, repeat_previous_query_seq
<1>9. /\ all_saved_query_sequences' \in Seq(Seq(Seqs))
      /\ QueueSize' = QueueSize
      /\ DOMAIN all_saved_query_sequences' = 1..QueueSize
      /\ all_saved_query_sequences'[cell] = <<copy>>
      /\ \A g \in 1..QueueSize : g # cell =>
           all_saved_query_sequences'[g] = all_saved_query_sequences[g]
  <2>1. <<copy>> \in Seq(Seqs)
    OBVIOUS
  <2>. QED  BY <1>3, <1>5, <1>8, <2>1 DEF QueueSize
<1>10. all_scores' \in Seq(Nat \X Score) /\ Len(all_scores') = QueueSize
  <2>1. Len(all_scores) = QueueSize
    BY DEF BorrowInv
  <2>2. all_scores[cell] \in Nat \X Score
    BY <1>3, <1>5, <2>1
  <2>3. PICK score \in Score :
          all_scores' = [all_scores EXCEPT ![cell] = <<all_scores[cell][1], score>>]
    <3>. DEFINE score == RunningMeanWithZero(all_scores[cell][1], all_scores[cell][2])
    <3>1. all_scores' = [all_scores EXCEPT ![cell] = <<all_scores[cell][1], score>>]
      BY <1>2, <1>3, <1>5, <2>1 DEF append_new_sequence_to_existing_group
    <3>2. score \in Score
      BY DEF RunningMeanWithZero, Score
    <3>. HIDE DEF score
    <3>. QED  BY <3>1, <3>2
  <2>4. <<all_scores[cell][1], score>> \in Nat \X Score
    BY <2>2
  <2>. QED  BY <1>3, <1>5, <2>1, <2>3, <2>4
<1>11. QueueTypeOK' /\ live' \in SUBSET Seqs /\ lost' \in SUBSET Bits
  <2>1. live' \in SUBSET Seqs
    BY <1>2 DEF TypeOK
  <2>2. lost' \in SUBSET Bits
    BY AccountKeeps DEF SaveToLineage
  <2>. QED  BY <1>1, <1>5, <1>8, <1>9, <1>10, <2>1, <2>2 DEF QueueTypeOK
<1>12. PICK c, l : /\ c = [good EXCEPT ![copy] = good[p_query_sequence]]
                   /\ l = [previous_sequence EXCEPT ![copy] = Nil]
  BY Zenon
<1>13. /\ TypeOK' /\ PhaseInv' /\ StmtInv'
       /\ p_query_sequence' = Nil /\ p_saved_query_sequence' = Nil
       /\ OfRun' = {}
       /\ \A s \in Seqs : s \notin freed =>
            good'[s] = c[s] /\ previous_sequence'[s] = l[s]
  <2>1. Release(freed, c, l)
    BY <1>2, <1>12
  <2>2. c \in [Seqs -> Seq(Kind)] /\ l \in [Seqs -> Seqs \cup {Nil}]
    BY <1>7, <1>12
  <2>3. pc \notin Terminal
    BY <1>1 DEF Terminal
  <2>. HIDE DEF freed
  <2>. QED  BY <1>11, <2>1, <2>2, <2>3, ReleaseKeeps
<1>14. Owned' = (Owned \ {p_saved_query_sequence}) \cup {copy}
  <2>1. Owned' = {all_saved_query_sequences'[g][1] : g \in 1..QueueSize}
    BY <1>9 DEF Owned
  <2>2. Owned = {all_saved_query_sequences[g][1] : g \in 1..QueueSize}
    BY <1>3 DEF Owned
  <2>3. all_saved_query_sequences'[cell][1] = copy
    BY <1>9
  <2>4. \A g \in 1..QueueSize : g # cell =>
          /\ all_saved_query_sequences'[g][1] = all_saved_query_sequences[g][1]
          /\ all_saved_query_sequences[g][1] # p_saved_query_sequence
    BY <1>3, <1>5, <1>9 DEF OwnerInv
  <2>5. ASSUME NEW s \in Owned'
        PROVE  s \in (Owned \ {p_saved_query_sequence}) \cup {copy}
    <3>1. PICK g \in 1..QueueSize : s = all_saved_query_sequences'[g][1]
      BY <2>1, <2>5
    <3>. QED  BY <2>2, <2>3, <2>4, <3>1
  <2>6. ASSUME NEW s \in Owned, s # p_saved_query_sequence
        PROVE  s \in Owned'
    <3>1. PICK g \in 1..QueueSize : s = all_saved_query_sequences[g][1]
      BY <2>2, <2>6
    <3>. QED  BY <1>5, <2>1, <2>4, <2>6, <3>1
  <2>7. copy \in Owned'
    BY <1>5, <2>1, <2>3
  <2>. QED  BY <2>5, <2>6, <2>7
<1>15. p_saved_query_sequence \in Owned
  BY <1>3, <1>5 DEF Owned
<1>16. live' = Owned' /\ Owned \subseteq Seqs /\ Owned \subseteq live
  <2>1. live' = (live \cup {copy}) \ {p_saved_query_sequence, p_query_sequence}
    BY <1>2, <1>6
  <2>2. live = Owned \cup {p_query_sequence} /\ live \subseteq Seqs
    BY <1>7 DEF OwnerInv, OfRun, TypeOK
  <2>3. copy # p_saved_query_sequence
    BY <1>7, <1>15
  <2>. QED  BY <1>7, <1>14, <1>15, <2>1, <2>2, <2>3
<1>17. BorrowInv'
  <2>1. QueueSize' <= MaxLineages /\ current_queue_iter' <= QueueSize'
        /\ Len(all_scores') = QueueSize'
    BY <1>3, <1>5, <1>8, <1>9, <1>10 DEF BorrowInv
  <2>. QED  BY <1>13, <2>1 DEF BorrowInv
<1>18. OwnerInv'
  <2>1. ASSUME NEW g \in 1..QueueSize PROVE Len(all_saved_query_sequences'[g]) = 1
    <3>1. CASE g = cell
      BY <1>9, <3>1
    <3>2. CASE g # cell
      BY <1>3, <1>9, <3>2 DEF OwnerInv
    <3>. QED  BY <3>1, <3>2
  <2>2. \A g \in 1..QueueSize : g # cell => all_saved_query_sequences'[g][1] \in Owned
    BY <1>3, <1>9 DEF Owned
  <2>3. all_saved_query_sequences'[cell][1] = copy
    BY <1>9
  <2>4. ASSUME NEW g \in 1..QueueSize, NEW h \in 1..QueueSize,
               all_saved_query_sequences'[g][1] = all_saved_query_sequences'[h][1]
        PROVE  g = h
    <3>1. CASE g # cell /\ h # cell
      BY <1>3, <1>9, <2>4, <3>1 DEF OwnerInv
    <3>2. CASE g = cell \/ h = cell
      BY <1>7, <2>2, <2>3, <2>4, <3>2
    <3>. QED  BY <3>1, <3>2
  <2>5. Nil \notin Owned'
    BY <1>14, <1>16, NilAssumption
  <2>. QED  BY <1>9, <1>13, <1>16, <2>1, <2>4, <2>5 DEF OwnerInv
<1>19. /\ good'[copy] = good[p_query_sequence] /\ previous_sequence'[copy] = Nil
       /\ \A s \in Owned : s # p_saved_query_sequence =>
            good'[s] = good[s] /\ previous_sequence'[s] = previous_sequence[s]
  <2>1. c[copy] = good[p_query_sequence] /\ l[copy] = Nil
    BY <1>12 DEF TypeOK
  <2>2. \A s \in Seqs : s # copy => c[s] = good[s] /\ l[s] = previous_sequence[s]
    BY <1>12 DEF TypeOK
  <2>3. copy \notin freed
    BY <1>6, <1>7, <1>15
  <2>4. \A s \in Owned : s # p_saved_query_sequence =>
          s \in Seqs /\ s \notin freed /\ s # copy
    BY <1>6, <1>7, <1>16
  <2>. HIDE DEF freed
  <2>. QED  BY <1>13, <2>1, <2>2, <2>3, <2>4
<1>20. ContentInv'
  <2>1. ASSUME NEW s \in live' PROVE WellFormed(good'[s]) /\ Len(good'[s]) > BootLen
    <3>1. CASE s = copy
      BY <1>7, <1>19, <3>1
    <3>2. CASE s \in Owned /\ s # p_saved_query_sequence
      BY <1>16, <1>19, <3>2 DEF ContentInv
    <3>. QED  BY <1>14, <1>16, <2>1, <3>1, <3>2
  <2>. QED  BY <1>13, <1>16, <2>1 DEF ContentInv, WellFormed
<1>21. LinkInv'
  BY <1>13, <1>14, <1>19 DEF LinkInv
<1>. QED  BY <1>13, <1>17, <1>18, <1>20, <1>21

-----------------------------------------------------------------------------
(* The invariant is inductive.                                             *)
LEMMA CampaignInvNext == CampaignInv /\ [Next]_vars => CampaignInv'
<1>. SUFFICES ASSUME CampaignInv, [Next]_vars
              PROVE  CampaignInv'
  OBVIOUS
<1>1. CASE StartRun
  BY <1>1, StartRunKeeps
<1>2. CASE Generate
  BY <1>2, FromScratchKeeps, InsertedKeeps, MutantKeeps DEF Generate
<1>3. CASE DropStmt
  BY <1>3, DropStmtKeeps
<1>4. CASE Instantiate
  BY <1>4, InstantiateKeeps
<1>5. CASE Execute
  BY <1>5, InternalErrorKeeps, ErrorKeeps, CleanKeeps,
     CrashKeeps, FatalKeeps DEF Execute
<1>6. CASE EndRun
  BY <1>6, DiscardKeeps, NewLineageKeeps, ToLineageKeeps DEF EndRun
<1>7. CASE StopSignal
  BY <1>7, StopSignalKeeps
<1>8. CASE UNCHANGED vars
  <2>1. UNCHANGED <<heapVars, genVars, saveVars, queueVars>>
    BY <1>8 DEF vars
  <2>2. UNCHANGED <<pc, stop_soon, stmt_idx, cur_stmt, virgin_bits, unique_crashes>>
    BY <1>8 DEF vars
  <2>3. BorrowInv' /\ OwnerInv' /\ ContentInv' /\ LinkInv'
    BY <2>1, QuietStep DEF heapVars, genVars, saveVars
  <2>4. TypeOK'
    BY <2>1, <2>2 DEF CampaignInv, TypeOK, QueueTypeOK, heapVars, genVars,
                      saveVars, discoveries, queueVars
  <2>5. PhaseInv' /\ StmtInv'
    BY <2>1, <2>2 DEF CampaignInv, PhaseInv, StmtInv, Running, heapVars, genVars
  <2>. QED  BY <2>3, <2>4, <2>5 DEF CampaignInv
<1>. QED  BY <1>1, <1>2, <1>3, <1>4, <1>5, <1>6, <1>7, <1>8 DEF Next

(* The inductive invariant of the fuzzing loop: phases, borrowed pointer,  *)
(* ownership, contents, links and the statement at hand are consistent.    *)
THEOREM CampaignInvariant == Spec => []CampaignInv
BY CampaignInvInit, CampaignInvNext, PTL DEF Spec

-----------------------------------------------------------------------------
(* What follows for the properties.                                        *)

(* With one sequence to a group, the queue holds exactly the owned ones.   *)
LEMMA QueuedIsOwned == ASSUME CampaignInv PROVE Queued = Owned
<1>. DEFINE Cell(g) == all_saved_query_sequences[g]
<1>1. \A g \in DOMAIN all_saved_query_sequences :
        Cell(g) \in Seq(Seqs) /\ Len(Cell(g)) = 1
  BY QueueShape DEF CampaignInv, OwnerInv
<1>2. ASSUME NEW g \in DOMAIN all_saved_query_sequences
      PROVE  ToSet(Cell(g)) = {Cell(g)[1]}
  <2>1. Cell(g) \in Seq(Seqs) /\ Len(Cell(g)) = 1
    BY <1>1
  <2>. HIDE DEF Cell
  <2>. QED  BY <2>1 DEF ToSet
<1>3. Queued = UNION {ToSet(Cell(g)) : g \in DOMAIN all_saved_query_sequences}
  BY DEF Queued
<1>4. Owned = {Cell(g)[1] : g \in DOMAIN all_saved_query_sequences}
  BY DEF Owned
<1>. HIDE DEF Cell
<1>5. ASSUME NEW s \in Queued PROVE s \in Owned
  <2>1. PICK g \in DOMAIN all_saved_query_sequences : s \in ToSet(Cell(g))
    BY <1>3, <1>5
  <2>. QED  BY <1>2, <1>4, <2>1
<1>6. ASSUME NEW s \in Owned PROVE s \in Queued
  <2>1. PICK g \in DOMAIN all_saved_query_sequences : s = Cell(g)[1]
    BY <1>4, <1>6
  <2>. QED  BY <1>2, <1>3, <2>1
<1>. QED  BY <1>5, <1>6

(* What the run borrows is in the queue.                                   *)
LEMMA BorrowedIsOwned ==
  ASSUME CampaignInv, p_saved_query_sequence # Nil
  PROVE  p_saved_query_sequence \in Owned
<1>1. current_chosen_seq_idx + 1 \in DOMAIN all_saved_query_sequences
  BY QueueShape DEF CampaignInv, BorrowInv, TypeOK, QueueTypeOK
<1>. QED  BY <1>1 DEF CampaignInv, BorrowInv, Owned, Group

(* A pointer to an owned or borrowed sequence is live.                     *)
LEMMA PointersAreGood == ASSUME CampaignInv PROVE NoBadPointer
<1>. USE DEF CampaignInv
<1>1. Running => /\ p_query_sequence \in live
                 /\ p_saved_query_sequence \in live \cup {Nil}
                 /\ p_saved_query_sequence # p_query_sequence
  BY BorrowedIsOwned DEF PhaseInv, OwnerInv, OfRun
<1>2. ASSUME NEW s \in live PROVE previous_sequence[s] \in live \cup {Nil}
  <2>1. CASE s \in Owned
    BY <2>1 DEF LinkInv
  <2>2. CASE s = p_query_sequence /\ p_query_sequence # Nil
    BY <2>2, BorrowedIsOwned DEF LinkInv, OwnerInv
  <2>. QED  BY <1>2, <2>1, <2>2 DEF OwnerInv, OfRun
<1>3. pc # "segv"
  BY DEF PhaseInv
<1>. QED  BY <1>1, <1>2, <1>3 DEF NoBadPointer, StmtInv

(* In every reachable state no pointer that is still read is null or       *)
(* refers to a deleted sequence.                                           *)
THEOREM PointersStayGood == Spec => []NoBadPointer
BY CampaignInvariant, PointersAreGood, PTL

(* The owners of the invariant are those of the property.                  *)
LEMMA OwnersAreExact == ASSUME CampaignInv PROVE ExactOwnership
<1>. USE DEF CampaignInv
<1>1. Queued = Owned
  BY QueuedIsOwned
<1>2. live = Queued \cup OfRun /\ Queued \cap OfRun = {}
  BY <1>1 DEF OwnerInv, OfRun
<1>3. \A g \in DOMAIN all_saved_query_sequences :
       /\ Len(all_saved_query_sequences[g]) = 1
       /\ \A h \in DOMAIN all_saved_query_sequences :
            g # h => all_saved_query_sequences[g] # all_saved_query_sequences[h]
  BY DEF OwnerInv
<1>. QED  BY <1>2, <1>3 DEF ExactOwnership

(* Every allocated sequence has one owner: nothing leaks, and nothing is   *)
(* deleted twice.                                                          *)
THEOREM OwnershipIsExact == Spec => []ExactOwnership
BY CampaignInvariant, OwnersAreExact, PTL

(* Every variable keeps its type.                                          *)
THEOREM TypeCorrect == Spec => []TypeOK
<1>1. CampaignInv => TypeOK
  BY DEF CampaignInv
<1>. QED  BY <1>1, CampaignInvariant, PTL

(* A well-formed sequence starts with the bootstrap and has all data.      *)
LEMMA WellFormedIsReplayable ==
  ASSUME NEW stmts \in Seq(Kind), WellFormed(stmts), Len(stmts) > BootLen
  PROVE  /\ SubSeq(stmts, 1, BootLen) = Bootstrap
         /\ HasInstanData(Last(stmts))
         /\ \A i \in DOMAIN stmts : HasIR(stmts[i]) => HasInstanData(stmts[i])
<1>1. Len(stmts) \in Nat /\ DOMAIN stmts = 1..Len(stmts) /\ BootLen \in Nat \ {0}
  BY CampaignAssumption
<1>2. \A i \in 1..BootLen : i \in DOMAIN stmts /\ stmts[i] = "string"
  BY <1>1 DEF WellFormed
<1>3. SubSeq(stmts, 1, BootLen) = Bootstrap
  <2>1. SubSeq(stmts, 1, BootLen) = [i \in 1..BootLen |-> stmts[i]]
    BY <1>1
  <2>. QED  BY <1>2, <2>1 DEF Bootstrap
<1>4. HasInstanData(Last(stmts))
  <2>1. stmts # <<>>
    BY <1>1
  <2>2. Last(stmts) = stmts[Len(stmts)] /\ Len(stmts) \in DOMAIN stmts
    BY <2>1, LastIn
  <2>. QED  BY <1>1, <2>2 DEF WellFormed
<1>5. \A i \in DOMAIN stmts : HasIR(stmts[i]) => HasInstanData(stmts[i])
  BY <1>1 DEF WellFormed, HasIR
<1>. QED  BY <1>3, <1>4, <1>5

(* Every saved sequence can be replayed and mutated: the bootstrap first,  *)
(* then statements that all carry their instantiation data.                *)
THEOREM SavedStaysReplayable == Spec => []SavedIsReplayable
<1>1. ASSUME CampaignInv PROVE SavedIsReplayable
  <2>1. SUFFICES ASSUME NEW s \in Owned
                 PROVE  /\ Len(good[s]) > BootLen
                        /\ SubSeq(good[s], 1, BootLen) = Bootstrap
                        /\ HasInstanData(Last(good[s]))
                        /\ \A i \in DOMAIN good[s] :
                             HasIR(good[s][i]) => HasInstanData(good[s][i])
    BY <1>1, QueuedIsOwned DEF SavedIsReplayable
  <2>2. /\ good[s] \in Seq(Kind) /\ WellFormed(good[s])
        /\ Len(good[s]) > BootLen
    BY <1>1 DEF CampaignInv, TypeOK, ContentInv, OwnerInv
  <2>. QED  BY <2>2, WellFormedIsReplayable
<1>. QED  BY <1>1, CampaignInvariant, PTL

=============================================================================
