------------------------ MODULE LineageCorpusProofs ------------------------
(***************************************************************************)
(* What the queue is for: the groups of a campaign are paid for by new     *)
(* coverage, and the queue of objects and indexes implements the corpus of *)
(* lineages.  Both rest on the invariant CampaignInv.                      *)
(***************************************************************************)
EXTENDS FuzzCampaignProofs, FiniteSetTheorems, SequenceTheorems

-----------------------------------------------------------------------------
(* Coverage                                                                *)

(* The bits of the map covered so far.                                     *)
Seen == Bits \ virgin_bits

(* What the run at hand has earned: one group, once something was new.     *)
Due == IF Running /\ is_total_new_coverage THEN 1 ELSE 0

PayInv == FeedbackMode = "normal" => QueueSize + Due <= Cardinality(Seen)

(* Bits are only ever removed from the virgin ones, so what was seen grows,*)
(* by one at least when a virgin bit is covered.                           *)
LEMMA SeenGrows ==
  ASSUME virgin_bits' \subseteq virgin_bits
  PROVE  /\ Cardinality(Seen) \in Nat /\ Cardinality(Seen') \in Nat
         /\ Cardinality(Seen) <= Cardinality(Seen')
         /\ \A b \in Bits : b \in virgin_bits /\ b \notin virgin_bits' =>
              Cardinality(Seen) + 1 <= Cardinality(Seen')
<1>1. IsFiniteSet(Seen) /\ IsFiniteSet(Seen')
  BY CampaignAssumption, FS_Subset DEF Seen
<1>2. Seen \subseteq Seen'
  BY DEF Seen
<1>3. /\ Cardinality(Seen) \in Nat /\ Cardinality(Seen') \in Nat
      /\ Cardinality(Seen) <= Cardinality(Seen')
  BY <1>1, <1>2, FS_CardinalityType, FS_Subset
<1>4. ASSUME NEW b \in Bits, b \in virgin_bits, b \notin virgin_bits'
      PROVE  Cardinality(Seen) + 1 <= Cardinality(Seen')
  <2>1. b \in Seen' /\ b \notin Seen
    BY <1>4 DEF Seen
  <2>2. Seen # Seen'
    BY <2>1
  <2>3. Cardinality(Seen) # Cardinality(Seen')
    BY <1>1, <1>2, <2>2, FS_Subset
  <2>. QED  BY <1>3, <2>3
<1>. QED  BY <1>3, <1>4

(* Nothing is owed and nothing is saved when the process starts.           *)
LEMMA PayInvInit == Init => PayInv
<1>. SUFFICES ASSUME Init PROVE PayInv
  OBVIOUS
<1>1. QueueSize = 0 /\ Due = 0
  BY DEF Init, QueueInit, QueueSize, Due, Running
<1>2. Cardinality(Seen) \in Nat
  BY CampaignAssumption, FS_Subset, FS_CardinalityType DEF Seen
<1>. QED  BY <1>1, <1>2 DEF PayInv

(* The steps after which no more is owed than before.                      *)
LEMMA PayKept ==
  ASSUME CampaignInv, PayInv, virgin_bits' \subseteq virgin_bits,
         QueueSize' + Due' <= QueueSize + Due, QueueSize' \in Nat
  PROVE  PayInv'
<1>1. /\ Cardinality(Seen) \in Nat /\ Cardinality(Seen') \in Nat
      /\ Cardinality(Seen) <= Cardinality(Seen')
  BY SeenGrows
<1>2. QueueSize \in Nat /\ Due \in Nat /\ Due' \in Nat
  BY QueueShape DEF CampaignInv, Due
<1>3. SUFFICES ASSUME FeedbackMode = "normal"
               PROVE  QueueSize' + Due' <= Cardinality(Seen')
  BY DEF PayInv
<1>4. QueueSize + Due <= Cardinality(Seen)
  BY <1>3 DEF PayInv
<1>5. PICK groups, due : groups = QueueSize' /\ due = Due'
  BY Zenon
<1>6. groups \in Nat /\ due \in Nat /\ groups + due <= QueueSize + Due
  BY <1>2, <1>5
<1>7. groups + due <= Cardinality(Seen')
  BY <1>1, <1>2, <1>4, <1>6
<1>. QED  BY <1>5, <1>7

(* The queue is as long as its list of groups.                             *)
LEMMA SizeKept ==
  ASSUME CampaignInv, UNCHANGED all_saved_query_sequences
  PROVE  QueueSize' = QueueSize /\ QueueSize' \in Nat
BY QueueShape DEF CampaignInv, QueueSize

(* A clean execution earns a group only by covering something new.         *)
LEMMA CleanPays ==
  ASSUME CampaignInv, PayInv, ExecuteClean
  PROVE  PayInv'
<1>1. PICK trace \in SUBSET Bits : \E keep \in KeepChoices(trace) :
        /\ virgin_bits' = virgin_bits \ trace
        /\ is_total_new_coverage' = (is_total_new_coverage \/ keep)
  BY DEF ExecuteClean, Raised, ClearBits
<1>0. PICK keep \in KeepChoices(trace) :
        /\ virgin_bits' = virgin_bits \ trace
        /\ is_total_new_coverage' = (is_total_new_coverage \/ keep)
  BY <1>1
<1>2. QueueSize' = QueueSize /\ QueueSize' \in Nat
  BY SizeKept DEF ExecuteClean, Raised, queueVars
<1>3. pc = "filled"
  BY DEF ExecuteClean, Raised
<1>4. CASE FeedbackMode = "normal" /\ NewBits(trace)
  <2>1. PICK b \in Bits : b \in virgin_bits /\ b \notin virgin_bits'
    BY <1>1, <1>4 DEF NewBits
  <2>2. Cardinality(Seen) + 1 <= Cardinality(Seen') /\ Cardinality(Seen) \in Nat
        /\ Cardinality(Seen') \in Nat
    BY <1>1, <2>1, SeenGrows
  <2>3. QueueSize + Due <= Cardinality(Seen)
    BY <1>4 DEF PayInv
  <2>4. Due \in {0, 1} /\ Due' \in {0, 1}
    BY DEF Due
  <2>. QED  BY <1>2, <2>2, <2>3, <2>4 DEF PayInv
<1>5. CASE FeedbackMode = "normal" /\ ~NewBits(trace)
  <2>1. keep = FALSE
    BY <1>0, <1>5 DEF KeepChoices
  <2>2. is_total_new_coverage' = is_total_new_coverage
    BY <1>0, <2>1 DEF CampaignInv, TypeOK
  <2>3. Due' \in {0, 1} /\ Due \in {0, 1} /\ Due' <= Due
    BY <1>3, <2>2 DEF Due, Running
  <2>4. virgin_bits' \subseteq virgin_bits
    BY <1>0
  <2>5. QueueSize \in Nat
    BY <1>2
  <2>6. QueueSize' + Due' <= QueueSize + Due
    BY <1>2, <2>3, <2>5 DEF Due
  <2>. QED  BY <1>2, <2>4, <2>6, PayKept
<1>6. CASE FeedbackMode # "normal"
  BY <1>6 DEF PayInv, FeedbackMode
<1>. QED  BY <1>4, <1>5, <1>6

(* Founding a group uses up what the run was owed.                         *)
LEMMA NewLineagePays ==
  ASSUME CampaignInv, PayInv, SaveNewLineage
  PROVE  PayInv'
<1>1. PICK copy \in Seqs : append_new_sequence_from_scratch(copy)
  BY DEF SaveNewLineage
<1>2. QueueSize' = QueueSize + 1 /\ QueueSize \in Nat
  BY <1>1, QueueShape DEF append_new_sequence_from_scratch, QueueSize,
                          CampaignInv, TypeOK, QueueTypeOK
<1>3. Due = 1
  BY DEF SaveNewLineage, WorthSaving, Due, Running
<1>4. Due' = 0 /\ virgin_bits' = virgin_bits
  BY DEF SaveNewLineage, Release, Due, Running
<1>. QED  BY <1>2, <1>3, <1>4, PayKept

(* A mutant takes the place of its original: no group is added.            *)
LEMMA ToLineagePays ==
  ASSUME CampaignInv, PayInv, SaveToLineage
  PROVE  PayInv'
<1>1. PICK copy \in Seqs : append_new_sequence_to_existing_group(copy, TRUE)
  BY DEF SaveToLineage
<1>2. QueueSize' = QueueSize /\ QueueSize' \in Nat
  BY <1>1, QueueShape DEF append_new_sequence_to_existing_group, QueueSize,
                          CampaignInv, TypeOK, QueueTypeOK
<1>3. Due' = 0 /\ virgin_bits' = virgin_bits
  BY DEF SaveToLineage, Release, Due, Running
<1>4. Due \in {0, 1}
  BY DEF Due
<1>. QED  BY <1>2, <1>3, <1>4, PayKept

(* The steps that leave the queue and what the run is owed alone.          *)
LEMMA QuietPays ==
  ASSUME CampaignInv, PayInv,
         virgin_bits' \subseteq virgin_bits,
         UNCHANGED all_saved_query_sequences,
         Running' /\ is_total_new_coverage' => Running /\ is_total_new_coverage
  PROVE  PayInv'
<1>1. Due \in {0, 1} /\ Due' \in {0, 1} /\ Due' <= Due
  BY DEF Due
<1>. QED  BY <1>1, SizeKept, PayKept

(* No step founds a group that was not paid for.                           *)
LEMMA PayInvNext == CampaignInv /\ PayInv /\ [Next]_vars => PayInv'
<1>. SUFFICES ASSUME CampaignInv, PayInv, [Next]_vars
              PROVE  PayInv'
  OBVIOUS
<1>. USE DEF queueVars
<1>1. CASE StartRun
  BY <1>1, QuietPays DEF StartRun
<1>2. CASE GenerateFromScratch
  BY <1>2, QuietPays DEF GenerateFromScratch, Running, saveVars
<1>3. CASE GenerateInserted \/ GenerateMutant
  <2>1. /\ UNCHANGED <<all_saved_query_sequences, is_total_new_coverage, virgin_bits>>
        /\ Running
    BY <1>3 DEF GenerateInserted, GenerateMutant, BorrowSaved, saveVars, Running,
                get_next_query_sequence_from_queue
  <2>. QED  BY <2>1, QuietPays
<1>4. CASE DropStmt \/ Instantiate \/ StopSignal
  BY <1>4, QuietPays DEF DropStmt, Instantiate, StopSignal, Running, saveVars
<1>5. CASE ExecuteInternalError \/ ExecuteCrash \/ ExecuteFatal
  BY <1>5, QuietPays DEF ExecuteInternalError, ExecuteCrash, ExecuteFatal,
                         Running, saveVars
<1>6. CASE ExecuteError
  <2>1. virgin_bits' \subseteq virgin_bits
    BY <1>6 DEF ExecuteError, ClearBits
  <2>. QED  BY <1>6, <2>1, QuietPays DEF ExecuteError, Running, saveVars
<1>7. CASE ExecuteClean
  BY <1>7, CleanPays
<1>8. CASE AbandonRun \/ FinishWithoutSaving
  BY <1>8, QuietPays DEF AbandonRun, FinishWithoutSaving, Release, Running
<1>9. CASE SaveNewLineage
  BY <1>9, NewLineagePays
<1>10. CASE SaveToLineage
  BY <1>10, ToLineagePays
<1>11. CASE UNCHANGED vars
  BY <1>11, QuietPays DEF vars, Running, saveVars
<1>. QED  BY <1>1, <1>2, <1>3, <1>4, <1>5, <1>6, <1>7, <1>8, <1>9, <1>10, <1>11
          DEF Next, Generate, Execute, EndRun

(* The queue stays within its bound, and its scores and its cursor with    *)
(* it; with coverage feedback there never are more groups than bits        *)
(* covered.                                                                *)
THEOREM QueueStaysBounded == Spec => []QueueBounded
<1>1. CampaignInv /\ PayInv => QueueBounded
  <2>1. SUFFICES ASSUME CampaignInv, PayInv, FeedbackMode = "normal"
                 PROVE  QueueSize <= Cardinality(Bits \ virgin_bits)
    BY DEF CampaignInv, BorrowInv, QueueBounded
  <2>2. QueueSize \in Nat /\ Due \in {0, 1}
    BY <2>1, QueueShape DEF CampaignInv, Due
  <2>3. Cardinality(Seen) \in Nat
    BY CampaignAssumption, FS_Subset, FS_CardinalityType DEF Seen
  <2>. QED  BY <2>1, <2>2, <2>3 DEF PayInv, Seen
<1>. QED  BY <1>1, CampaignInvariant, PayInvInit, PayInvNext, PTL DEF Spec

-----------------------------------------------------------------------------
(* The refinement                                                          *)

(* The four variables of the corpus, as the instance maps them.            *)
CorpusView == [g \in 1..QueueSize |-> good[Last(all_saved_query_sequences[g])]]
PickedView == IF p_saved_query_sequence = Nil THEN -1 ELSE current_chosen_seq_idx
DraftView == IF p_query_sequence = Nil THEN <<>> ELSE good[p_query_sequence]

(* A lineage is represented by the one object of its group.                *)
LEMMA CorpusShape ==
  ASSUME CampaignInv
  PROVE  /\ CorpusView = [g \in 1..QueueSize |-> good[all_saved_query_sequences[g][1]]]
         /\ CorpusView \in Seq(Seq(Kind)) /\ Len(CorpusView) = QueueSize
         /\ QueueSize \in Nat
         /\ \A g \in 1..QueueSize :
              /\ all_saved_query_sequences[g][1] \in Owned
              /\ all_saved_query_sequences[g][1] \in Seqs
<1>. USE DEF CampaignInv
<1>1. /\ QueueSize \in Nat /\ DOMAIN all_saved_query_sequences = 1..QueueSize
      /\ \A g \in 1..QueueSize : all_saved_query_sequences[g] \in Seq(Seqs)
  BY QueueShape
<1>2. ASSUME NEW g \in 1..QueueSize
      PROVE  /\ Last(all_saved_query_sequences[g]) = all_saved_query_sequences[g][1]
             /\ all_saved_query_sequences[g][1] \in Owned
             /\ all_saved_query_sequences[g][1] \in Seqs
  <2>1. Len(all_saved_query_sequences[g]) = 1 /\ all_saved_query_sequences[g] \in Seq(Seqs)
    BY <1>1 DEF OwnerInv
  <2>2. Last(all_saved_query_sequences[g]) = all_saved_query_sequences[g][1]
    BY <2>1 DEF Last
  <2>3. all_saved_query_sequences[g][1] \in Seqs
    BY <2>1
  <2>4. all_saved_query_sequences[g][1] \in Owned
    BY <1>1 DEF Owned
  <2>. QED  BY <2>2, <2>3, <2>4
<1>3. CorpusView = [g \in 1..QueueSize |-> good[all_saved_query_sequences[g][1]]]
  BY <1>2 DEF CorpusView
<1>4. \A g \in 1..QueueSize : good[all_saved_query_sequences[g][1]] \in Seq(Kind)
  BY <1>2 DEF TypeOK
<1>5. CorpusView \in Seq(Seq(Kind)) /\ Len(CorpusView) = QueueSize
  BY <1>1, <1>3, <1>4
<1>. QED  BY <1>1, <1>2, <1>3, <1>5

(* The corpus, read through the one object of every group.                 *)
ByObject ==
  CorpusView = [g \in 1..QueueSize |-> good[all_saved_query_sequences[g][1]]]

(* So it is in the state after a step.                                    *)
LEMMA CorpusShapeNext == CampaignInv' => ByObject'
<1>1. CampaignInv => ByObject
  BY CorpusShape DEF ByObject
<1>. QED  BY <1>1, PTL

(* The corpus stays the same when the groups and what they own do.         *)
LEMMA CorpusKept ==
  ASSUME CampaignInv, CampaignInv', UNCHANGED all_saved_query_sequences,
         \A s \in Owned : good'[s] = good[s]
  PROVE  CorpusView' = CorpusView
<1>1. /\ CorpusView = [g \in 1..QueueSize |-> good[all_saved_query_sequences[g][1]]]
      /\ \A g \in 1..QueueSize : all_saved_query_sequences[g][1] \in Owned
  BY CorpusShape
<1>2. QueueSize' = QueueSize
  BY SizeKept
<1>3. CorpusView' = [g \in 1..QueueSize' |-> good'[all_saved_query_sequences'[g][1]]]
  BY CorpusShapeNext DEF ByObject
<1>. QED  BY <1>1, <1>2, <1>3

(* A run has a draft, and it is not empty; between runs there is none.     *)
LEMMA DraftShape ==
  ASSUME CampaignInv, p_query_sequence # Nil
  PROVE  /\ p_query_sequence \in Seqs /\ p_query_sequence \notin Owned
         /\ p_query_sequence \in live
         /\ DraftView = good[p_query_sequence] /\ DraftView \in Seq(Kind)
         /\ DraftView # <<>>
<1>. USE DEF CampaignInv
<1>1. /\ p_query_sequence \in Seqs /\ p_query_sequence \notin Owned
      /\ p_query_sequence \in live
  BY DEF TypeOK, OwnerInv, OfRun
<1>2. good[p_query_sequence] \in Seq(Kind) /\ WellFormed(good[p_query_sequence])
  BY <1>1 DEF TypeOK, ContentInv
<1>3. good[p_query_sequence] # <<>>
  BY <1>2, CampaignAssumption DEF WellFormed
<1>. QED  BY <1>1, <1>2, <1>3 DEF DraftView

(* The process starts with an empty corpus and no draft.                   *)
LEMMA CorpusInit == Init => Corpus!Init
<1>. SUFFICES ASSUME Init PROVE Corpus!Init
  OBVIOUS
<1>1. QueueSize = 0 /\ current_queue_iter = 0
  BY DEF Init, QueueInit, QueueSize
<1>2. p_query_sequence = Nil /\ p_saved_query_sequence = Nil
  BY DEF Init
<1>3. [g \in 1..QueueSize |-> good[Last(all_saved_query_sequences[g])]] = <<>>
  BY <1>1
<1>. QED  BY <1>1, <1>2, <1>3 DEF Corpus!Init, Corpus!None

(* The steps that the corpus does not see.                                 *)
LEMMA UnseenStep ==
  ASSUME CampaignInv, CampaignInv',
         UNCHANGED <<good, p_query_sequence, p_saved_query_sequence, queueVars>>
  PROVE  UNCHANGED Corpus!corpusVars
<1>1. CorpusView' = CorpusView
  BY CorpusKept DEF queueVars
<1>2. PickedView' = PickedView /\ DraftView' = DraftView
  BY DEF PickedView, DraftView, queueVars
<1>3. current_queue_iter' = current_queue_iter
  BY DEF queueVars
<1>. QED  BY <1>1, <1>2, <1>3 DEF Corpus!corpusVars, CorpusView, PickedView, DraftView

(* The bootstrap opens the draft.                                          *)
LEMMA StartRunBegins ==
  ASSUME CampaignInv, CampaignInv', StartRun
  PROVE  Corpus!Begin
<1>. USE DEF CampaignInv
<1>1. PICK s \in Seqs \ live :
        /\ good' = [good EXCEPT ![s] = Bootstrap]
        /\ p_query_sequence' = s
  BY DEF StartRun
<1>2. p_query_sequence = Nil /\ p_saved_query_sequence = Nil /\ UNCHANGED queueVars
      /\ p_saved_query_sequence' = Nil
  BY DEF StartRun, PhaseInv
<1>3. s # Nil /\ s \notin Owned /\ Owned \subseteq Seqs
  BY NilAssumption DEF OwnerInv, TypeOK
<1>4. CorpusView' = CorpusView
  <2>1. \A o \in Owned : good'[o] = good[o]
    BY <1>1, <1>3 DEF TypeOK
  <2>. QED  BY <1>2, <2>1, CorpusKept DEF queueVars
<1>5. DraftView = <<>> /\ DraftView' = Bootstrap
  BY <1>1, <1>2, <1>3 DEF DraftView, TypeOK
<1>6. PickedView' = PickedView /\ current_queue_iter' = current_queue_iter
  BY <1>2 DEF PickedView, queueVars
<1>. QED  BY <1>4, <1>5, <1>6 DEF Corpus!Begin, CorpusView, PickedView, DraftView

(* Borrowing for the first time picks the next lineage; later it is not    *)
(* seen.                                                                   *)
LEMMA BorrowPicks ==
  ASSUME CampaignInv, CampaignInv', BorrowSaved
  PROVE  Corpus!Pick \/ UNCHANGED Corpus!corpusVars
<1>. USE DEF CampaignInv
<1>1. CASE p_saved_query_sequence # Nil
  <2>1. UNCHANGED <<good, p_query_sequence, p_saved_query_sequence, queueVars>>
    BY <1>1 DEF BorrowSaved, Saved
  <2>. QED  BY <2>1, UnseenStep
<1>2. CASE p_saved_query_sequence = Nil
  <2>1. /\ QueueSize > 0 /\ NextGroup \in 0..(QueueSize - 1) /\ Saved # Nil
    BY SavedIsOwned DEF BorrowSaved
  <2>2. /\ current_chosen_seq_idx' = NextGroup /\ current_queue_iter' = NextGroup + 1
        /\ UNCHANGED <<all_saved_query_sequences, good, p_query_sequence>>
        /\ p_saved_query_sequence' = Saved
    BY <1>2 DEF BorrowSaved, get_next_query_sequence_from_queue
  <2>3. CorpusView' = CorpusView
    BY <2>2, CorpusKept
  <2>4. Len(CorpusView) = QueueSize /\ QueueSize \in Nat /\ CorpusView # <<>>
    BY <2>1, CorpusShape
  <2>5. p_query_sequence # Nil
    BY DEF BorrowSaved, PhaseInv, Running
  <2>6. DraftView # <<>> /\ DraftView' = DraftView
    BY <2>2, <2>5, DraftShape DEF DraftView
  <2>7. PickedView = -1 /\ PickedView' = NextGroup
    BY <1>2, <2>1, <2>2 DEF PickedView
  <2>8. NextGroup = current_queue_iter % Len(CorpusView)
    <3>1. current_queue_iter \in 0..QueueSize
      BY <2>4 DEF BorrowInv, TypeOK, QueueTypeOK
    <3>2. CASE current_queue_iter = QueueSize
      BY <2>1, <2>4, <3>2 DEF NextGroup
    <3>3. CASE current_queue_iter # QueueSize
      BY <2>1, <2>4, <3>1, <3>3 DEF NextGroup
    <3>. QED  BY <3>2, <3>3
  <2>9. Corpus!Pick
    BY <2>2, <2>3, <2>4, <2>6, <2>7, <2>8
       DEF Corpus!Pick, Corpus!None, CorpusView, PickedView, DraftView
  <2>. QED  BY <2>9
<1>. QED  BY <1>1, <1>2

(* A statement that is appended is written to the draft.                   *)
LEMMA AppendWrites ==
  ASSUME CampaignInv, CampaignInv', pc = "filled",
         NEW kind \in Kind, AppendGood(kind),
         UNCHANGED <<p_query_sequence, p_saved_query_sequence, queueVars>>
  PROVE  Corpus!Write
<1>. USE DEF CampaignInv
<1>1. p_query_sequence # Nil
  BY DEF PhaseInv, Running
<1>2. /\ p_query_sequence \in Seqs /\ p_query_sequence \notin Owned
      /\ DraftView = good[p_query_sequence] /\ DraftView # <<>>
  BY <1>1, DraftShape
<1>3. good' = [good EXCEPT ![p_query_sequence] = Append(@, kind)]
  BY DEF AppendGood
<1>4. CorpusView' = CorpusView
  <2>1. Owned \subseteq Seqs
    BY DEF OwnerInv, TypeOK
  <2>2. \A o \in Owned : good'[o] = good[o]
    BY <1>2, <1>3, <2>1 DEF TypeOK
  <2>. QED  BY <2>2, CorpusKept DEF queueVars
<1>5. DraftView' = Append(DraftView, kind)
  BY <1>1, <1>2, <1>3 DEF DraftView, TypeOK
<1>6. PickedView' = PickedView /\ current_queue_iter' = current_queue_iter
  BY DEF PickedView, queueVars
<1>. QED  BY <1>2, <1>4, <1>5, <1>6
          DEF Corpus!Write, CorpusView, PickedView, DraftView

(* A run that is not saved discards its draft.                             *)
LEMMA EndDiscards ==
  ASSUME CampaignInv, CampaignInv', AbandonRun \/ FinishWithoutSaving
  PROVE  Corpus!Discard
<1>. USE DEF CampaignInv
<1>1. /\ pc \in {"generated", "finish"}
      /\ Release({p_query_sequence}, good, previous_sequence)
      /\ UNCHANGED queueVars
  BY DEF AbandonRun, FinishWithoutSaving
<1>2. p_query_sequence # Nil
  BY <1>1 DEF PhaseInv, Running
<1>3. DraftView # <<>> /\ p_query_sequence \notin Owned
  BY <1>2, DraftShape
<1>4. CorpusView' = CorpusView
  <2>1. Owned \subseteq Seqs
    BY DEF OwnerInv, TypeOK
  <2>2. \A o \in Owned : good'[o] = good[o]
    BY <1>1, <1>3, <2>1 DEF Release
  <2>. QED  BY <1>1, <2>2, CorpusKept DEF queueVars
<1>5. DraftView' = <<>> /\ PickedView' = -1
  BY <1>1 DEF Release, DraftView, PickedView
<1>6. current_queue_iter' = current_queue_iter
  BY <1>1 DEF queueVars
<1>. QED  BY <1>3, <1>4, <1>5, <1>6
          DEF Corpus!Discard, Corpus!Finish, Corpus!None, CorpusView, PickedView, DraftView

(* A run from scratch founds a lineage with its draft.                     *)
LEMMA NewLineageFounds ==
  ASSUME CampaignInv, CampaignInv', SaveNewLineage
  PROVE  Corpus!Found
<1>. USE DEF CampaignInv
<1>1. PICK copy \in Seqs \ live :
        /\ append_new_sequence_from_scratch(copy)
        /\ Release({p_query_sequence},
                   [good EXCEPT ![copy] = good[p_query_sequence]],
                   [previous_sequence EXCEPT
                      ![copy] = previous_sequence[p_query_sequence]])
  BY DEF SaveNewLineage
<1>2. pc = "finish" /\ gen_mode = "GenAllFromNew" /\ p_query_sequence # Nil
  BY DEF SaveNewLineage, PhaseInv, Running
<1>3. /\ p_query_sequence \in Seqs /\ p_query_sequence \notin Owned
      /\ p_query_sequence \in live
      /\ DraftView = good[p_query_sequence] /\ DraftView \in Seq(Kind)
      /\ DraftView # <<>>
  BY <1>2, DraftShape
<1>4. /\ CorpusView = [g \in 1..QueueSize |-> good[all_saved_query_sequences[g][1]]]
      /\ CorpusView \in Seq(Seq(Kind)) /\ Len(CorpusView) = QueueSize
      /\ QueueSize \in Nat
      /\ \A g \in 1..QueueSize : /\ all_saved_query_sequences[g][1] \in Owned
                                 /\ all_saved_query_sequences[g][1] \in Seqs
  BY CorpusShape
<1>5. CorpusView' = [g \in 1..QueueSize' |-> good'[all_saved_query_sequences'[g][1]]]
  BY CorpusShapeNext DEF ByObject
<1>6. /\ QueueSize' = QueueSize + 1
      /\ all_saved_query_sequences'[QueueSize + 1] = <<copy>>
      /\ \A g \in 1..QueueSize :
           all_saved_query_sequences'[g] = all_saved_query_sequences[g]
  <2>1. all_saved_query_sequences \in Seq(Seq(Seqs)) /\ <<copy>> \in Seq(Seqs)
    BY DEF TypeOK, QueueTypeOK
  <2>2. all_saved_query_sequences' = Append(all_saved_query_sequences, <<copy>>)
    BY <1>1 DEF append_new_sequence_from_scratch
  <2>. QED  BY <2>1, <2>2 DEF QueueSize
<1>7. good'[copy] = DraftView /\ \A o \in Owned : good'[o] = good[o]
  <2>1. Owned \subseteq Seqs /\ copy \notin Owned /\ copy # p_query_sequence
    BY <1>3 DEF OwnerInv, TypeOK
  <2>2. good' = [s \in Seqs |->
                   IF s = p_query_sequence THEN <<>>
                   ELSE [good EXCEPT ![copy] = good[p_query_sequence]][s]]
    BY <1>1 DEF Release
  <2>. QED  BY <1>3, <2>1, <2>2 DEF TypeOK
<1>8. CorpusView' = Append(CorpusView, DraftView)
  <2>1. Append(CorpusView, DraftView) =
          [g \in 1..(QueueSize + 1) |->
             IF g = QueueSize + 1 THEN DraftView ELSE CorpusView[g]]
    BY <1>3, <1>4
  <2>2. ASSUME NEW g \in 1..(QueueSize + 1)
        PROVE  good'[all_saved_query_sequences'[g][1]] =
                 IF g = QueueSize + 1 THEN DraftView ELSE CorpusView[g]
    <3>1. CASE g = QueueSize + 1
      BY <1>6, <1>7, <3>1
    <3>2. CASE g # QueueSize + 1
      <4>1. g \in 1..QueueSize
        BY <1>4, <3>2
      <4>. QED  BY <1>4, <1>6, <1>7, <3>2, <4>1
    <3>. QED  BY <3>1, <3>2
  <2>. QED  BY <1>5, <1>6, <2>1, <2>2
<1>9. PickedView = -1
  BY <1>2 DEF PickedView, BorrowInv
<1>10. DraftView' = <<>> /\ PickedView' = -1
  BY <1>1 DEF Release, DraftView, PickedView
<1>11. current_queue_iter' = current_queue_iter
  BY <1>1 DEF append_new_sequence_from_scratch
<1>. QED  BY <1>3, <1>8, <1>9, <1>10, <1>11
          DEF Corpus!Found, Corpus!Finish, Corpus!None, CorpusView, PickedView, DraftView

(* A mutating run replaces the lineage it picked, and no other.            *)
LEMMA ToLineageImproves ==
  ASSUME CampaignInv, CampaignInv', SaveToLineage
  PROVE  Corpus!Improve
<1>. USE DEF CampaignInv
<1>. DEFINE cell == current_chosen_seq_idx + 1
            freed == DisplacedBy(TRUE) \cup {p_query_sequence}
<1>1. PICK copy \in Seqs \ live :
        /\ append_new_sequence_to_existing_group(copy, TRUE)
        /\ repeat_previous_query_seq
        /\ Release(freed,
                   [good EXCEPT ![copy] = good[p_query_sequence]],
                   [previous_sequence EXCEPT ![copy] = Nil])
  BY DEF SaveToLineage, PredecessorIn
<1>2. /\ pc = "finish" /\ gen_mode # "GenAllFromNew" /\ p_query_sequence # Nil
      /\ p_saved_query_sequence # Nil
  BY DEF SaveToLineage, PhaseInv, Running, BorrowInv, TypeOK
<1>3. /\ p_query_sequence \in Seqs /\ p_query_sequence \notin Owned
      /\ p_query_sequence \in live
      /\ DraftView = good[p_query_sequence] /\ DraftView # <<>>
      /\ DraftView \in Seq(Kind)
  BY <1>2, DraftShape
<1>4. /\ CorpusView = [g \in 1..QueueSize |-> good[all_saved_query_sequences[g][1]]]
      /\ CorpusView \in Seq(Seq(Kind)) /\ Len(CorpusView) = QueueSize
      /\ QueueSize \in Nat
      /\ \A g \in 1..QueueSize : /\ all_saved_query_sequences[g][1] \in Owned
                                 /\ all_saved_query_sequences[g][1] \in Seqs
  BY CorpusShape
<1>5. CorpusView' = [g \in 1..QueueSize' |-> good'[all_saved_query_sequences'[g][1]]]
  BY CorpusShapeNext DEF ByObject
<1>6. /\ cell \in 1..QueueSize /\ current_chosen_seq_idx \in Nat
      /\ current_queue_iter = cell
      /\ p_saved_query_sequence = all_saved_query_sequences[cell][1]
      /\ DOMAIN all_saved_query_sequences = 1..QueueSize
  <2>1. current_chosen_seq_idx \in Nat
    BY DEF TypeOK, QueueTypeOK
  <2>2. /\ current_chosen_seq_idx < QueueSize /\ current_queue_iter = cell
        /\ p_saved_query_sequence = all_saved_query_sequences[cell][1]
    BY <1>2 DEF BorrowInv, Group
  <2>3. DOMAIN all_saved_query_sequences = 1..QueueSize
    BY QueueShape
  <2>. QED  BY <1>4, <2>1, <2>2, <2>3
<1>7. freed = {p_saved_query_sequence, p_query_sequence}
  <2>1. Len(all_saved_query_sequences[cell]) = 1
    BY <1>6 DEF OwnerInv
  <2>2. DisplacedBy(TRUE) = {p_saved_query_sequence}
    BY <1>6, <2>1 DEF DisplacedBy, Group, ToSet
  <2>. QED  BY <2>2
<1>. HIDE DEF cell, freed
<1>8. all_saved_query_sequences' = [all_saved_query_sequences EXCEPT ![cell] = <<copy>>]
  BY <1>1, <1>6 DEF append_new_sequence_to_existing_group, cell
<1>9. /\ QueueSize' = QueueSize
      /\ all_saved_query_sequences'[cell] = <<copy>>
      /\ \A g \in 1..QueueSize : g # cell =>
           all_saved_query_sequences'[g] = all_saved_query_sequences[g]
  BY <1>4, <1>6, <1>8 DEF QueueSize, TypeOK, QueueTypeOK
<1>10. good'[copy] = DraftView
       /\ \A o \in Owned : o # p_saved_query_sequence => good'[o] = good[o]
  <2>1. /\ Owned \subseteq Seqs /\ copy \notin Owned /\ copy # p_query_sequence
        /\ p_saved_query_sequence \in Owned
    BY <1>3, <1>4, <1>6 DEF OwnerInv, TypeOK
  <2>2. good' = [s \in Seqs |->
                   IF s \in freed THEN <<>>
                   ELSE [good EXCEPT ![copy] = good[p_query_sequence]][s]]
    BY <1>1 DEF Release
  <2>. QED  BY <1>3, <1>7, <2>1, <2>2 DEF TypeOK
<1>11. CorpusView' = [CorpusView EXCEPT ![cell] = DraftView]
  <2>1. ASSUME NEW g \in 1..QueueSize
        PROVE  good'[all_saved_query_sequences'[g][1]] =
                 IF g = cell THEN DraftView ELSE CorpusView[g]
    <3>1. CASE g = cell
      BY <1>9, <1>10, <3>1
    <3>2. CASE g # cell
      <4>1. all_saved_query_sequences[g][1] # p_saved_query_sequence
        BY <1>6, <3>2 DEF OwnerInv
      <4>2. all_saved_query_sequences[g][1] \in Owned
        BY <1>4
      <4>3. good'[all_saved_query_sequences'[g][1]] = good[all_saved_query_sequences[g][1]]
        BY <1>9, <1>10, <3>2, <4>1, <4>2
      <4>. QED  BY <1>4, <3>2, <4>3
    <3>. QED  BY <3>1, <3>2
  <2>2. [CorpusView EXCEPT ![cell] = DraftView] =
          [g \in 1..QueueSize |-> IF g = cell THEN DraftView ELSE CorpusView[g]]
    BY <1>4
  <2>. QED  BY <1>5, <1>9, <2>1, <2>2
<1>12. PickedView = current_chosen_seq_idx /\ PickedView # -1 /\ PickedView + 1 = cell
  BY <1>2, <1>6 DEF PickedView, cell
<1>13. DraftView' = <<>> /\ PickedView' = -1
  BY <1>1 DEF Release, DraftView, PickedView
<1>14. current_queue_iter' = PickedView
  BY <1>1, <1>6, <1>12 DEF repeat_previous_query_seq
<1>15. CorpusView' = [CorpusView EXCEPT ![PickedView + 1] = DraftView]
  BY <1>11, <1>12
<1>. QED  BY <1>3, <1>12, <1>13, <1>14, <1>15
          DEF Corpus!Improve, Corpus!Finish, Corpus!None, CorpusView, PickedView, DraftView

(* Every step of the loop is a step of the corpus or is not seen by it.    *)
LEMMA CorpusNext ==
  CampaignInv /\ CampaignInv' /\ [Next]_vars => [Corpus!Next]_(Corpus!corpusVars)
<1>. SUFFICES ASSUME CampaignInv, CampaignInv', [Next]_vars
              PROVE  [Corpus!Next]_(Corpus!corpusVars)
  OBVIOUS
<1>. USE DEF Corpus!Next
<1>1. CASE StartRun
  BY <1>1, StartRunBegins
<1>2. CASE GenerateInserted \/ GenerateMutant
  BY <1>2, BorrowPicks DEF GenerateInserted, GenerateMutant
<1>3. CASE \/ GenerateFromScratch \/ DropStmt \/ Instantiate \/ StopSignal
           \/ ExecuteInternalError \/ UNCHANGED vars
  <2>1. UNCHANGED <<good, p_query_sequence, p_saved_query_sequence, queueVars>>
    BY <1>3 DEF GenerateFromScratch, DropStmt, Instantiate, StopSignal,
                ExecuteInternalError, vars, heapVars, genVars
  <2>. QED  BY <2>1, UnseenStep
<1>4. CASE ExecuteClean \/ ExecuteFatal
  <2>1. /\ pc = "filled" /\ AppendGood("filled") /\ "filled" \in Kind
        /\ UNCHANGED <<p_query_sequence, p_saved_query_sequence, queueVars>>
    BY <1>4 DEF ExecuteClean, Raised, ExecuteFatal, genVars, Kind
  <2>. QED  BY <2>1, AppendWrites
<1>5. CASE ExecuteCrash
  <2>1. /\ pc = "filled" /\ AppendGood("crasher") /\ "crasher" \in Kind
        /\ UNCHANGED <<p_query_sequence, p_saved_query_sequence, queueVars>>
    BY <1>5 DEF ExecuteCrash, genVars, Kind
  <2>. QED  BY <2>1, AppendWrites
<1>6. CASE ExecuteError
  <2>1. pc = "filled" /\ UNCHANGED <<p_query_sequence, p_saved_query_sequence, queueVars>>
    BY <1>6 DEF ExecuteError, genVars
  <2>2. CASE cur_stmt.original = 0
    <3>1. UNCHANGED good
      BY <1>6, <2>2 DEF ExecuteError, heapVars
    <3>. QED  BY <2>1, <3>1, UnseenStep
  <2>3. CASE cur_stmt.original # 0
    <3>. DEFINE kind == good[p_saved_query_sequence][cur_stmt.original]
    <3>1. AppendGood(kind)
      BY <1>6, <2>3 DEF ExecuteError
    <3>2. kind \in Kind
      <4>1. p_saved_query_sequence \in Seqs
        BY <2>3 DEF CampaignInv, StmtInv, TypeOK
      <4>2. good[p_saved_query_sequence] \in Seq(Kind)
        BY <4>1 DEF CampaignInv, TypeOK
      <4>3. cur_stmt.original \in DOMAIN good[p_saved_query_sequence]
        BY <2>3 DEF CampaignInv, StmtInv
      <4>. QED  BY <4>2, <4>3
    <3>. HIDE DEF kind
    <3>. QED  BY <2>1, <3>1, <3>2, AppendWrites
  <2>. QED  BY <2>2, <2>3
<1>7. CASE AbandonRun \/ FinishWithoutSaving
  BY <1>7, EndDiscards
<1>8. CASE SaveNewLineage
  BY <1>8, NewLineageFounds
<1>9. CASE SaveToLineage
  BY <1>9, ToLineageImproves
<1>. QED  BY <1>1, <1>2, <1>3, <1>4, <1>5, <1>6, <1>7, <1>8, <1>9
          DEF Next, Generate, Execute, EndRun

(* The queue of objects, groups and indexes implements the corpus: round   *)
(* robin, and a run replaces the lineage it picked or adds one.            *)
THEOREM QueueImplementsCorpus == Spec => ImplementsCorpus
BY CorpusInit, CorpusNext, CampaignInvariant, PTL
   DEF Spec, ImplementsCorpus, Corpus!Spec

-----------------------------------------------------------------------------
(* Turns                                                                   *)

(* A run that covered something new and is not saved yet.                  *)
Pending == IF p_query_sequence # Nil /\ is_total_new_coverage THEN 1 ELSE 0

(* Virgin bits are only ever removed: their number does not grow, and one  *)
(* bit that is covered makes it fall.                                      *)
LEMMA VirginShrinks ==
  ASSUME CampaignInv, virgin_bits' \subseteq virgin_bits
  PROVE  /\ Cardinality(virgin_bits) \in Nat /\ Cardinality(virgin_bits') \in Nat
         /\ virgin_bits' # virgin_bits =>
              Cardinality(virgin_bits') + 1 <= Cardinality(virgin_bits)
<1>1. IsFiniteSet(virgin_bits) /\ IsFiniteSet(virgin_bits')
  BY CampaignAssumption, FS_Subset DEF CampaignInv, TypeOK
<1>2. /\ Cardinality(virgin_bits) \in Nat /\ Cardinality(virgin_bits') \in Nat
      /\ Cardinality(virgin_bits') <= Cardinality(virgin_bits)
  BY <1>1, FS_CardinalityType, FS_Subset
<1>3. ASSUME virgin_bits' # virgin_bits
      PROVE  Cardinality(virgin_bits') # Cardinality(virgin_bits)
  BY <1>1, <1>3, FS_Subset
<1>. QED  BY <1>2, <1>3

(* A bit of the map that is covered, or the end of a run that covered one, *)
(* uses up debt: a covered bit more than the run it makes pending adds.    *)
LEMMA DebtFalls ==
  ASSUME CampaignInv, virgin_bits' \subseteq virgin_bits,
         virgin_bits' # virgin_bits \/ Pending' < Pending
  PROVE  Debt' < Debt
<1>1. PICK before, after : /\ before = Cardinality(virgin_bits)
                           /\ after = Cardinality(virgin_bits')
  BY Zenon
<1>2. PICK due, left : due = Pending /\ left = Pending'
  BY Zenon
<1>3. due \in {0, 1} /\ left \in {0, 1}
  BY <1>2 DEF Pending
<1>4. /\ before \in Nat /\ after \in Nat
      /\ virgin_bits' # virgin_bits => after + 1 <= before
  BY <1>1, VirginShrinks
<1>5. Debt = 2 * before + due /\ Debt' = 2 * after + left
  BY <1>1, <1>2 DEF Debt, Pending
<1>6. 2 * after + left < 2 * before + due
  <2>1. CASE virgin_bits' # virgin_bits
    BY <1>3, <1>4, <2>1
  <2>2. CASE virgin_bits' = virgin_bits
    <3>1. after = before
      BY <1>1, <2>2
    <3>2. left < due
      BY <1>2, <2>2
    <3>. QED  BY <1>3, <1>4, <3>1, <3>2
  <2>. QED  BY <2>1, <2>2
<1>. QED  BY <1>5, <1>6

(* A step that picks no lineage and moves none leaves every turn where it  *)
(* is, or uses up debt.                                                    *)
LEMMA TurnKept ==
  ASSUME CampaignInv, UNCHANGED queueVars, ~Picking,
         virgin_bits' \subseteq virgin_bits,
         \/ virgin_bits' # virgin_bits
         \/ Pending' < Pending
         \/ Pending' = Pending,
         NEW g \in 0..(QueueSize - 1)
  PROVE  TurnComesCloser(g)
<1>1. CASE virgin_bits' # virgin_bits \/ Pending' < Pending
  BY <1>1, DebtFalls DEF TurnComesCloser
<1>2. CASE virgin_bits' = virgin_bits /\ Pending' = Pending
  <2>1. Debt' = Debt
    BY <1>2 DEF Debt, Pending
  <2>2. TurnsUntil(g)' = TurnsUntil(g)
    BY DEF TurnsUntil, QueueSize, queueVars
  <2>3. TurnsUntil(g) \in Int
    BY QueueShape DEF CampaignInv, TypeOK, QueueTypeOK, TurnsUntil
  <2>. QED  BY <2>1, <2>2, <2>3 DEF TurnComesCloser
<1>. QED  BY <1>1, <1>2

(* Borrowing for the first time picks the lineage whose turn it is; all    *)
(* the others are one turn closer then, around the end of the queue too.   *)
LEMMA BorrowComesCloser ==
  ASSUME CampaignInv, BorrowSaved, NEW g \in 0..(QueueSize - 1)
  PROVE  TurnComesCloser(g)
<1>1. Pending' = Pending /\ UNCHANGED virgin_bits
  BY DEF BorrowSaved, Pending, saveVars
<1>2. CASE p_saved_query_sequence # Nil
  <2>1. UNCHANGED queueVars /\ ~Picking
    BY <1>2 DEF BorrowSaved, Picking
  <2>. QED  BY <1>1, <2>1, TurnKept
<1>3. CASE p_saved_query_sequence = Nil
  <2>1. /\ QueueSize > 0 /\ NextGroup \in 0..(QueueSize - 1) /\ Saved # Nil
    BY SavedIsOwned DEF BorrowSaved
  <2>2. /\ current_chosen_seq_idx' = NextGroup /\ current_queue_iter' = NextGroup + 1
        /\ UNCHANGED all_saved_query_sequences
        /\ p_saved_query_sequence' = Saved
    BY <1>3 DEF BorrowSaved, get_next_query_sequence_from_queue
  <2>3. Picking
    BY <1>3, <2>1, <2>2 DEF Picking
  <2>4. Debt' = Debt
    BY <1>1 DEF Debt, Pending
  <2>5. CASE g = NextGroup
    BY <2>2, <2>3, <2>5 DEF TurnComesCloser
  <2>6. CASE g # NextGroup
    <3>1. QueueSize \in Nat /\ current_queue_iter \in 0..QueueSize
      BY QueueShape DEF CampaignInv, BorrowInv, TypeOK, QueueTypeOK
    <3>2. QueueSize' = QueueSize
      BY <2>2 DEF QueueSize
    <3>3. PICK size, turn, next : /\ size = QueueSize /\ turn = current_queue_iter
                                  /\ next = NextGroup
      BY Zenon
    <3>4. TurnsUntil(g) = IF turn <= g THEN g - turn ELSE size - turn + g
      BY <3>3 DEF TurnsUntil
    <3>5. TurnsUntil(g)' = IF next + 1 <= g THEN g - (next + 1)
                           ELSE size - (next + 1) + g
      BY <2>2, <3>2, <3>3 DEF TurnsUntil
    <3>6. next = IF turn = size THEN 0 ELSE turn
      BY <3>3 DEF NextGroup
    <3>7. /\ size \in Nat /\ turn \in 0..size /\ g \in 0..(size - 1) /\ g # next
      BY <2>6, <3>1, <3>3
    <3>8. TurnsUntil(g)' = TurnsUntil(g) - 1
      BY <3>4, <3>5, <3>6, <3>7
    <3>. QED  BY <2>3, <2>4, <3>8 DEF TurnComesCloser
  <2>. QED  BY <2>5, <2>6
<1>. QED  BY <1>2, <1>3

(* The end of a run gives up what was pending: a run that is saved had     *)
(* something to give up.                                                   *)
LEMMA EndComesCloser ==
  ASSUME CampaignInv, EndRun, NEW g \in 0..(QueueSize - 1)
  PROVE  TurnComesCloser(g)
<1>1. p_query_sequence # Nil
  BY DEF EndRun, AbandonRun, FinishWithoutSaving, SaveNewLineage, SaveToLineage,
         CampaignInv, PhaseInv, Running
<1>2. p_query_sequence' = Nil /\ p_saved_query_sequence' = Nil /\ UNCHANGED virgin_bits
  BY DEF EndRun, AbandonRun, FinishWithoutSaving, SaveNewLineage, SaveToLineage, Release
<1>3. Pending' = 0 /\ Pending \in {0, 1} /\ ~Picking
  BY <1>2 DEF Pending, Picking
<1>4. CASE AbandonRun \/ FinishWithoutSaving
  <2>1. UNCHANGED queueVars
    BY <1>4 DEF AbandonRun, FinishWithoutSaving
  <2>2. Pending' < Pending \/ Pending' = Pending
    BY <1>3
  <2>. QED  BY <1>2, <1>3, <2>1, <2>2, TurnKept
<1>5. CASE SaveNewLineage \/ SaveToLineage
  <2>1. Pending = 1
    BY <1>1, <1>5 DEF SaveNewLineage, SaveToLineage, WorthSaving, Pending
  <2>. QED  BY <1>2, <1>3, <2>1, DebtFalls DEF TurnComesCloser
<1>. QED  BY <1>4, <1>5 DEF EndRun

(* A statement that ran without fault makes a run pending only by a bit it *)
(* was the first to cover.                                                 *)
LEMMA CleanComesCloser ==
  ASSUME CampaignInv, FeedbackMode = "normal", ExecuteClean,
         NEW g \in 0..(QueueSize - 1)
  PROVE  TurnComesCloser(g)
<1>1. UNCHANGED <<queueVars, p_query_sequence, p_saved_query_sequence>>
  BY DEF ExecuteClean, Raised, genVars
<1>2. PICK trace \in SUBSET Bits :
        /\ virgin_bits' = virgin_bits \ trace
        /\ is_total_new_coverage' = (is_total_new_coverage \/ NewBits(trace))
  BY DEF ExecuteClean, Raised, KeepChoices, ClearBits
<1>3. ~Picking /\ virgin_bits' \subseteq virgin_bits
  BY <1>1, <1>2 DEF Picking
<1>4. virgin_bits' # virgin_bits \/ Pending' = Pending
  <2>1. CASE NewBits(trace)
    BY <1>2, <2>1 DEF NewBits
  <2>2. CASE ~NewBits(trace)
    BY <1>1, <1>2, <2>2 DEF Pending, CampaignInv, TypeOK
  <2>. QED  BY <2>1, <2>2
<1>. QED  BY <1>1, <1>3, <1>4, TurnKept DEF queueVars

(* Every step of the loop brings every turn closer in this sense.          *)
LEMMA StepComesCloser ==
  CampaignInv /\ [Next]_vars =>
    [FeedbackMode = "normal" =>
       \A g \in 0..(QueueSize - 1) : TurnComesCloser(g)]_vars
<1>. SUFFICES ASSUME CampaignInv, Next, FeedbackMode = "normal",
                     NEW g \in 0..(QueueSize - 1)
              PROVE  TurnComesCloser(g)
  OBVIOUS
<1>1. CASE StartRun
  <2>1. /\ p_query_sequence = Nil /\ p_saved_query_sequence' = Nil
        /\ is_total_new_coverage' = FALSE
        /\ UNCHANGED queueVars /\ virgin_bits' \subseteq virgin_bits
    BY <1>1 DEF StartRun, CampaignInv, PhaseInv
  <2>2. Pending' = Pending /\ ~Picking
    BY <2>1 DEF Pending, Picking
  <2>. QED  BY <2>1, <2>2, TurnKept
<1>2. CASE GenerateInserted \/ GenerateMutant
  BY <1>2, BorrowComesCloser DEF GenerateInserted, GenerateMutant
<1>3. CASE \/ GenerateFromScratch \/ DropStmt \/ Instantiate \/ StopSignal
           \/ ExecuteInternalError \/ ExecuteCrash \/ ExecuteFatal
  <2>1. UNCHANGED <<p_query_sequence, p_saved_query_sequence, is_total_new_coverage,
                    virgin_bits, queueVars>>
    BY <1>3 DEF GenerateFromScratch, DropStmt, Instantiate, StopSignal,
                ExecuteInternalError, ExecuteCrash, ExecuteFatal, genVars, saveVars
  <2>2. Pending' = Pending /\ ~Picking
    BY <2>1 DEF Pending, Picking
  <2>. QED  BY <2>1, <2>2, TurnKept
<1>4. CASE ExecuteError
  <2>1. /\ UNCHANGED <<p_query_sequence, p_saved_query_sequence,
                       is_total_new_coverage, queueVars>>
        /\ virgin_bits' \subseteq virgin_bits
    BY <1>4 DEF ExecuteError, ClearBits, genVars, saveVars
  <2>2. Pending' = Pending /\ ~Picking
    BY <2>1 DEF Pending, Picking
  <2>. QED  BY <2>1, <2>2, TurnKept
<1>5. CASE ExecuteClean
  BY <1>5, CleanComesCloser
<1>6. CASE EndRun
  BY <1>6, EndComesCloser
<1>. QED  BY <1>1, <1>2, <1>3, <1>4, <1>5, <1>6 DEF Next, Generate, Execute

(* With coverage feedback no lineage can keep the others waiting by being  *)
(* improved again and again.                                               *)
THEOREM TurnsAlwaysComeCloser == Spec => TurnsComeCloser
BY StepComesCloser, CampaignInvariant, PTL DEF Spec, TurnsComeCloser
-----------------------------------------------------------------------------
(* What a run discovers                                                    *)

(* The feedback modes that heed new coverage: it is kept if it is new.     *)
Heeding == FeedbackMode \in {"normal", "save_all"}

(* A run that has found something is marked to be saved.                   *)
MarkedInv ==
  found # {} => pc # "main" /\ is_save_curr_query_seq /\ is_total_new_coverage

(* Saving adds the sequence of the run to the queue, under a fresh object. *)
LEMMA NewLineageCommits ==
  ASSUME CampaignInv, SaveNewLineage
  PROVE  Committed
<1>. USE DEF CampaignInv
<1>1. PICK copy \in Seqs \ live :
        /\ append_new_sequence_from_scratch(copy)
        /\ Release({p_query_sequence},
                   [good EXCEPT ![copy] = good[p_query_sequence]],
                   [previous_sequence EXCEPT
                      ![copy] = previous_sequence[p_query_sequence]])
  BY DEF SaveNewLineage
<1>2. p_query_sequence \in live
  BY DraftShape DEF SaveNewLineage, PhaseInv, Running
<1>3. copy \in Queued'
  <2>1. all_saved_query_sequences \in Seq(Seq(Seqs)) /\ <<copy>> \in Seq(Seqs)
    BY DEF TypeOK, QueueTypeOK
  <2>2. all_saved_query_sequences' = Append(all_saved_query_sequences, <<copy>>)
    BY <1>1 DEF append_new_sequence_from_scratch
  <2>3. /\ QueueSize + 1 \in DOMAIN all_saved_query_sequences'
        /\ all_saved_query_sequences'[QueueSize + 1] = <<copy>>
    BY <2>1, <2>2 DEF QueueSize
  <2>. QED  BY <2>3 DEF Queued, ToSet
<1>4. copy \notin Queued
  BY OwnersAreExact DEF ExactOwnership
<1>5. good'[copy] = good[p_query_sequence]
  BY <1>1, <1>2 DEF Release, TypeOK
<1>. QED  BY <1>3, <1>4, <1>5 DEF Committed

LEMMA ToLineageCommits ==
  ASSUME CampaignInv, SaveToLineage
  PROVE  Committed
<1>. USE DEF CampaignInv
<1>. DEFINE cell == current_chosen_seq_idx + 1
            freed == DisplacedBy(TRUE) \cup {p_query_sequence}
<1>1. PICK copy \in Seqs \ live :
        /\ append_new_sequence_to_existing_group(copy, TRUE)
        /\ Release(freed,
                   [good EXCEPT ![copy] = good[p_query_sequence]],
                   [previous_sequence EXCEPT ![copy] = Nil])
  BY DEF SaveToLineage, PredecessorIn
<1>2. /\ p_query_sequence # Nil /\ p_saved_query_sequence # Nil
      /\ p_query_sequence \in live
  BY DraftShape DEF SaveToLineage, PhaseInv, Running, BorrowInv, TypeOK
<1>3. cell \in DOMAIN all_saved_query_sequences
  <2>1. current_chosen_seq_idx \in Nat /\ QueueSize \in Nat
    BY CorpusShape DEF TypeOK, QueueTypeOK
  <2>2. current_chosen_seq_idx < QueueSize
    BY <1>2 DEF BorrowInv
  <2>3. DOMAIN all_saved_query_sequences = 1..QueueSize
    BY QueueShape
  <2>. QED  BY <2>1, <2>2, <2>3
<1>4. copy \notin Queued
  BY OwnersAreExact DEF ExactOwnership
<1>5. copy \notin freed
  <2>1. DisplacedBy(TRUE) \subseteq Queued
    BY <1>3 DEF DisplacedBy, Group, Queued
  <2>. QED  BY <1>2, <1>4, <2>1
<1>. HIDE DEF cell, freed
<1>6. copy \in Queued'
  <2>1. all_saved_query_sequences' = [all_saved_query_sequences EXCEPT ![cell] = <<copy>>]
    BY <1>1 DEF append_new_sequence_to_existing_group, cell
  <2>2. /\ cell \in DOMAIN all_saved_query_sequences'
        /\ all_saved_query_sequences'[cell] = <<copy>>
    BY <1>3, <2>1 DEF TypeOK, QueueTypeOK
  <2>. QED  BY <2>2 DEF Queued, ToSet
<1>7. good'[copy] = good[p_query_sequence]
  BY <1>1, <1>2, <1>5 DEF Release, TypeOK
<1>. QED  BY <1>4, <1>6, <1>7 DEF Committed

(* A clean statement that covers a virgin bit raises both flags, and one   *)
(* that covers none lowers neither.                                        *)
LEMMA CleanMarks ==
  ASSUME Heeding, CampaignInv, MarkedInv, ExecuteClean
  PROVE  MarkedInv'
<1>. USE DEF CampaignInv
<1>1. PICK trace \in SUBSET Bits : \E keep \in KeepChoices(trace) :
        /\ is_save_curr_query_seq' = (is_save_curr_query_seq \/ keep)
        /\ is_total_new_coverage' = (is_total_new_coverage \/ keep)
        /\ found' = found \cup (virgin_bits \cap trace)
  BY DEF ExecuteClean, Raised
<1>2. PICK keep \in KeepChoices(trace) :
        /\ is_save_curr_query_seq' = (is_save_curr_query_seq \/ keep)
        /\ is_total_new_coverage' = (is_total_new_coverage \/ keep)
        /\ found' = found \cup (virgin_bits \cap trace)
  BY <1>1
<1>3. virgin_bits \cap trace # {} => keep
  BY <1>2 DEF Heeding, KeepChoices, NewBits
<1>4. pc' # "main"
  BY DEF ExecuteClean, NextIteration
<1>. QED  BY <1>2, <1>3, <1>4 DEF MarkedInv

SavedInv == MarkedInv /\ lost = {}

(* A run that found something and ends by itself is saved.                 *)
LEMMA EndSaves ==
  ASSUME CampaignInv, SavedInv, EndRun
  PROVE  SavedInv'
<1>. USE DEF SavedInv
<1>1. found' = {}
  BY DEF EndRun, AbandonRun, FinishWithoutSaving, SaveNewLineage, SaveToLineage, Release
<1>2. lost' = {}
  <2>1. CASE AbandonRun
    BY <2>1 DEF AbandonRun
  <2>2. CASE FinishWithoutSaving
    <3>1. found = {}
      BY <2>2 DEF FinishWithoutSaving, WorthSaving, MarkedInv
    <3>. QED  BY <2>2, <3>1 DEF FinishWithoutSaving, Account
  <2>3. CASE SaveNewLineage
    BY <2>3, NewLineageCommits DEF SaveNewLineage, Account
  <2>4. CASE SaveToLineage
    BY <2>4, ToLineageCommits DEF SaveToLineage, Account
  <2>. QED  BY <2>1, <2>2, <2>3, <2>4 DEF EndRun
<1>. QED  BY <1>1, <1>2 DEF MarkedInv

(* The steps that find nothing neither end the run nor lower its flags.    *)
LEMMA SavedInvNext ==
  Heeding /\ CampaignInv /\ SavedInv /\ [Next]_vars => SavedInv'
<1>. SUFFICES ASSUME Heeding, CampaignInv, SavedInv, [Next]_vars
              PROVE  SavedInv'
  OBVIOUS
<1>. USE DEF SavedInv, MarkedInv, saveVars, discoveries
<1>1. CASE StartRun
  BY <1>1 DEF StartRun
<1>2. CASE Generate
  <2>1. UNCHANGED saveVars
    BY <1>2 DEF Generate, GenerateFromScratch, GenerateInserted, GenerateMutant,
                BorrowSaved
  <2>2. pc' \in {"generate", "generated", "segv"}
    BY <1>2 DEF Generate, GenerateFromScratch, GenerateInserted, GenerateMutant,
                Deliver, RetryGeneration
  <2>. QED  BY <2>1, <2>2
<1>3. CASE DropStmt
  BY <1>3 DEF DropStmt, NextIteration
<1>4. CASE Instantiate
  BY <1>4 DEF Instantiate
<1>5. CASE ExecuteInternalError
  BY <1>5 DEF ExecuteInternalError
<1>6. CASE ExecuteError
  BY <1>6 DEF ExecuteError, NextIteration
<1>7. CASE ExecuteClean
  BY <1>7, CleanMarks DEF ExecuteClean
<1>8. CASE ExecuteCrash
  BY <1>8 DEF ExecuteCrash, NextIteration
<1>9. CASE ExecuteFatal
  BY <1>9 DEF ExecuteFatal
<1>10. CASE EndRun
  BY <1>10, EndSaves
<1>11. CASE StopSignal
  BY <1>11 DEF StopSignal
<1>12. CASE UNCHANGED vars
  BY <1>12 DEF vars
<1>. QED  BY <1>1, <1>2, <1>3, <1>4, <1>5, <1>6, <1>7, <1>8, <1>9, <1>10, <1>11, <1>12
          DEF Next, Execute

(* What a clean statement was the first to cover is in the queue when its  *)
(* run has ended, whatever else happens in the run: has_new_bits and       *)
(* save_if_interesting at work over a whole fuzz_one.                      *)
THEOREM DiscoveriesStaySaved ==
  ASSUME FeedbackMode \in {"normal", "save_all"}
  PROVE  Spec => []DiscoveriesAreSaved
<1>1. Init => SavedInv
  BY DEF Init, SavedInv, MarkedInv
<1>2. CampaignInv /\ SavedInv /\ [Next]_vars => SavedInv'
  BY SavedInvNext DEF Heeding
<1>3. SavedInv => DiscoveriesAreSaved
  BY DEF SavedInv, DiscoveriesAreSaved
<1>. QED  BY <1>1, <1>2, <1>3, CampaignInvariant, PTL DEF Spec
=============================================================================
