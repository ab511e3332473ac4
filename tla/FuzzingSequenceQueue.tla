------------------------ MODULE FuzzingSequenceQueue ------------------------
(***************************************************************************)
(* The queue of saved query sequences of one parserfuzz process            *)
(* (headers/fuzzing_sequence_queue.h).                                     *)
(*                                                                         *)
(* A QuerySequence object is named by its address.  The queue owns the     *)
(* objects it stores: append_new_sequence_to_existing_group deletes the    *)
(* ones it displaces.  The first layer of the queue is one group per       *)
(* sequence that was generated from scratch; the second layer holds the    *)
(* mutants of that root.  A group also has a pair <<hit_count, reward>>.   *)
(*                                                                         *)
(* Indexes are those of the code, which count from 0.                      *)
(***************************************************************************)
EXTENDS Integers, Sequences, SequencesExt

CONSTANTS
  Seqs,      \* the addresses a QuerySequence object can have
  Nil        \* the null pointer

ASSUME NilAssumption == Nil \notin Seqs

VARIABLES
  all_saved_query_sequences,   \* the groups, each a sequence of addresses
  all_scores,                  \* <<hit_count, reward>> of every group
  current_chosen_seq_idx,      \* the group last handed out
  current_queue_iter           \* the group to hand out next

queueVars == <<all_saved_query_sequences, all_scores,
               current_chosen_seq_idx, current_queue_iter>>

(***************************************************************************)
(* The rewards the code can compute.  Every term it adds is 0.0, so the    *)
(* running mean is 0.0 until a division by a zero hit_count makes it NaN,  *)
(* which every later update keeps.                                         *)
(***************************************************************************)
Score == {"0.0", "NaN"}

RunningMeanWithZero(hit_count, reward) ==
  IF hit_count = 0 \/ reward = "NaN" THEN "NaN" ELSE "0.0"

QueueSize == Len(all_saved_query_sequences)

Group(idx) == all_saved_query_sequences[idx + 1]

QueueInit ==
  /\ all_saved_query_sequences = <<>>
  /\ all_scores = <<>>
  /\ current_chosen_seq_idx = 0
  /\ current_queue_iter = 0

append_new_sequence_from_scratch(in) ==
  /\ all_saved_query_sequences' = Append(all_saved_query_sequences, <<in>>)
  /\ all_scores' = Append(all_scores, <<0, "0.0">>)
  /\ UNCHANGED <<current_chosen_seq_idx, current_queue_iter>>

(* Slip: the displaced objects are forgotten.                              *)
DisplacedByForgotten(clear_prev_seq) == {}

(* The objects that are deleted when a sequence is added to its group.     *)
DisplacedBy(clear_prev_seq) ==
  IF clear_prev_seq THEN ToSet(Group(current_chosen_seq_idx)) ELSE {}

(* Slip: the sequence keeps its link to the one it displaces.              *)
PredecessorInKept(clear_prev_seq, previous) == previous

(* The previous_sequence of a sequence once it is added to its group.      *)
PredecessorIn(clear_prev_seq, previous) ==
  IF clear_prev_seq THEN Nil ELSE previous

(* The sequence is pushed and the score of its group is updated; hit_count *)
(* is read but never advanced.  repeat_previous_query_seq is the call      *)
(* save_query_sequence_to_queue makes right after it.                      *)
append_new_sequence_to_existing_group(in, clear_prev_seq) ==
  LET c == current_chosen_seq_idx + 1
  IN  /\ all_saved_query_sequences' =
           [all_saved_query_sequences EXCEPT ![c] =
              Append(IF clear_prev_seq THEN <<>> ELSE @, in)]
      /\ all_scores' =
           [all_scores EXCEPT ![c] = <<@[1], RunningMeanWithZero(@[1], @[2])>>]

(* Slip: the call is missing.                                              *)
repeat_previous_query_seqMissing == UNCHANGED current_queue_iter

repeat_previous_query_seq ==
  current_queue_iter' = current_queue_iter - 1

(* Slip: the iterator starts over at every call.                           *)
NextGroupRestarting == 0

(* The group get_next_query_sequence_from_queue hands out.                 *)
NextGroup ==
  IF current_queue_iter = QueueSize THEN 0 ELSE current_queue_iter

get_next_query_sequence_from_queue ==
  /\ current_chosen_seq_idx' = NextGroup
  /\ current_queue_iter' = NextGroup + 1
  /\ UNCHANGED <<all_saved_query_sequences, all_scores>>

QueueTypeOK ==
  /\ all_saved_query_sequences \in Seq(Seq(Seqs))
  /\ all_scores \in Seq(Nat \X Score)
  /\ current_chosen_seq_idx \in Nat
  /\ current_queue_iter \in Nat
=============================================================================
