---------------------------- MODULE FuzzCampaign ----------------------------
(***************************************************************************)
(* One parserfuzz process: the main loop calls fuzz_one over and over; a   *)
(* run of fuzz_one generates up to MaxStmts statements, executes each, and *)
(* at its end may save the whole sequence to the queue (parserfuzz.cpp,    *)
(* query_sequence.cpp, postgresql_query_sequence.cpp).                     *)
(*                                                                         *)
(* Memory is explicit.  A run works on a QuerySequence of its own and      *)
(* borrows one from the queue to mutate; saving copies the run's sequence  *)
(* into the queue and may delete the borrowed one.                         *)
(*                                                                         *)
(* A statement is abstracted to what later code dereferences: whether it   *)
(* has an IR tree and whether it has instantiation data.  The DBMS and the *)
(* coverage map are nondeterministic.                                      *)
(***************************************************************************)
EXTENDS FuzzingSequenceQueue, FiniteSets

CONSTANTS
  Bits,            \* the bits of the coverage map
  MaxStmts,        \* statements of a run, and of a sequence open to insertion (40)
  MaxLineages,     \* groups from which on a run always mutates (100)
  MaxTries,        \* attempts of generate_next_query (10)
  BootLen,         \* statements every run begins with
  KeepUniqueCrash, \* crash reports kept (KEEP_UNIQUE_CRASH, 5000)
  FeedbackArg      \* the argument of the -F option, "none" without it

FeedbackArgs == {"none", "code_coverage", "drop_all", "random_save", "save_all"}

ASSUME CampaignAssumption ==
  /\ IsFiniteSet(Bits)
  /\ MaxStmts \in Nat \ {0}
  /\ MaxLineages \in Nat \ {0}
  /\ MaxTries \in Nat \ {0}
  /\ BootLen \in Nat \ {0}
  /\ KeepUniqueCrash \in Nat
  /\ FeedbackArg \in FeedbackArgs

VARIABLES
  pc,                      \* where fuzz_one is
  stop_soon,               \* set by the signal handler
  live,                    \* the allocated QuerySequence objects
  good,                    \* v_good_query_stmts of each object
  previous_sequence,       \* of each object
  p_query_sequence,        \* the sequence of the run
  p_saved_query_sequence,  \* the one it borrowed from the queue
  gen_mode, gen_idx,       \* fields of the run's generator
  tries,                   \* attempts made by generate_next_query
  stmt_idx,                \* iteration of the statement loop
  cur_stmt,                \* the statement at hand
  is_total_new_coverage,   \* of the run's generator
  is_save_curr_query_seq,
  virgin_bits,             \* bits of the map not seen so far
  unique_crashes,
  found,  \* history: bits this run was the first to cover by a clean statement
  lost    \* history: bits found by runs that ended and were not saved

discoveries == <<found, lost>>
heapVars == <<live, good, previous_sequence>>
genVars == <<p_query_sequence, p_saved_query_sequence, gen_mode, gen_idx, tries>>
saveVars == <<is_total_new_coverage, is_save_curr_query_seq, discoveries>>
vars == <<pc, stop_soon, heapVars, genVars, stmt_idx, cur_stmt, saveVars,
          virgin_bits, unique_crashes, queueVars>>

-----------------------------------------------------------------------------
(* A statement of v_good_query_stmts is a plain string (the bootstrap), an *)
(* IR with its instantiation data, the same where its execution brought    *)
(* the server down, or an IR without data.                                 *)
Kind == {"string", "filled", "crasher", "bare"}
HasIR(k) == k # "string"
HasInstanData(k) == k \in {"filled", "crasher"}

Bootstrap == [i \in 1..BootLen |-> "string"]

(* QueryStmt: how it was made, whether query_instan_data is set, and the   *)
(* index of mutating_original_stmt in the borrowed sequence (0: none).     *)
Method == {"GenAllFromNew", "GenMut", "GenMutFromOtherSequence"}
Stmt == [gen_method : Method, instan : BOOLEAN, original : Nat]

NewStmts == [gen_method : {"GenAllFromNew", "GenMutFromOtherSequence"},
             instan : {FALSE}, original : {0}]

NoStmt == [gen_method |-> "GenAllFromNew", instan |-> FALSE, original |-> 0]

Running == pc \in {"generate", "generated", "filled", "finish"}

Init ==
  /\ QueueInit
  /\ pc = "main" /\ stop_soon = FALSE
  /\ live = {}
  /\ good = [s \in Seqs |-> <<>>]
  /\ previous_sequence = [s \in Seqs |-> Nil]
  /\ p_query_sequence = Nil /\ p_saved_query_sequence = Nil
  /\ gen_mode = "GenUnknown" /\ gen_idx = 0 /\ tries = 0
  /\ stmt_idx = 0 /\ cur_stmt = NoStmt
  /\ is_total_new_coverage = FALSE /\ is_save_curr_query_seq = FALSE
  /\ virgin_bits = Bits
  /\ unique_crashes = 0
  /\ found = {} /\ lost = {}

-----------------------------------------------------------------------------
(* fuzz_one up to its statement loop: the database is reset and the        *)
(* bootstrap statements run; whatever they cover is not virgin any more.   *)
StartRun ==
  /\ pc = "main"
  /\ \E s \in Seqs \ live :
        /\ live' = live \cup {s}
        /\ good' = [good EXCEPT ![s] = Bootstrap]
        /\ previous_sequence' = [previous_sequence EXCEPT ![s] = Nil]
        /\ p_query_sequence' = s
  /\ p_saved_query_sequence' = Nil
  /\ gen_mode' = "GenUnknown" /\ gen_idx' = 0 /\ tries' = 0
  /\ stmt_idx' = 0
  /\ is_total_new_coverage' = FALSE /\ is_save_curr_query_seq' = FALSE
  /\ \E covered \in SUBSET Bits : virgin_bits' = virgin_bits \ covered
  /\ pc' = "generate"
  /\ UNCHANGED <<stop_soon, cur_stmt, unique_crashes, discoveries, queueVars>>

-----------------------------------------------------------------------------
(* generate_next_query                                                     *)

(* Slip: the limit on lineages is off by one.                              *)
ModeChoicesOffByOne ==
  CASE QueueSize = 0 -> {"GenAllFromNew"}
    [] QueueSize > 0 /\ gen_mode # "GenUnknown" -> {gen_mode}
    [] QueueSize > MaxLineages /\ gen_mode = "GenUnknown" -> {"GenMut"}
    [] OTHER -> {"GenMut", "GenAllFromNew"}

(* The modes a call may continue in.  The first call picks one.            *)
ModeChoices ==
  CASE QueueSize = 0 -> {"GenAllFromNew"}
    [] QueueSize > 0 /\ gen_mode # "GenUnknown" -> {gen_mode}
    [] QueueSize >= MaxLineages /\ gen_mode = "GenUnknown" -> {"GenMut"}
    [] OTHER -> {"GenMut", "GenAllFromNew"}

GenerateFromScratch ==
  /\ pc = "generate"
  /\ "GenAllFromNew" \in ModeChoices
  /\ gen_mode' = "GenAllFromNew"
  /\ gen_idx' = gen_idx + 1
  /\ cur_stmt' \in NewStmts
  /\ tries' = 0
  /\ pc' = "generated"
  /\ UNCHANGED <<stop_soon, heapVars, p_query_sequence, p_saved_query_sequence,
                 stmt_idx, saveVars, virgin_bits, unique_crashes, queueVars>>

(* The sequence a mutating run works from: borrowed once, on first use.    *)
Saved ==
  IF p_saved_query_sequence = Nil
  THEN Last(Group(NextGroup)) ELSE p_saved_query_sequence

BorrowSaved ==
  /\ pc = "generate"
  /\ "GenMut" \in ModeChoices
  /\ gen_mode' = "GenMut"
  /\ p_saved_query_sequence' = Saved
  /\ IF p_saved_query_sequence = Nil
     THEN get_next_query_sequence_from_queue
     ELSE UNCHANGED queueVars
  /\ UNCHANGED <<stop_soon, live, good, p_query_sequence, stmt_idx, saveVars,
                 virgin_bits, unique_crashes>>

(* generate_next_query returns stmt: the run's id counter is moved past    *)
(* the one in the borrowed sequence's last good statement, and the run's   *)
(* sequence is linked to the borrowed one.                                 *)
Deliver(stmt) ==
  IF HasInstanData(Last(good[Saved]))
  THEN /\ cur_stmt' = stmt
       /\ previous_sequence' =
            [previous_sequence EXCEPT ![p_query_sequence] =
               IF @ = Nil THEN Saved ELSE @]
       /\ tries' = 0
       /\ pc' = "generated"
  ELSE /\ pc' = "segv"
       /\ UNCHANGED <<cur_stmt, previous_sequence, tries>>

(* A fresh statement is taken past the end of the borrowed sequence, or    *)
(* inserted while that one is short.                                       *)
GenerateInserted ==
  /\ BorrowSaved
  /\ \/ gen_idx >= Len(good[Saved])
     \/ Len(good[Saved]) < MaxStmts
  /\ gen_idx' = gen_idx + 1
  /\ \E stmt \in NewStmts : Deliver(stmt)

(* The position (from 1) of the next borrowed statement that has an IR,    *)
(* or one past the end.                                                    *)
NextWithIR ==
  LET n == Len(good[Saved])
      candidates == {i \in (gen_idx + 1)..n : HasIR(good[Saved][i])}
  IN  IF candidates = {} THEN n + 1
      ELSE CHOOSE i \in candidates : \A j \in candidates : i <= j

(* Only plain strings are left in the borrowed sequence: this attempt      *)
(* yields nothing.  After the last attempt fuzz_one reads the null result. *)
RetryGeneration ==
  /\ gen_idx' = Len(good[Saved])
  /\ tries' = tries + 1
  /\ pc' = IF tries + 1 >= MaxTries THEN "segv" ELSE "generate"
  /\ UNCHANGED <<cur_stmt, previous_sequence>>

(* How rsg_mutate marks its result: a statement too simple to be mutated   *)
(* comes back as it is, marked as newly generated.                         *)
MutatedAs == {"GenMut", "GenAllFromNew"}

(* The next borrowed statement that has an IR is mutated, together with a  *)
(* copy of its instantiation data.                                         *)
GenerateMutant ==
  /\ BorrowSaved
  /\ gen_idx < Len(good[Saved])
  /\ IF NextWithIR > Len(good[Saved])
     THEN RetryGeneration
     ELSE /\ gen_idx' = NextWithIR
          /\ IF HasInstanData(good[Saved][NextWithIR])
             THEN \E m \in MutatedAs :
                    Deliver([gen_method |-> m, instan |-> TRUE,
                             original |-> NextWithIR])
             ELSE /\ pc' = "segv"
                  /\ UNCHANGED <<cur_stmt, previous_sequence, tries>>

-----------------------------------------------------------------------------
(* The statement loop of fuzz_one                                          *)

(* Slip: one iteration too many.                                           *)
NextIterationOffByOne ==
  /\ stmt_idx' = stmt_idx + 1
  /\ cur_stmt' = NoStmt
  /\ pc' = IF stmt_idx < MaxStmts THEN "generate" ELSE "finish"

NextIteration ==
  /\ stmt_idx' = stmt_idx + 1
  /\ cur_stmt' = NoStmt
  /\ pc' = IF stmt_idx + 1 < MaxStmts THEN "generate" ELSE "finish"

(* The statement is deleted unexecuted: it is empty or too long, it cannot *)
(* be instantiated (which is tried only if no stop was requested), or it   *)
(* has become too long.                                                    *)
DropStmt ==
  /\ \/ pc = "generated"
     \/ pc = "filled"
  /\ NextIteration
  /\ UNCHANGED <<stop_soon, heapVars, genVars, saveVars, virgin_bits,
                 unique_crashes, queueVars>>

(* fill_partial_stmt reads the statement's own instantiation data.         *)
Instantiate ==
  /\ pc = "generated" /\ ~stop_soon
  /\ pc' = IF cur_stmt.gen_method = "GenMut" /\ ~cur_stmt.instan
           THEN "segv" ELSE "filled"
  /\ UNCHANGED <<stop_soon, heapVars, genVars, stmt_idx, cur_stmt, saveVars,
                 virgin_bits, unique_crashes, queueVars>>

AppendGood(kind) ==
  /\ good' = [good EXCEPT ![p_query_sequence] = Append(@, kind)]
  /\ UNCHANGED <<live, previous_sequence>>

(* has_new_bits clears what the trace covers and tells if that was new.    *)
NewBits(trace) == trace \cap virgin_bits # {}
(* Slip: the map of virgin bits is compared with but never updated.        *)
ClearBitsForgotten(trace) == UNCHANGED virgin_bits

ClearBits(trace) == virgin_bits' = virgin_bits \ trace

(* The result says the server failed: the sequence so far is kept, the     *)
(* statement that failed it goes to the log, and the run ends.             *)
ExecuteInternalError ==
  /\ pc = "filled"
  /\ is_save_curr_query_seq' = TRUE
  /\ pc' = "finish"
  /\ cur_stmt' = NoStmt
  /\ UNCHANGED <<stop_soon, heapVars, genVars, stmt_idx, is_total_new_coverage,
                 virgin_bits, unique_crashes, discoveries, queueVars>>

(* The result is an SQL error, as that of a time-out always is: the        *)
(* coverage counts as seen, and the statement this one was mutated from,   *)
(* if any, is run in its place.                                            *)
ExecuteError ==
  /\ pc = "filled"
  /\ \E trace, fallback \in SUBSET Bits :
        IF cur_stmt.original = 0
        THEN /\ ClearBits(trace)
             /\ UNCHANGED heapVars
        ELSE /\ ClearBits(trace \cup fallback)
             /\ AppendGood(good[p_saved_query_sequence][cur_stmt.original])
  /\ NextIteration
  /\ UNCHANGED <<stop_soon, genVars, saveVars, unique_crashes, queueVars>>

(* feedback_mode as main sets it from the option.                          *)
FeedbackMode ==
  CASE FeedbackArg = "none" -> "normal"
    [] FeedbackArg = "code_coverage" -> "drop_all"
    [] OTHER -> FeedbackArg

(* Whether save_if_interesting keeps a statement that ran without fault.   *)
KeepChoices(trace) ==
  CASE FeedbackMode = "normal" -> {NewBits(trace)}
    [] FeedbackMode = "drop_all" -> {FALSE}
    [] FeedbackMode = "random_save" -> BOOLEAN
    [] FeedbackMode = "save_all" -> {TRUE}

(* Slip: the last statement decides about the whole sequence.              *)
RaisedByLast(flag, keep) == keep

(* A flag of the run, once set, stays.                                     *)
Raised(flag, keep) == flag \/ keep

ExecuteClean ==
  /\ pc = "filled"
  /\ AppendGood("filled")
  /\ \E trace \in SUBSET Bits :
       \E keep \in KeepChoices(trace) :
          /\ ClearBits(trace)
          /\ is_save_curr_query_seq' = Raised(is_save_curr_query_seq, keep)
          /\ is_total_new_coverage' = Raised(is_total_new_coverage, keep)
          /\ found' = found \cup (virgin_bits \cap trace)
  /\ NextIteration
  /\ UNCHANGED <<stop_soon, genVars, unique_crashes, lost, queueVars>>

(* The connector reports a crash with a result that reads as normal.       *)
ExecuteCrash ==
  /\ pc = "filled"
  /\ AppendGood("crasher")
  /\ IF unique_crashes >= KeepUniqueCrash
     THEN UNCHANGED <<unique_crashes, is_save_curr_query_seq>>
     ELSE /\ unique_crashes' = unique_crashes + 1
          /\ is_save_curr_query_seq' = TRUE
  /\ NextIteration
  /\ UNCHANGED <<stop_soon, genVars, is_total_new_coverage,
                 virgin_bits, discoveries, queueVars>>

(* FAULT_ERROR: save_if_interesting ends the process.                      *)
ExecuteFatal ==
  /\ pc = "filled"
  /\ AppendGood("filled")
  /\ pc' = "exited"
  /\ UNCHANGED <<stop_soon, genVars, stmt_idx, cur_stmt, saveVars, virgin_bits,
                 unique_crashes, queueVars>>

-----------------------------------------------------------------------------
(* The end of a run                                                        *)

(* delete query_seq_gen, then back to the main loop, which ends if a stop  *)
(* was requested.                                                          *)
Release(objects, contents, links) ==
  /\ good' = [s \in Seqs |-> IF s \in objects THEN <<>> ELSE contents[s]]
  /\ previous_sequence' = [s \in Seqs |-> IF s \in objects THEN Nil ELSE links[s]]
  /\ p_query_sequence' = Nil /\ p_saved_query_sequence' = Nil
  /\ cur_stmt' = NoStmt
  /\ found' = {}
  /\ pc' = IF stop_soon THEN "exited" ELSE "main"
  /\ UNCHANGED <<stop_soon, gen_mode, gen_idx, tries, stmt_idx, virgin_bits,
                 is_total_new_coverage, is_save_curr_query_seq, unique_crashes>>

(* The objects the queue owns.                                             *)
Queued == UNION {ToSet(all_saved_query_sequences[g]) :
                   g \in DOMAIN all_saved_query_sequences}

(* The queue gains a sequence, and it is the one of the run.               *)
Committed ==
  \E s \in Seqs : /\ s \in Queued' /\ s \notin Queued
                  /\ good'[s] = good[p_query_sequence]

(* What the run found is lost if its sequence is not in the queue now.     *)
Account == lost' = IF Committed THEN lost ELSE lost \cup found

AbandonRun ==
  /\ pc = "generated" /\ stop_soon
  /\ live' = live \ {p_query_sequence}
  /\ Release({p_query_sequence}, good, previous_sequence)
  /\ UNCHANGED <<lost, queueVars>>

(* Slip: one of the two flags is taken for both.                           *)
WorthSavingOneFlag == is_save_curr_query_seq

WorthSaving == is_save_curr_query_seq /\ is_total_new_coverage

FinishWithoutSaving ==
  /\ pc = "finish" /\ ~WorthSaving
  /\ live' = live \ {p_query_sequence}
  /\ Release({p_query_sequence}, good, previous_sequence)
  /\ UNCHANGED queueVars
  /\ Account

(* save_query_sequence_to_queue for a run that began from scratch.         *)
SaveNewLineage ==
  /\ pc = "finish" /\ WorthSaving /\ gen_mode = "GenAllFromNew"
  /\ \E copy \in Seqs \ live :
        /\ append_new_sequence_from_scratch(copy)
        /\ live' = (live \cup {copy}) \ {p_query_sequence}
        /\ Release({p_query_sequence},
                   [good EXCEPT ![copy] = good[p_query_sequence]],
                   [previous_sequence EXCEPT
                      ![copy] = previous_sequence[p_query_sequence]])
  /\ Account

(* ... and for a mutating one: the copy displaces the sequence it was      *)
(* mutated from, and the group is handed out again next.                   *)
SaveToLineage ==
  /\ pc = "finish" /\ WorthSaving /\ gen_mode # "GenAllFromNew"
  /\ \E copy \in Seqs \ live :
        LET freed == DisplacedBy(TRUE) \cup {p_query_sequence}
        IN  /\ append_new_sequence_to_existing_group(copy, TRUE)
            /\ repeat_previous_query_seq
            /\ live' = (live \cup {copy}) \ freed
            /\ Release(freed,
                       [good EXCEPT ![copy] = good[p_query_sequence]],
                       [previous_sequence EXCEPT
                          ![copy] = PredecessorIn(TRUE, previous_sequence[p_query_sequence])])
  /\ UNCHANGED current_chosen_seq_idx
  /\ Account

(* handle_stop_sig                                                         *)
StopSignal ==
  /\ pc \notin {"exited", "segv"} /\ ~stop_soon
  /\ stop_soon' = TRUE
  /\ UNCHANGED <<pc, heapVars, genVars, stmt_idx, cur_stmt, saveVars,
                 virgin_bits, unique_crashes, queueVars>>

Generate ==
  \/ GenerateFromScratch
  \/ GenerateInserted
  \/ GenerateMutant

Execute ==
  \/ ExecuteInternalError
  \/ ExecuteError
  \/ ExecuteClean
  \/ ExecuteCrash
  \/ ExecuteFatal

EndRun ==
  \/ AbandonRun
  \/ FinishWithoutSaving
  \/ SaveNewLineage
  \/ SaveToLineage

Next ==
  \/ StartRun
  \/ Generate
  \/ DropStmt
  \/ Instantiate
  \/ Execute
  \/ EndRun
  \/ StopSignal

Spec == Init /\ [][Next]_vars

-----------------------------------------------------------------------------
(* Properties                                                              *)

Terminal == {"exited", "segv"}

TypeOK ==
  /\ QueueTypeOK
  /\ pc \in {"main", "generate", "generated", "filled", "finish"} \cup Terminal
  /\ stop_soon \in BOOLEAN
  /\ live \in SUBSET Seqs
  /\ good \in [Seqs -> Seq(Kind)]
  /\ previous_sequence \in [Seqs -> Seqs \cup {Nil}]
  /\ p_query_sequence \in Seqs \cup {Nil}
  /\ p_saved_query_sequence \in Seqs \cup {Nil}
  /\ gen_mode \in {"GenUnknown", "GenAllFromNew", "GenMut"}
  /\ gen_idx \in Nat /\ tries \in Nat /\ stmt_idx \in 0..MaxStmts
  /\ cur_stmt \in Stmt
  /\ is_total_new_coverage \in BOOLEAN
  /\ is_save_curr_query_seq \in BOOLEAN
  /\ virgin_bits \in SUBSET Bits
  /\ unique_crashes \in 0..KeepUniqueCrash
  /\ found \in SUBSET Bits
  /\ lost \in SUBSET Bits

(* The objects a run owns.                                                 *)
OfRun == {p_query_sequence} \ {Nil}

(* No pointer that is read is null or refers to a deleted sequence: what   *)
(* generate_next_query returns and the instantiation data it reads from a  *)
(* saved sequence are there, and neither the sequence a run borrowed from  *)
(* the queue nor the chain of predecessors that stream_output_res follows  *)
(* when a bug is logged is gone; the statement kept as a fallback still is *)
(* part of the borrowed sequence.                                          *)
NoBadPointer ==
  /\ pc # "segv"
  /\ Running => /\ p_query_sequence \in live
                /\ p_saved_query_sequence \in live \cup {Nil}
                /\ p_saved_query_sequence # p_query_sequence
  /\ \A s \in live : previous_sequence[s] \in live \cup {Nil}
  /\ cur_stmt.original # 0 =>
       cur_stmt.original \in DOMAIN good[p_saved_query_sequence]

(* Every allocated sequence has one owner, and every group of the queue    *)
(* holds exactly one: nothing leaks and nothing is deleted twice.          *)
ExactOwnership ==
  /\ live = Queued \cup OfRun
  /\ Queued \cap OfRun = {}
  /\ \A g \in DOMAIN all_saved_query_sequences :
       /\ Len(all_saved_query_sequences[g]) = 1
       /\ \A h \in DOMAIN all_saved_query_sequences :
            g # h => all_saved_query_sequences[g] # all_saved_query_sequences[h]

(* A saved sequence can be replayed: it starts with the bootstrap, its     *)
(* last statement carries instantiation data, and so does every statement  *)
(* that has an IR.                                                         *)
SavedIsReplayable ==
  \A s \in Queued :
    /\ Len(good[s]) > BootLen
    /\ SubSeq(good[s], 1, BootLen) = Bootstrap
    /\ HasInstanData(Last(good[s]))
    /\ \A i \in DOMAIN good[s] : HasIR(good[s][i]) => HasInstanData(good[s][i])

(* The queue grows to MaxLineages groups and no further, although the      *)
(* limit is looked at when a run begins and the group is added when it     *)
(* ends; the group to hand out next is a group or one past the last.  With *)
(* coverage feedback every group was paid for by a bit of the map that it  *)
(* was the first to cover: no two groups are the same discovery.           *)
QueueBounded ==
  /\ QueueSize <= MaxLineages
  /\ Len(all_scores) = QueueSize
  /\ current_queue_iter <= QueueSize
  /\ FeedbackMode = "normal" => QueueSize <= Cardinality(Bits \ virgin_bits)

(* What a statement that ran without fault was the first to cover is never *)
(* lost: whatever happens later in its run, errors, crashes of the server, *)
(* statements that cover nothing new, and whatever bits other statements   *)
(* clear, the whole sequence is in the queue when the run has ended, unless*)
(* the process stops in the middle of it.  The bits are not virgin any     *)
(* more, so no later run could make up for it.  A bootstrap statement, a   *)
(* refused one, and the original that is run again in its place clear bits *)
(* too and save nothing, in the code by design (has_new_bits in fuzz_one   *)
(* and save_if_interesting).                                               *)
DiscoveriesAreSaved == lost = {}

(* How many other groups are handed out before group g.                    *)
TurnsUntil(g) ==
  IF current_queue_iter <= g THEN g - current_queue_iter
  ELSE QueueSize - current_queue_iter + g

(* What may still upset the order: bits to cover, and a run that covered   *)
(* one and has not been saved yet.                                         *)
Debt ==
  2 * Cardinality(virgin_bits)
    + (IF p_query_sequence # Nil /\ is_total_new_coverage THEN 1 ELSE 0)

Picking == p_saved_query_sequence = Nil /\ p_saved_query_sequence' # Nil

(* The step picks lineage g, or uses up debt, or brings the turn of g      *)
(* closer if it picks another one and no further away if it does not.      *)
TurnComesCloser(g) ==
  \/ Picking /\ current_chosen_seq_idx' = g
  \/ Debt' < Debt
  \/ /\ Debt' = Debt
     /\ TurnsUntil(g)' = TurnsUntil(g) - (IF Picking THEN 1 ELSE 0)

(* With coverage feedback a lineage cannot keep the others waiting by      *)
(* improving: its turn is only repeated, and a lineage only added, by a    *)
(* run that covered something new, of which there is only so much.  Else   *)
(* each pick brings every other lineage one turn closer.                   *)
TurnsComeCloser ==
  [][FeedbackMode = "normal" =>
       \A g \in 0..(QueueSize - 1) : TurnComesCloser(g)]_vars

(* A statement that crashed the server is not saved to the queue.          *)
CrashersStayOut ==
  \A s \in Queued : "crasher" \notin ToSet(good[s])

(* The queue implements the corpus of lineages.                            *)
Corpus == INSTANCE LineageCorpus WITH
  Opening <- Bootstrap,
  corpus <- [g \in 1..QueueSize |-> good[Last(all_saved_query_sequences[g])]],
  cursor <- current_queue_iter,
  picked <- IF p_saved_query_sequence = Nil THEN -1 ELSE current_chosen_seq_idx,
  draft <- IF p_query_sequence = Nil THEN <<>> ELSE good[p_query_sequence]

ImplementsCorpus == Corpus!Spec

-----------------------------------------------------------------------------
(* The loop goes on by itself; that a run that may choose its mode decides *)
(* to mutate now and then is what the 80 percent draw gives.               *)
FairSpec ==
  /\ Spec
  /\ WF_vars(StartRun) /\ WF_vars(Generate) /\ WF_vars(EndRun)
  /\ WF_vars(DropStmt \/ Execute)
  /\ SF_vars(GenerateInserted \/ GenerateMutant)

(* Every lineage is picked for mutation again and again, unless the        *)
(* process ends: one that keeps being picked because it keeps improving    *)
(* cannot starve the others.                                               *)
EveryLineageServed ==
  \A g \in 0..(MaxLineages - 1) :
    (g < QueueSize) ~>
      \/ pc = "exited"
      \/ p_saved_query_sequence # Nil /\ current_chosen_seq_idx = g
=============================================================================
