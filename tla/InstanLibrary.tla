---------------------------- MODULE InstanLibrary ----------------------------
(***************************************************************************)
(* The instantiator's data library and the numbers it builds names from    *)
(* (query_instantiator.h, query_sequence.cpp, the calls in fuzz_one).      *)
(*                                                                         *)
(* Before a statement is filled in, the library takes a snapshot.  Filling *)
(* takes numbers from a counter for the names the statement defines and    *)
(* changes what the library believes to exist; the statement is then       *)
(* executed, or deleted unexecuted, and after an error the library goes    *)
(* back to the snapshot.  A statement taken from a saved sequence keeps    *)
(* some of the names it was saved with.                                    *)
(*                                                                         *)
(* A statement may also open a transaction, or end it and undo what was    *)
(* done in it, and the library is not told.  The transactions are those of *)
(* PostgreSQL, DROP and CREATE included.                                   *)
(*                                                                         *)
(* A name is its number.  Of the library's lists, the tables and the       *)
(* tables defined by the statement at hand are kept; the columns, indexes  *)
(* and aliases only use up numbers.                                        *)
(***************************************************************************)
EXTENDS Integers, Sequences, FiniteSets

CONSTANTS
  Gap,        \* what counters are rounded up by (100)
  WordSize,   \* unsigned global_instan_idx is below it (2^32)
  LongSize,   \* the other counters are below it (2^64)
  MaxIds,     \* numbers one statement takes
  MaxStmts,   \* statements of a run
  MaxLevels,  \* the transaction and the savepoints within it
  IdBound     \* a bound on the library's counter

ASSUME LibraryAssumption ==
  /\ Gap \in Nat \ {0}
  /\ WordSize \in Nat \ {0} /\ LongSize \in Nat \ {0}
  /\ WordSize <= LongSize
  /\ MaxIds \in Nat /\ MaxStmts \in Nat
  /\ MaxLevels \in Nat /\ IdBound \in Nat

VARIABLES
  pc,                          \* where fuzz_one is
  query_instan_data,           \* the library
  query_instan_data_snapshot,
  instan_idx,                  \* counter of the run's generator
  global_instan_idx,           \* counter of the process
  cur_stmt,                    \* the statement at hand
  original,                    \* position in saved of the one it mutates, or 0
  run,                         \* the good statements of the run
  saved,                       \* a sequence in the queue
  borrowing,                   \* the run mutates saved
  database,                    \* the tables that exist in the DBMS
  savepoints,                  \* the tables at the BEGIN and at each savepoint
  failed,                      \* the open transaction can only be rolled back
  skewed                       \* tables of which the library cannot know

libVars == <<query_instan_data, query_instan_data_snapshot>>
counters == <<instan_idx, global_instan_idx>>
session == <<database, savepoints, failed>>
vars == <<pc, libVars, counters, cur_stmt, original, run, saved, borrowing,
          session, skewed>>

FirstTable == -1   \* v00, which the bootstrap creates: no number has that form
Id == Nat \cup {FirstTable}

Library == [g_id_counter : Nat,
            v_table_names : SUBSET Id,
            v_create_table_names_single : SUBSET Id]

(* The numbers in a statement's text, the tables it creates and drops, and *)
(* the part of its query_instan_data that is read again.                   *)
Statement == [ids : SUBSET Id, creates : SUBSET Id, drops : SUBSET Id,
              single : SUBSET Id, counter : Nat]

NoStatement == [ids |-> {}, creates |-> {}, drops |-> {},
                single |-> {}, counter |-> 0]

-----------------------------------------------------------------------------
(* Counters                                                                *)

(* x - x % 100 + 100 in unsigned long long arithmetic.                     *)
NextGap(x) == (x - (x % Gap) + Gap) % LongSize

(* static_cast<int> of an unsigned, passed as an unsigned long long.       *)
AsCounter(x) == IF 2 * x < WordSize THEN x ELSE LongSize - WordSize + x

MaxOf(x, y) == IF x < y THEN y ELSE x

set_instan_gen_id(idx, in) == NextGap(MaxOf(idx, in))

reset_data_library_single_stmt(lib) ==
  [lib EXCEPT !.g_id_counter = NextGap(@), !.v_create_table_names_single = {}]

-----------------------------------------------------------------------------
Init ==
  /\ pc = "main"
  /\ query_instan_data = [g_id_counter |-> 0, v_table_names |-> {FirstTable},
                          v_create_table_names_single |-> {}]
  /\ query_instan_data_snapshot = query_instan_data
  /\ instan_idx = 0 /\ global_instan_idx = 0
  /\ cur_stmt = NoStatement /\ original = 0
  /\ run = <<>> /\ saved = <<>> /\ borrowing = FALSE
  /\ database = {FirstTable} /\ savepoints = <<>> /\ failed = FALSE
  /\ skewed = {}

(* restart_dbms and the first table.  If the session has not been lost, a  *)
(* transaction of the run before is still open, spoilt by the DROP         *)
(* DATABASE at the latest; then the table is not created.                  *)
reset_database ==
  \/ /\ database' = {FirstTable} /\ savepoints' = <<>> /\ failed' = FALSE
  \/ /\ savepoints # <<>>
     /\ database' = IF failed THEN database ELSE {}
     /\ failed' = TRUE
     /\ UNCHANGED savepoints

(* A new database, a new library and a new generator; the counter of the   *)
(* process goes on.                                                        *)
StartRun ==
  /\ pc = "main"
  /\ query_instan_data' =
       [g_id_counter |-> 0, v_table_names |-> {FirstTable},
        v_create_table_names_single |-> {}]
  /\ query_instan_data_snapshot' = query_instan_data'
  /\ instan_idx' = 0
  /\ run' = <<>>
  /\ borrowing' \in IF saved = <<>> THEN {FALSE} ELSE BOOLEAN
  /\ reset_database
  /\ skewed' = (database' \ {FirstTable}) \cup ({FirstTable} \ database')
  /\ pc' = "generate"
  /\ UNCHANGED <<global_instan_idx, cur_stmt, original, saved>>

(* The library as a statement is about to be filled in.                    *)
Prepared == reset_data_library_single_stmt(query_instan_data)

(* Slip: the counter of the process is not handed to the new library.      *)
FirstIdOfLibraryOnly == Prepared.g_id_counter

(* The first number it will take.                                          *)
FirstId == MaxOf(Prepared.g_id_counter, AsCounter(global_instan_idx))

(* generate_next_query: a mutating run moves its own counter past the one  *)
(* of the borrowed sequence.                                               *)
Generate ==
  /\ pc = "generate"
  /\ Len(run) < MaxStmts /\ MaxOf(instan_idx, FirstId) + MaxIds <= IdBound
  /\ original' \in IF borrowing THEN 0..Len(saved) ELSE {0}
  /\ instan_idx' = IF borrowing
                   THEN set_instan_gen_id(instan_idx, saved[Len(saved)].counter)
                   ELSE instan_idx
  /\ pc' = "generated"
  /\ UNCHANGED <<libVars, global_instan_idx, cur_stmt, run, saved, borrowing,
                 session, skewed>>

(* The statement it is mutated from.                                       *)
Source == IF original = 0 THEN NoStatement ELSE saved[original]

(* The numbers of the names a statement defines anew.                      *)
Taken(n) == {(FirstId + i) % LongSize : i \in 0..(n - 1)}

(* What instan_dependency makes of the library and of the statement: n     *)
(* numbers are taken, some for new tables; a table may be chosen to be     *)
(* dropped; the names kept from the source statement stay in the text.  A  *)
(* source's definitions are merged whether the text keeps them or not, and *)
(* a DROP in the text that was kept is not looked at again.                *)
Fill(n, new, dropped, kept) ==
  LET single == Source.single \cup new
  IN  /\ query_instan_data' =
           [g_id_counter |-> (FirstId + n) % LongSize,
            v_table_names |-> (Prepared.v_table_names \ dropped) \cup single,
            v_create_table_names_single |-> single]
      /\ cur_stmt' =
           [ids |-> kept \cup Taken(n) \cup dropped,
            creates |-> (kept \cap Source.creates) \cup new,
            drops |-> (kept \cap Source.drops) \cup dropped,
            single |-> single,
            counter |-> query_instan_data'.g_id_counter]
      /\ skewed' = skewed \cup (single \ cur_stmt'.creates)
                          \cup (kept \cap Source.drops)

Instantiate ==
  /\ pc = "generated"
  /\ query_instan_data_snapshot' = Prepared
  /\ \E n \in 0..MaxIds :
       \E new \in SUBSET Taken(n), kept \in SUBSET Source.ids,
          dropped \in {{}} \cup {{t} : t \in Prepared.v_table_names} :
         Fill(n, new, dropped, kept)
  /\ instan_idx' = set_instan_gen_id(instan_idx, query_instan_data'.g_id_counter)
  /\ global_instan_idx' = instan_idx' % WordSize
  /\ pc' = "filled"
  /\ UNCHANGED <<original, run, saved, borrowing, session>>

(* Slip: the statement at hand keeps the position of the previous one.     *)
NextStatementKeepingSource ==
  /\ pc' = "generate"
  /\ UNCHANGED original
  /\ cur_stmt' = NoStatement

NextStatement ==
  /\ pc' = "generate"
  /\ original' = 0
  /\ cur_stmt' = NoStatement

(* The statement is empty or too long and not filled in at all.            *)
SkipStatement ==
  /\ pc = "generated"
  /\ NextStatement
  /\ UNCHANGED <<libVars, counters, run, saved, borrowing, session, skewed>>

(* The statement nests too deep: only the library's counter has moved.     *)
RefuseStatement ==
  /\ pc = "generated"
  /\ query_instan_data_snapshot' = Prepared
  /\ query_instan_data' =
       [Prepared EXCEPT !.g_id_counter = FirstId,
                        !.v_create_table_names_single = Source.single]
  /\ NextStatement
  /\ UNCHANGED <<counters, run, saved, borrowing, session, skewed>>

(* Filling it in dropped the part that was to be mutated.  The library     *)
(* keeps what it learnt, the counters of run and process have not moved.   *)
InstantiateConflict ==
  /\ pc = "generated"
  /\ query_instan_data_snapshot' = Prepared
  /\ \E n \in 0..MaxIds :
       \E new \in SUBSET Taken(n),
          dropped \in {{}} \cup {{t} : t \in Prepared.v_table_names} :
         /\ query_instan_data' =
              [g_id_counter |-> (FirstId + n) % LongSize,
               v_table_names |-> (Prepared.v_table_names \ dropped)
                                 \cup Source.single \cup new,
               v_create_table_names_single |-> Source.single \cup new]
         /\ skewed' = skewed \cup Source.single \cup new \cup dropped
  /\ NextStatement
  /\ UNCHANGED <<counters, run, saved, borrowing, session>>

(* The text has become too long to be executed.                            *)
DropFilled ==
  /\ pc = "filled"
  /\ skewed' = skewed \cup cur_stmt.single \cup cur_stmt.drops
  /\ NextStatement
  /\ UNCHANGED <<libVars, counters, run, saved, borrowing, session>>

-----------------------------------------------------------------------------
(* Execution by the DBMS                                                   *)

Effect(db, stmt) == (db \ stmt.drops) \cup stmt.creates

Works(stmt) ==
  /\ ~failed
  /\ database' = Effect(database, stmt)
  /\ UNCHANGED <<savepoints, failed>>

(* An error spoils an open transaction.                                    *)
Fails ==
  /\ failed' = (savepoints # <<>>)
  /\ UNCHANGED <<database, savepoints>>

(* BEGIN or SAVEPOINT.                                                     *)
OpenLevel ==
  /\ ~failed /\ Len(savepoints) < MaxLevels
  /\ savepoints' = Append(savepoints, database)
  /\ UNCHANGED <<database, failed>>

(* RELEASE of a savepoint, or COMMIT.                                      *)
CloseLevel ==
  /\ ~failed
  /\ \E level \in DOMAIN savepoints : savepoints' = SubSeq(savepoints, 1, level - 1)
  /\ UNCHANGED <<database, failed>>

(* ROLLBACK TO a savepoint, or ROLLBACK (or a COMMIT if spoilt), which may *)
(* chain a new transaction.                                                *)
Rollback ==
  /\ failed' = FALSE
  /\ \E level \in DOMAIN savepoints :
       /\ database' = savepoints[level]
       /\ \/ savepoints' = SubSeq(savepoints, 1, level)
          \/ level = 1 /\ savepoints' = <<>>

(* A transaction command creates and drops nothing.                        *)
Controls(stmt) ==
  /\ stmt.creates = {} /\ stmt.drops = {}
  /\ OpenLevel \/ CloseLevel \/ Rollback

(* The session ends, with the server or with the connection, and the open  *)
(* transaction with it; the statement or the COMMIT may have come through. *)
LosesSession(stmt) ==
  /\ database' \in IF savepoints = <<>>
                    THEN {database, Effect(database, stmt)}
                    ELSE {savepoints[1]} \cup IF failed THEN {} ELSE {database}
  /\ savepoints' = <<>> /\ failed' = FALSE

(* What has become of the database without the library being told.         *)
Untold ==
  skewed' = skewed \cup (database \ database') \cup (database' \ database)

ExecuteNormal ==
  /\ pc = "filled" /\ ~failed
  /\ \/ Works(cur_stmt) /\ UNCHANGED skewed
     \/ Controls(cur_stmt) /\ Untold
  /\ run' = Append(run, cur_stmt)
  /\ NextStatement
  /\ UNCHANGED <<libVars, counters, saved, borrowing>>

(* The server goes down under the statement, yet its result reads as       *)
(* normal: whether it took effect is not known.                            *)
ExecuteCrash ==
  /\ pc = "filled"
  /\ LosesSession(cur_stmt)
  /\ skewed' = skewed \cup cur_stmt.single \cup cur_stmt.drops
                      \cup (database \ database') \cup (database' \ database)
  /\ run' = Append(run, cur_stmt)
  /\ NextStatement
  /\ UNCHANGED <<libVars, counters, saved, borrowing>>

(* Slip: the snapshot is not put back.                                     *)
rollback_instan_lib_changesMissing == UNCHANGED query_instan_data

rollback_instan_lib_changes == query_instan_data' = query_instan_data_snapshot

(* The result reads as an error.  One of several pieces of the statement   *)
(* may have worked, or, in a spoilt transaction, all but the time limit    *)
(* that is set first.                                                      *)
ExecuteError ==
  /\ pc = "filled"
  /\ rollback_instan_lib_changes
  /\ Fails \/ Works(cur_stmt) \/ Controls(cur_stmt) \/ LosesSession(cur_stmt)
  /\ Untold
  /\ pc' = IF original = 0 THEN "generate" ELSE "fallback"
  /\ cur_stmt' = NoStatement
  /\ UNCHANGED <<query_instan_data_snapshot, counters, original, run, saved,
                 borrowing>>

(* The source of the refused statement is executed in its place, and the   *)
(* library is not told.                                                    *)
ExecuteFallback ==
  /\ pc = "fallback"
  /\ Fails \/ Works(Source) \/ Controls(Source) \/ LosesSession(Source)
  /\ Untold
  /\ run' = Append(run, Source)
  /\ NextStatement
  /\ UNCHANGED <<libVars, counters, saved, borrowing>>

ExecuteInternalError ==
  /\ pc = "filled"
  /\ rollback_instan_lib_changes
  /\ Fails \/ LosesSession(cur_stmt)
  /\ Untold
  /\ pc' = "finish" /\ original' = 0 /\ cur_stmt' = NoStatement
  /\ UNCHANGED <<query_instan_data_snapshot, counters, run, saved, borrowing>>

-----------------------------------------------------------------------------
(* A run may end after any statement, and its sequence may be saved.       *)
EndRun ==
  /\ pc \in {"generate", "finish"}
  /\ pc' = "main"
  /\ saved' \in IF run = <<>> THEN {saved} ELSE {saved, run}
  /\ run' = <<>> /\ borrowing' = FALSE
  /\ UNCHANGED <<libVars, counters, cur_stmt, original, session, skewed>>

Next ==
  \/ StartRun
  \/ Generate
  \/ Instantiate
  \/ SkipStatement
  \/ RefuseStatement
  \/ InstantiateConflict
  \/ DropFilled
  \/ ExecuteNormal
  \/ ExecuteCrash
  \/ ExecuteError
  \/ ExecuteFallback
  \/ ExecuteInternalError
  \/ EndRun

Spec == Init /\ [][Next]_vars

-----------------------------------------------------------------------------
(* Properties                                                              *)

TypeOK ==
  /\ pc \in {"main", "generate", "generated", "filled", "fallback", "finish"}
  /\ query_instan_data \in Library
  /\ query_instan_data_snapshot \in Library
  /\ instan_idx \in Nat /\ global_instan_idx \in Nat
  /\ cur_stmt \in Statement
  /\ run \in Seq(Statement) /\ saved \in Seq(Statement)
  /\ borrowing \in BOOLEAN
  /\ original \in 0..Len(saved)
  /\ database \in SUBSET Id /\ skewed \in SUBSET Id
  /\ savepoints \in Seq(SUBSET Id) /\ failed \in BOOLEAN
  /\ failed => savepoints # <<>>

IdsOf(stmts) == UNION {stmts[i].ids : i \in DOMAIN stmts}

(* Tables that a rollback brings back.                                     *)
Undoable == UNION {savepoints[i] : i \in DOMAIN savepoints}

(* A name that is about to be given to a new object is not the name of an  *)
(* object of the database or of one that a rollback brings back, and       *)
(* occurs neither in a statement of the run nor in the saved sequence that *)
(* is mutated: the gaps between statements, the counters of run, process   *)
(* and library, the snapshot and the new library of every run keep the     *)
(* numbers apart, also from a transaction of the run before.               *)
FreshNames ==
  pc = "generated" =>
    Taken(MaxIds)
      \cap (database \cup Undoable \cup IdsOf(run) \cup IdsOf(saved)) = {}

(* The library and the database agree on which tables there are, but for   *)
(* those whose fate it has no means to know: undone with a transaction,    *)
(* left over by one that the reset could not end, changed by a fallback or *)
(* a piece of a refused statement, by a server that went down, by a        *)
(* statement deleted after it was filled in, or in a kept part that was    *)
(* not looked at again.  A refused statement leaves no trace in the        *)
(* library, whatever was undone or committed since its snapshot.           *)
LibraryTracksDatabase ==
  pc # "filled" =>
    /\ query_instan_data.v_table_names \ database \subseteq skewed
    /\ database \ query_instan_data.v_table_names \subseteq skewed

(* The counters do not reach the width of a word.                          *)
NoWrap == 2 * (IdBound + 2 * Gap) < WordSize
=============================================================================
