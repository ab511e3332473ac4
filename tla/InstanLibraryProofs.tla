------------------------- MODULE InstanLibraryProofs -------------------------
(***************************************************************************)
(* What InstanLibrary guarantees for every gap, word size and number of    *)
(* statements: its variables keep their types, the library tracks the      *)
(* database, and, short of a wrap of the process counter, new names are    *)
(* fresh.                                                                  *)
(***************************************************************************)
EXTENDS InstanLibrary, TLAPS

-----------------------------------------------------------------------------
(* Counters                                                                *)

(* A remainder is below the divisor.                                       *)
LEMMA ModRange ==
  ASSUME NEW x \in Nat, NEW d \in Nat \ {0}
  PROVE  x % d \in 0..(d - 1)
  BY SMT

(* A number below the divisor is its own remainder.                        *)
LEMMA ModSmall ==
  ASSUME NEW x \in Nat, NEW d \in Nat \ {0}, x < d
  PROVE  x % d = x
  BY SMT

(* Rounding up to the next gap yields a number.                            *)
LEMMA NextGapType ==
  ASSUME NEW x \in Nat
  PROVE  NextGap(x) \in Nat
  BY ModRange, LibraryAssumption DEF NextGap

(* As long as it does not reach the width, rounding up moves a counter by  *)
(* at least one and at most a gap.                                         *)
LEMMA NextGapBounds ==
  ASSUME NEW x \in Nat, x + Gap < LongSize
  PROVE  NextGap(x) > x /\ NextGap(x) <= x + Gap
<1> DEFINE y == x - (x % Gap) + Gap
<1>1. x % Gap \in 0..(Gap - 1)
  BY ModRange, LibraryAssumption
<1>2. y \in Nat /\ y > x /\ y <= x + Gap
  BY <1>1, LibraryAssumption
<1>3. y % LongSize = y
  <2>1. y < LongSize
    BY <1>2, LibraryAssumption
  <2>. QED  BY <2>1, <1>2, ModSmall, LibraryAssumption
<1>. QED  BY <1>2, <1>3 DEF NextGap

(* The library at the start of a fill, and the first number it takes.      *)
LEMMA FirstIdType ==
  ASSUME TypeOK
  PROVE  /\ Prepared \in Library
         /\ FirstId \in Nat
<1>1. query_instan_data.g_id_counter \in Nat
  BY DEF TypeOK, Library
<1>2. NextGap(query_instan_data.g_id_counter) \in Nat
  BY <1>1, NextGapType
<1>3. Prepared \in Library
  BY <1>2 DEF TypeOK, Library, Prepared, reset_data_library_single_stmt
<1>4. AsCounter(global_instan_idx) \in Nat
  BY LibraryAssumption DEF TypeOK, AsCounter
<1>. QED  BY <1>3, <1>4 DEF FirstId, MaxOf, Library

(* The counter of the process after a fill is a number.                    *)
LEMMA SetIdType ==
  ASSUME NEW idx \in Nat, NEW in \in Nat
  PROVE  set_instan_gen_id(idx, in) \in Nat
  BY NextGapType DEF set_instan_gen_id, MaxOf

(* The numbers a fill takes are numbers.                                   *)
LEMMA TakenType ==
  ASSUME TypeOK, NEW n \in 0..MaxIds
  PROVE  Taken(n) \in SUBSET Id
<1>1. \A i \in 0..(n - 1) : (FirstId + i) % LongSize \in Nat
  BY FirstIdType, ModRange, LibraryAssumption
<1>. QED  BY <1>1 DEF Taken, Id

-----------------------------------------------------------------------------
(* The library tracks the database                                         *)

SessionOK ==
  /\ database \in SUBSET Id
  /\ savepoints \in Seq(SUBSET Id)
  /\ failed \in BOOLEAN
  /\ failed => savepoints # <<>>

(* What the DBMS may make of a statement.                                  *)
Executed(stmt) ==
  Fails \/ Works(stmt) \/ Controls(stmt) \/ LosesSession(stmt)

(* No transaction.                                                         *)
LEMMA NoSavepoints == <<>> \in Seq(SUBSET Id) /\ DOMAIN <<>> = {}
  OBVIOUS

(* Whatever it makes of it, tables and transaction keep their types.       *)
LEMMA ExecutedType ==
  \A stmt \in Statement : SessionOK /\ Executed(stmt) => SessionOK'
<1>. SUFFICES ASSUME NEW stmt \in Statement, SessionOK, Executed(stmt)
              PROVE  SessionOK'
  OBVIOUS
<1>1. Effect(database, stmt) \in SUBSET Id
  BY DEF Effect, SessionOK, Statement
<1>2. CASE Fails
  <2>1. failed' \in BOOLEAN
    BY <1>2 DEF Fails
  <2>. QED  BY <1>2, <2>1 DEF Fails, SessionOK
<1>3. CASE Works(stmt)
  BY <1>1, <1>3 DEF Works, SessionOK
<1>4. CASE OpenLevel
  BY <1>4 DEF OpenLevel, SessionOK
<1>5. CASE CloseLevel
  <2>1. PICK level \in DOMAIN savepoints :
          savepoints' = SubSeq(savepoints, 1, level - 1)
    BY <1>5 DEF CloseLevel
  <2>2. savepoints' \in Seq(SUBSET Id)
    BY <2>1 DEF SessionOK
  <2>. QED  BY <1>5, <2>2 DEF CloseLevel, SessionOK
<1>6. CASE Rollback
  <2>1. PICK level \in DOMAIN savepoints :
          /\ database' = savepoints[level]
          /\ \/ savepoints' = SubSeq(savepoints, 1, level)
             \/ level = 1 /\ savepoints' = <<>>
    BY <1>6 DEF Rollback
  <2>2. database' \in SUBSET Id
    BY <2>1 DEF SessionOK
  <2>3. SubSeq(savepoints, 1, level) \in Seq(SUBSET Id)
    BY DEF SessionOK
  <2>4. savepoints' \in Seq(SUBSET Id)
    BY <2>1, <2>3, NoSavepoints
  <2>5. failed' = FALSE
    BY <1>6 DEF Rollback
  <2>. QED  BY <2>2, <2>4, <2>5 DEF SessionOK
<1>7. CASE LosesSession(stmt)
  <2>1. savepoints # <<>> => savepoints[1] \in SUBSET Id
    BY DEF SessionOK
  <2>2. database' \in SUBSET Id
    BY <1>1, <1>7, <2>1 DEF LosesSession, SessionOK
  <2>3. savepoints' = <<>> /\ failed' = FALSE
    BY <1>7 DEF LosesSession
  <2>4. savepoints' \in Seq(SUBSET Id)
    BY <2>3, NoSavepoints
  <2>. QED  BY <2>2, <2>3, <2>4 DEF SessionOK
<1>. QED  BY <1>2, <1>3, <1>4, <1>5, <1>6, <1>7 DEF Executed, Controls

(* Two views of the tables agree but for skewed ones.                      *)
Agree(lib, db) == lib \ db \subseteq skewed /\ db \ lib \subseteq skewed

(* A statement's data names the tables it creates.                         *)
CreatesKnown(stmt) == stmt.creates \subseteq stmt.single

LibraryInv ==
  /\ TypeOK
  /\ borrowing => saved # <<>>
  /\ pc \notin {"generated", "filled", "fallback"} => original = 0
  /\ \A i \in DOMAIN saved : CreatesKnown(saved[i])
  /\ \A i \in DOMAIN run : CreatesKnown(run[i])
  /\ CreatesKnown(cur_stmt)
  /\ pc # "filled" => Agree(query_instan_data.v_table_names, database)
  /\ pc = "filled" =>
       /\ Agree(query_instan_data_snapshot.v_table_names, database)
       /\ Agree(query_instan_data.v_table_names, Effect(database, cur_stmt))

(* Library and database start with the same table.                         *)
LEMMA LibraryInvInit == Init => LibraryInv
<1>. SUFFICES ASSUME Init PROVE LibraryInv
  OBVIOUS
<1>1. {FirstTable} \in SUBSET Id /\ NoStatement \in Statement
  BY DEF Id, NoStatement, Statement
<1>2. query_instan_data \in Library
  BY <1>1 DEF Init, Library
<1>3. TypeOK
  <2>1. run \in Seq(Statement) /\ saved \in Seq(Statement)
    BY DEF Init
  <2>2. original \in 0..Len(saved)
    BY DEF Init
  <2>3. savepoints \in Seq(SUBSET Id) /\ failed = FALSE
    BY DEF Init
  <2>. QED  BY <1>1, <1>2, <2>1, <2>2, <2>3 DEF Init, TypeOK
<1>4. CreatesKnown(cur_stmt) /\ Agree(query_instan_data.v_table_names, database)
  BY DEF Init, NoStatement, CreatesKnown, Agree
<1>. QED  BY <1>3, <1>4 DEF Init, LibraryInv

(* The statement a mutation starts from is one of the saved ones, or none. *)
LEMMA SourceType ==
  ASSUME LibraryInv
  PROVE  Source \in Statement /\ CreatesKnown(Source)
<1>1. CASE original = 0
  BY <1>1 DEF Source, NoStatement, Statement, CreatesKnown
<1>2. CASE original # 0
  <2>1. original \in DOMAIN saved
    BY <1>2 DEF LibraryInv, TypeOK
  <2>. QED  BY <1>2, <2>1 DEF LibraryInv, TypeOK, Source
<1>. QED  BY <1>1, <1>2

(* A fill that succeeds leaves a snapshot that agrees with the database    *)
(* and a library that agrees with it once the statement is executed.       *)
LEMMA InstantiateType ==
  ASSUME LibraryInv, Instantiate
  PROVE  /\ TypeOK'
         /\ CreatesKnown(cur_stmt')
         /\ Agree(query_instan_data.v_table_names, database) =>
              /\ Agree(query_instan_data_snapshot.v_table_names, database)'
              /\ Agree(query_instan_data.v_table_names,
                       Effect(database, cur_stmt))'
<1>. USE DEF session
<1>1. PICK n \in 0..MaxIds :
        \E new \in SUBSET Taken(n), kept \in SUBSET Source.ids,
           dropped \in {{}} \cup {{t} : t \in Prepared.v_table_names} :
          Fill(n, new, dropped, kept)
  BY DEF Instantiate
<1>2. PICK new \in SUBSET Taken(n), kept \in SUBSET Source.ids,
           dropped \in {{}} \cup {{t} : t \in Prepared.v_table_names} :
          Fill(n, new, dropped, kept)
  BY <1>1
<1>3. /\ Source \in Statement /\ CreatesKnown(Source)
      /\ Prepared \in Library /\ FirstId \in Nat
      /\ Taken(n) \in SUBSET Id
  BY SourceType, FirstIdType, TakenType DEF LibraryInv
<1>4. /\ new \in SUBSET Id /\ kept \in SUBSET Id /\ dropped \in SUBSET Id
      /\ Source.single \in SUBSET Id
  BY <1>3 DEF Statement, Library
<1>5. (FirstId + n) % LongSize \in Nat
  BY <1>3, ModRange, LibraryAssumption
<1>6. /\ query_instan_data' \in Library
      /\ query_instan_data'.g_id_counter \in Nat
  BY <1>2, <1>3, <1>4, <1>5 DEF Fill, Library
<1>7. cur_stmt' \in Statement /\ CreatesKnown(cur_stmt')
  BY <1>2, <1>3, <1>4, <1>6 DEF Fill, Statement, CreatesKnown
<1>8. skewed' \in SUBSET Id
  BY <1>2, <1>4 DEF Fill, LibraryInv, TypeOK
<1>9. instan_idx' \in Nat /\ global_instan_idx' \in Nat
  <2>1. instan_idx' = set_instan_gen_id(instan_idx, query_instan_data'.g_id_counter)
        /\ global_instan_idx' = instan_idx' % WordSize /\ instan_idx \in Nat
    BY DEF Instantiate, LibraryInv, TypeOK
  <2>2. instan_idx' \in Nat
    BY <1>6, <2>1, SetIdType
  <2>. QED  BY <2>1, <2>2, ModRange, LibraryAssumption
<1>10. TypeOK'
  BY <1>3, <1>6, <1>7, <1>8, <1>9 DEF Instantiate, LibraryInv, TypeOK
<1>11. Prepared.v_table_names = query_instan_data.v_table_names
  BY DEF Prepared, reset_data_library_single_stmt, LibraryInv, TypeOK, Library
<1>12. ASSUME Agree(query_instan_data.v_table_names, database)
       PROVE  /\ Agree(query_instan_data_snapshot.v_table_names, database)'
              /\ Agree(query_instan_data.v_table_names,
                       Effect(database, cur_stmt))'
  <2>1. skewed \subseteq skewed'
    BY <1>2 DEF Fill
  <2>2. query_instan_data_snapshot' = Prepared /\ database' = database
    BY DEF Instantiate
  <2>3. Agree(query_instan_data_snapshot.v_table_names, database)'
    BY <1>11, <1>12, <2>1, <2>2 DEF Agree
  <2>. DEFINE old == query_instan_data.v_table_names
              single == Source.single \cup new
  <2>4. /\ query_instan_data'.v_table_names = (old \ dropped) \cup single
        /\ cur_stmt'.creates = (kept \cap Source.creates) \cup new
        /\ cur_stmt'.drops = (kept \cap Source.drops) \cup dropped
        /\ skewed' = skewed \cup (single \ cur_stmt'.creates)
                            \cup (kept \cap Source.drops)
    BY <1>2, <1>11 DEF Fill
  <2>5. cur_stmt'.creates \subseteq single
    BY <2>4, <1>3 DEF CreatesKnown
  <2>6. old \ database \subseteq skewed /\ database \ old \subseteq skewed
    BY <1>12 DEF Agree
  <2>. HIDE DEF old, single
  <2>7. Agree(query_instan_data.v_table_names, Effect(database, cur_stmt))'
    BY <2>2, <2>4, <2>5, <2>6 DEF Agree, Effect
  <2>. QED  BY <2>3, <2>7
<1>. QED  BY <1>7, <1>10, <1>12

(* The invariant is inductive.                                             *)
LEMMA LibraryInvNext == LibraryInv /\ [Next]_vars => LibraryInv'
<1>. SUFFICES ASSUME LibraryInv, [Next]_vars PROVE LibraryInv'
  OBVIOUS
<1>. USE DEF CreatesKnown, session
<1>0. SessionOK /\ cur_stmt \in Statement
  BY DEF SessionOK, LibraryInv, TypeOK
<1>1. ASSUME StartRun PROVE LibraryInv'
  <2>1. {FirstTable} \in SUBSET Id
    BY DEF Id
  <2>2. query_instan_data' \in Library /\ query_instan_data_snapshot' \in Library
    BY <1>1, <2>1 DEF StartRun, Library
  <2>3. (borrowing => saved # <<>>)' /\ borrowing' \in BOOLEAN
    BY <1>1 DEF StartRun
  <2>4. run' \in Seq(Statement) /\ DOMAIN run' = {}
    BY <1>1 DEF StartRun
  <2>5. SessionOK'
    <3>1. CASE /\ database' = {FirstTable} /\ savepoints' = <<>>
               /\ failed' = FALSE
      BY <2>1, <3>1, NoSavepoints DEF SessionOK
    <3>2. CASE /\ savepoints # <<>> /\ UNCHANGED savepoints
               /\ database' = IF failed THEN database ELSE {}
               /\ failed' = TRUE
      <4>1. database' \in SUBSET Id
        BY <1>0, <3>2 DEF SessionOK
      <4>. QED  BY <1>0, <3>2, <4>1 DEF SessionOK
    <3>. QED  BY <1>1, <3>1, <3>2 DEF StartRun, reset_database
  <2>6. skewed' \in SUBSET Id
    BY <1>1, <2>1, <2>5 DEF StartRun, SessionOK
  <2>7. TypeOK'
    BY <1>1, <2>2, <2>3, <2>4, <2>5, <2>6
       DEF StartRun, SessionOK, LibraryInv, TypeOK
  <2>8. Agree(query_instan_data.v_table_names, database)'
    BY <1>1 DEF StartRun, Agree
  <2>. QED  BY <1>1, <2>3, <2>4, <2>7, <2>8 DEF StartRun, LibraryInv
<1>2. ASSUME Generate PROVE LibraryInv'
  <2>1. instan_idx' \in Nat
    <3>1. CASE borrowing
      <4>1. Len(saved) \in DOMAIN saved
        BY <3>1 DEF LibraryInv, TypeOK
      <4>2. saved[Len(saved)] \in Statement
        BY <4>1 DEF LibraryInv, TypeOK
      <4>3. saved[Len(saved)].counter \in Nat
        BY <4>2 DEF Statement
      <4>. QED  BY <1>2, <3>1, <4>3, SetIdType DEF Generate, LibraryInv, TypeOK
    <3>2. CASE ~borrowing
      BY <1>2, <3>2 DEF Generate, LibraryInv, TypeOK
    <3>. QED  BY <3>1, <3>2
  <2>2. original' \in 0..Len(saved)
    BY <1>2 DEF Generate, LibraryInv, TypeOK
  <2>3. TypeOK'
    BY <1>2, <2>1, <2>2 DEF Generate, libVars, LibraryInv, TypeOK
  <2>4. Agree(query_instan_data.v_table_names, database)'
    BY <1>2 DEF Generate, libVars, LibraryInv, Agree
  <2>. QED  BY <1>2, <2>3, <2>4 DEF Generate, LibraryInv
<1>3. ASSUME Instantiate PROVE LibraryInv'
  BY <1>3, InstantiateType DEF Instantiate, LibraryInv
<1>4. ASSUME SkipStatement PROVE LibraryInv'
  BY <1>4 DEF SkipStatement, NextStatement, libVars, counters, LibraryInv,
              TypeOK, Agree, NoStatement, Statement
<1>5. ASSUME RefuseStatement PROVE LibraryInv'
  <2>1. /\ query_instan_data' \in Library
        /\ query_instan_data_snapshot' \in Library
        /\ query_instan_data'.v_table_names = query_instan_data.v_table_names
    <3>1. Prepared \in Library /\ FirstId \in Nat /\ Source \in Statement
      BY FirstIdType, SourceType DEF LibraryInv
    <3>2. Prepared.v_table_names = query_instan_data.v_table_names
      BY DEF Prepared, reset_data_library_single_stmt, LibraryInv, TypeOK, Library
    <3>3. query_instan_data' =
            [g_id_counter |-> FirstId,
             v_table_names |-> Prepared.v_table_names,
             v_create_table_names_single |-> Source.single]
      BY <1>5, <3>1 DEF RefuseStatement, Library
    <3>. QED  BY <1>5, <3>1, <3>2, <3>3 DEF RefuseStatement, Library, Statement
  <2>. QED  BY <1>5, <2>1
            DEF RefuseStatement, NextStatement, counters, LibraryInv, TypeOK,
                Agree, NoStatement, Statement
<1>6. ASSUME InstantiateConflict PROVE LibraryInv'
  <2>1. PICK n \in 0..MaxIds :
          \E new \in SUBSET Taken(n),
             dropped \in {{}} \cup {{t} : t \in Prepared.v_table_names} :
            /\ query_instan_data' =
                 [g_id_counter |-> (FirstId + n) % LongSize,
                  v_table_names |-> (Prepared.v_table_names \ dropped)
                                    \cup Source.single \cup new,
                  v_create_table_names_single |-> Source.single \cup new]
            /\ skewed' = skewed \cup Source.single \cup new \cup dropped
    BY <1>6 DEF InstantiateConflict
  <2>2. PICK new \in SUBSET Taken(n),
             dropped \in {{}} \cup {{t} : t \in Prepared.v_table_names} :
            /\ query_instan_data' =
                 [g_id_counter |-> (FirstId + n) % LongSize,
                  v_table_names |-> (Prepared.v_table_names \ dropped)
                                    \cup Source.single \cup new,
                  v_create_table_names_single |-> Source.single \cup new]
            /\ skewed' = skewed \cup Source.single \cup new \cup dropped
    BY <2>1
  <2>3. /\ Source.single \in SUBSET Id
        /\ Prepared \in Library /\ FirstId \in Nat
        /\ Taken(n) \in SUBSET Id
    BY SourceType, FirstIdType, TakenType DEF LibraryInv, Statement
  <2>4. (FirstId + n) % LongSize \in Nat
    BY <2>3, ModRange, LibraryAssumption
  <2>5. new \in SUBSET Id /\ dropped \in SUBSET Id
    BY <2>3 DEF Library
  <2>6. /\ query_instan_data' \in Library
        /\ query_instan_data_snapshot' \in Library
        /\ skewed' \in SUBSET Id
    BY <1>6, <2>2, <2>3, <2>4, <2>5
       DEF InstantiateConflict, Library, LibraryInv, TypeOK
  <2>7. Prepared.v_table_names = query_instan_data.v_table_names
    BY DEF Prepared, reset_data_library_single_stmt, LibraryInv, TypeOK, Library
  <2>8. Agree(query_instan_data.v_table_names, database)'
    <3>1. Agree(query_instan_data.v_table_names, database)
      BY <1>6 DEF InstantiateConflict, LibraryInv
    <3>. QED  BY <1>6, <2>2, <2>7, <3>1 DEF InstantiateConflict, Agree
  <2>. QED  BY <1>6, <2>6, <2>8
            DEF InstantiateConflict, NextStatement, counters, LibraryInv,
                TypeOK, NoStatement, Statement
<1>7. ASSUME DropFilled PROVE LibraryInv'
  <2>1. Agree(query_instan_data.v_table_names, Effect(database, cur_stmt))
    BY <1>7 DEF DropFilled, LibraryInv
  <2>2. Agree(query_instan_data.v_table_names, database)'
    BY <1>7, <2>1 DEF DropFilled, libVars, Agree, Effect, LibraryInv
  <2>3. skewed' \in SUBSET Id
    BY <1>7 DEF DropFilled, LibraryInv, TypeOK, Statement
  <2>. QED  BY <1>7, <2>2, <2>3
            DEF DropFilled, NextStatement, libVars, counters, LibraryInv,
                TypeOK, NoStatement, Statement
<1>8. ASSUME ExecuteNormal PROVE LibraryInv'
  <2>1. SessionOK'
    BY <1>8, <1>0, ExecutedType DEF ExecuteNormal, Executed, LibraryInv, TypeOK
  <2>2. Agree(query_instan_data.v_table_names, database)'
    <3>1. Agree(query_instan_data.v_table_names, Effect(database, cur_stmt))
      BY <1>8 DEF ExecuteNormal, LibraryInv
    <3>2. CASE Works(cur_stmt) /\ UNCHANGED skewed
      BY <1>8, <3>1, <3>2 DEF ExecuteNormal, Works, libVars, Agree
    <3>3. CASE Controls(cur_stmt) /\ Untold
      <4>1. Effect(database, cur_stmt) = database
        BY <1>0, <3>3 DEF Controls, Effect, SessionOK
      <4>. QED  BY <1>8, <3>1, <3>3, <4>1
                DEF ExecuteNormal, Untold, libVars, Agree
    <3>. QED  BY <1>8, <3>2, <3>3 DEF ExecuteNormal
  <2>3. skewed' \in SUBSET Id
    BY <1>8, <1>0, <2>1 DEF ExecuteNormal, Untold, SessionOK, LibraryInv, TypeOK
  <2>4. /\ run' \in Seq(Statement)
        /\ \A i \in DOMAIN run' : CreatesKnown(run'[i])
    BY <1>8 DEF ExecuteNormal, LibraryInv, TypeOK
  <2>. QED  BY <1>8, <2>1, <2>2, <2>3, <2>4
            DEF ExecuteNormal, NextStatement, libVars, counters, LibraryInv,
                TypeOK, SessionOK, NoStatement, Statement
<1>9. ASSUME ExecuteCrash PROVE LibraryInv'
  <2>1. Agree(query_instan_data.v_table_names, Effect(database, cur_stmt))
    BY <1>9 DEF ExecuteCrash, LibraryInv
  <2>2. Agree(query_instan_data.v_table_names, database)'
    BY <1>9, <2>1 DEF ExecuteCrash, libVars, Agree, Effect, LibraryInv
  <2>3. SessionOK'
    BY <1>9, <1>0, ExecutedType DEF ExecuteCrash, Executed, LibraryInv, TypeOK
  <2>4. skewed' \in SUBSET Id
    BY <1>9, <1>0, <2>3
       DEF ExecuteCrash, SessionOK, LibraryInv, TypeOK, Statement
  <2>5. /\ run' \in Seq(Statement)
        /\ \A i \in DOMAIN run' : CreatesKnown(run'[i])
    BY <1>9 DEF ExecuteCrash, LibraryInv, TypeOK
  <2>. QED  BY <1>9, <2>2, <2>3, <2>4, <2>5
            DEF ExecuteCrash, NextStatement, libVars, counters, LibraryInv,
                TypeOK, SessionOK, NoStatement, Statement
<1>10. ASSUME ExecuteError PROVE LibraryInv'
  <2>1. /\ Agree(query_instan_data_snapshot.v_table_names, database)
        /\ query_instan_data' = query_instan_data_snapshot
        /\ query_instan_data_snapshot \in Library
    BY <1>10 DEF ExecuteError, rollback_instan_lib_changes, LibraryInv, TypeOK
  <2>2. Agree(query_instan_data.v_table_names, database)'
    BY <1>10, <2>1 DEF ExecuteError, Untold, Agree
  <2>3. SessionOK'
    BY <1>10, <1>0, ExecutedType DEF ExecuteError, Executed, LibraryInv, TypeOK
  <2>4. skewed' \in SUBSET Id
    BY <1>10, <1>0, <2>3 DEF ExecuteError, Untold, SessionOK, LibraryInv, TypeOK
  <2>. QED  BY <1>10, <2>1, <2>2, <2>3, <2>4
            DEF ExecuteError, counters, LibraryInv, TypeOK, SessionOK,
                NoStatement, Statement
<1>11. ASSUME ExecuteFallback PROVE LibraryInv'
  <2>1. Source \in Statement /\ CreatesKnown(Source)
    BY SourceType
  <2>2. Agree(query_instan_data.v_table_names, database)'
    BY <1>11 DEF ExecuteFallback, Untold, libVars, LibraryInv, Agree
  <2>3. SessionOK'
    BY <1>11, <1>0, <2>1, ExecutedType DEF ExecuteFallback, Executed
  <2>4. skewed' \in SUBSET Id
    BY <1>11, <1>0, <2>3 DEF ExecuteFallback, Untold, SessionOK, LibraryInv, TypeOK
  <2>5. /\ run' \in Seq(Statement)
        /\ \A i \in DOMAIN run' : CreatesKnown(run'[i])
    BY <1>11, <2>1 DEF ExecuteFallback, LibraryInv, TypeOK
  <2>. QED  BY <1>11, <2>2, <2>3, <2>4, <2>5
            DEF ExecuteFallback, NextStatement, libVars, counters, LibraryInv,
                TypeOK, SessionOK, NoStatement, Statement
<1>12. ASSUME ExecuteInternalError PROVE LibraryInv'
  <2>1. /\ Agree(query_instan_data_snapshot.v_table_names, database)
        /\ query_instan_data' = query_instan_data_snapshot
        /\ query_instan_data_snapshot \in Library
    BY <1>12 DEF ExecuteInternalError, rollback_instan_lib_changes, LibraryInv,
                 TypeOK
  <2>2. Agree(query_instan_data.v_table_names, database)'
    BY <1>12, <2>1 DEF ExecuteInternalError, Untold, Agree
  <2>3. SessionOK'
    BY <1>12, <1>0, ExecutedType
       DEF ExecuteInternalError, Executed, LibraryInv, TypeOK
  <2>4. skewed' \in SUBSET Id
    BY <1>12, <1>0, <2>3
       DEF ExecuteInternalError, Untold, SessionOK, LibraryInv, TypeOK
  <2>. QED  BY <1>12, <2>1, <2>2, <2>3, <2>4
            DEF ExecuteInternalError, counters, LibraryInv, TypeOK, SessionOK,
                NoStatement, Statement
<1>13. ASSUME EndRun PROVE LibraryInv'
  <2>1. /\ saved' \in Seq(Statement) /\ run' \in Seq(Statement)
        /\ \A i \in DOMAIN saved' : CreatesKnown(saved'[i])
        /\ DOMAIN run' = {}
    BY <1>13 DEF EndRun, LibraryInv, TypeOK
  <2>2. original' = 0 /\ original' \in 0..Len(saved')
    BY <1>13, <2>1 DEF EndRun, LibraryInv
  <2>3. TypeOK'
    BY <1>13, <2>1, <2>2 DEF EndRun, libVars, counters, LibraryInv, TypeOK
  <2>4. Agree(query_instan_data.v_table_names, database)'
    BY <1>13 DEF EndRun, libVars, LibraryInv, Agree
  <2>. QED  BY <1>13, <2>1, <2>2, <2>3, <2>4 DEF EndRun, LibraryInv
<1>14. ASSUME UNCHANGED vars PROVE LibraryInv'
  BY <1>14 DEF vars, libVars, counters, LibraryInv, TypeOK, Agree, Effect
<1>. QED
  BY <1>1, <1>2, <1>3, <1>4, <1>5, <1>6, <1>7, <1>8, <1>9, <1>10, <1>11,
     <1>12, <1>13, <1>14 DEF Next

(* Types are kept, every statement names the tables it creates among its   *)
(* data, and library, snapshot and database agree where they have to.      *)
THEOREM LibraryInvariant == Spec => []LibraryInv
  BY LibraryInvInit, LibraryInvNext, PTL DEF Spec

(* The variables of the library keep their types.                          *)
THEOREM TypeCorrect == Spec => []TypeOK
<1>1. LibraryInv => TypeOK
  BY DEF LibraryInv
<1>. QED  BY <1>1, LibraryInvariant, PTL

(* At any time but while a statement is being executed the library and the *)
(* database agree on the tables, save those it cannot know of: the snapshot*)
(* taken before a statement is filled in is what an error restores.        *)
THEOREM LibraryTracks == Spec => []LibraryTracksDatabase
<1>1. LibraryInv => LibraryTracksDatabase
  BY DEF LibraryInv, LibraryTracksDatabase, Agree
<1>. QED  BY <1>1, LibraryInvariant, PTL

-----------------------------------------------------------------------------
(* New names are fresh                                                     *)

(* Every number is below a bound.                                          *)
Below(ids, bound) == \A id \in ids : id = FirstTable \/ id < bound

StatementBelow(stmt, bound) ==
  /\ Below(stmt.ids, bound)
  /\ Below(stmt.single, bound)
  /\ stmt.counter <= bound

LibraryBelow(lib) ==
  /\ lib.g_id_counter <= IdBound
  /\ Below(lib.v_table_names, MaxOf(global_instan_idx, lib.g_id_counter))

(* So are the tables, those included that a rollback brings back.          *)
DatabaseBelow(bound) ==
  /\ Below(database, bound)
  /\ \A i \in DOMAIN savepoints : Below(savepoints[i], bound)

FreshInv ==
  /\ LibraryInv
  /\ global_instan_idx <= IdBound + 2 * Gap
  /\ instan_idx <= IdBound + 2 * Gap
  /\ pc = "generated" => /\ instan_idx <= IdBound + Gap
                         /\ FirstId + MaxIds <= IdBound
  /\ \A i \in DOMAIN run : StatementBelow(run[i], global_instan_idx)
  /\ \A i \in DOMAIN saved : StatementBelow(saved[i], global_instan_idx)
  /\ StatementBelow(cur_stmt, global_instan_idx)
  /\ DatabaseBelow(global_instan_idx)
  /\ LibraryBelow(query_instan_data)
  /\ LibraryBelow(query_instan_data_snapshot)

(* Below the width of a word the first number to be taken is past the      *)
(* counters of the process and of the library.                             *)
LEMMA FirstIdAhead ==
  ASSUME NoWrap, FreshInv
  PROVE  /\ FirstId \in Nat
         /\ FirstId >= global_instan_idx
         /\ FirstId >= Prepared.g_id_counter
         /\ FirstId > query_instan_data.g_id_counter
         /\ Prepared.v_table_names = query_instan_data.v_table_names
<1>1. /\ query_instan_data.g_id_counter \in Nat
      /\ query_instan_data.g_id_counter <= IdBound
      /\ global_instan_idx \in Nat /\ global_instan_idx <= IdBound + 2 * Gap
  BY DEF FreshInv, LibraryInv, TypeOK, Library, LibraryBelow
<1>2. /\ Prepared.g_id_counter = NextGap(query_instan_data.g_id_counter)
      /\ Prepared.v_table_names = query_instan_data.v_table_names
  BY DEF Prepared, reset_data_library_single_stmt, FreshInv, LibraryInv,
         TypeOK, Library
<1>3. /\ NextGap(query_instan_data.g_id_counter) \in Nat
      /\ NextGap(query_instan_data.g_id_counter) > query_instan_data.g_id_counter
  BY <1>1, NextGapType, NextGapBounds, LibraryAssumption DEF NoWrap
<1>4. AsCounter(global_instan_idx) = global_instan_idx
  BY <1>1, LibraryAssumption DEF NoWrap, AsCounter
<1>. QED  BY <1>1, <1>2, <1>3, <1>4 DEF FirstId, MaxOf

(* Below the width of a word a fill takes consecutive numbers.             *)
LEMMA TakenAhead ==
  ASSUME NoWrap, FreshInv, pc = "generated", NEW n \in 0..MaxIds
  PROVE  Taken(n) \subseteq FirstId..(FirstId + n - 1)
<1>1. FirstId \in Nat /\ FirstId + MaxIds <= IdBound
  BY FirstIdAhead DEF FreshInv
<1>2. ASSUME NEW i \in 0..(n - 1) PROVE (FirstId + i) % LongSize = FirstId + i
  BY <1>1, ModSmall, LibraryAssumption DEF NoWrap
<1>. QED  BY <1>1, <1>2, LibraryAssumption DEF Taken

(* No number but that of the first table is in use at the start.           *)
LEMMA FreshInvInit == Init => FreshInv
<1>. SUFFICES ASSUME Init PROVE FreshInv
  OBVIOUS
<1>1. LibraryInv
  BY LibraryInvInit
<1>2. LibraryBelow(query_instan_data) /\ LibraryBelow(query_instan_data_snapshot)
  BY LibraryAssumption DEF Init, LibraryBelow, Below
<1>3. StatementBelow(cur_stmt, global_instan_idx)
  BY DEF Init, NoStatement, StatementBelow, Below
<1>. QED  BY <1>1, <1>2, <1>3, LibraryAssumption DEF Init, FreshInv, DatabaseBelow, Below

(* A successful fill moves the counter of the process past every number    *)
(* that is in use.                                                         *)
LEMMA InstantiateBelow ==
  ASSUME NoWrap, FreshInv, Instantiate
  PROVE  /\ instan_idx' = global_instan_idx'
         /\ global_instan_idx' \in Nat /\ global_instan_idx' <= IdBound + 2 * Gap
         /\ global_instan_idx <= global_instan_idx'
         /\ StatementBelow(cur_stmt, global_instan_idx)'
         /\ LibraryBelow(query_instan_data)'
         /\ LibraryBelow(query_instan_data_snapshot)'
<1>1. PICK n \in 0..MaxIds :
        \E new \in SUBSET Taken(n), kept \in SUBSET Source.ids,
           dropped \in {{}} \cup {{t} : t \in Prepared.v_table_names} :
          Fill(n, new, dropped, kept)
  BY DEF Instantiate
<1>2. PICK new \in SUBSET Taken(n), kept \in SUBSET Source.ids,
           dropped \in {{}} \cup {{t} : t \in Prepared.v_table_names} :
          Fill(n, new, dropped, kept)
  BY <1>1
<1>. DEFINE top == FirstId + n
<1>3. /\ pc = "generated"
      /\ FirstId \in Nat /\ FirstId >= global_instan_idx
      /\ FirstId > query_instan_data.g_id_counter
      /\ FirstId >= Prepared.g_id_counter
      /\ Prepared.v_table_names = query_instan_data.v_table_names
      /\ FirstId + MaxIds <= IdBound
  BY FirstIdAhead DEF Instantiate, FreshInv
<1>4. /\ instan_idx \in Nat /\ instan_idx <= IdBound + Gap
      /\ global_instan_idx \in Nat
      /\ query_instan_data.g_id_counter \in Nat
      /\ Prepared \in Library
  BY <1>3, FirstIdType DEF FreshInv, LibraryInv, TypeOK, Library
<1>5. top \in Nat /\ top >= FirstId /\ top <= IdBound
  BY <1>3, LibraryAssumption
<1>6. query_instan_data'.g_id_counter = top
  <2>1. top % LongSize = top
    BY <1>5, ModSmall, LibraryAssumption DEF NoWrap
  <2>. QED  BY <1>2, <2>1 DEF Fill
<1>. HIDE DEF top
<1>7. /\ instan_idx' \in Nat /\ instan_idx' <= IdBound + 2 * Gap
      /\ instan_idx' > top
  <2>. DEFINE m == MaxOf(instan_idx, top)
  <2>1. m \in Nat /\ m >= top /\ m <= IdBound + Gap
    BY <1>4, <1>5, LibraryAssumption DEF MaxOf
  <2>2. m + Gap < LongSize
    BY <2>1, LibraryAssumption DEF NoWrap
  <2>3. instan_idx' = NextGap(m)
    BY <1>6 DEF Instantiate, set_instan_gen_id
  <2>. HIDE DEF m
  <2>. QED  BY <1>5, <2>1, <2>2, <2>3, NextGapType, NextGapBounds, LibraryAssumption
<1>8. global_instan_idx' = instan_idx'
  <2>1. instan_idx' < WordSize
    BY <1>7, LibraryAssumption DEF NoWrap
  <2>. QED  BY <1>7, <2>1, ModSmall, LibraryAssumption DEF Instantiate
<1>9. Below(Taken(n), top)
  BY <1>3, <1>5, TakenAhead DEF Below, top
<1>10. Below(Source.ids, FirstId) /\ Below(Source.single, FirstId)
  <2>1. CASE original = 0
    BY <2>1 DEF Source, NoStatement, Below
  <2>2. CASE original # 0
    <3>1. original \in DOMAIN saved
      BY <2>2 DEF FreshInv, LibraryInv, TypeOK
    <3>2. StatementBelow(Source, global_instan_idx) /\ Source \in Statement
      BY <2>2, <3>1 DEF Source, FreshInv, LibraryInv, TypeOK
    <3>. QED  BY <1>3, <1>4, <3>2 DEF StatementBelow, Below, Statement, Id
  <2>. QED  BY <2>1, <2>2
<1>11. Below(query_instan_data.v_table_names, FirstId)
  <2>1. MaxOf(global_instan_idx, query_instan_data.g_id_counter) <= FirstId
    BY <1>3, <1>4 DEF MaxOf
  <2>2. query_instan_data.v_table_names \in SUBSET Id
    BY DEF FreshInv, LibraryInv, TypeOK, Library
  <2>. QED  BY <1>3, <1>4, <2>1, <2>2 DEF FreshInv, LibraryBelow, Below, MaxOf, Id
<1>12. /\ Below(Source.ids, top) /\ Below(Source.single, top)
       /\ Below(query_instan_data.v_table_names, top)
       /\ Source.ids \in SUBSET Id /\ Source.single \in SUBSET Id
       /\ query_instan_data.v_table_names \in SUBSET Id
  <2>1. Source \in Statement
    BY SourceType DEF FreshInv
  <2>2. /\ Source.ids \in SUBSET Id /\ Source.single \in SUBSET Id
        /\ query_instan_data.v_table_names \in SUBSET Id
    BY <2>1 DEF Statement, FreshInv, LibraryInv, TypeOK, Library
  <2>. QED  BY <1>3, <1>5, <1>10, <1>11, <2>2 DEF Below, Id
<1>13. /\ Below(cur_stmt'.ids, top) /\ Below(cur_stmt'.single, top)
       /\ cur_stmt'.counter = top
       /\ Below(query_instan_data'.v_table_names, top)
  BY <1>2, <1>3, <1>6, <1>9, <1>12 DEF Fill, Below
<1>14. /\ cur_stmt'.ids \in SUBSET Id /\ cur_stmt'.single \in SUBSET Id
       /\ query_instan_data'.v_table_names \in SUBSET Id
  <2>1. TypeOK'
    BY InstantiateType DEF FreshInv
  <2>. QED  BY <2>1 DEF TypeOK, Statement, Library
<1>15. StatementBelow(cur_stmt, global_instan_idx)'
  BY <1>5, <1>7, <1>8, <1>13, <1>14 DEF StatementBelow, Below, Id
<1>16. LibraryBelow(query_instan_data)'
  BY <1>5, <1>6, <1>7, <1>8, <1>13, <1>14 DEF LibraryBelow, Below, MaxOf, Id
<1>17. LibraryBelow(query_instan_data_snapshot)'
  <2>1. /\ query_instan_data_snapshot' = Prepared
        /\ Prepared.g_id_counter \in Nat /\ Prepared.g_id_counter <= IdBound
    BY <1>3, <1>4, LibraryAssumption DEF Instantiate, Library
  <2>2. FirstId <= global_instan_idx'
    BY <1>3, <1>5, <1>7, <1>8
  <2>. QED  BY <1>3, <1>7, <1>8, <1>11, <1>12, <2>1, <2>2
            DEF LibraryBelow, Below, MaxOf, Id
<1>. QED
  BY <1>3, <1>4, <1>5, <1>7, <1>8, <1>15, <1>16, <1>17

(* A bound may be raised.                                                  *)
LEMMA BelowGrows ==
  ASSUME NEW ids \in SUBSET Id, NEW x \in Nat, NEW y \in Nat, x <= y, Below(ids, x)
  PROVE  Below(ids, y)
  BY DEF Below, Id

(* So may the bound of a statement.                                        *)
LEMMA StatementBelowGrows ==
  ASSUME NEW stmt \in Statement, NEW x \in Nat, NEW y \in Nat, x <= y,
         StatementBelow(stmt, x)
  PROVE  StatementBelow(stmt, y)
  BY BelowGrows DEF StatementBelow, Statement

(* The statement a mutation starts from uses numbers below the counter.    *)
LEMMA SourceBelow ==
  ASSUME FreshInv
  PROVE  StatementBelow(Source, global_instan_idx)
<1>1. global_instan_idx \in Nat
  BY DEF FreshInv, LibraryInv, TypeOK
<1>2. CASE original = 0
  BY <1>1, <1>2 DEF Source, NoStatement, StatementBelow, Below
<1>3. CASE original # 0
  <2>1. original \in DOMAIN saved
    BY <1>3 DEF FreshInv, LibraryInv, TypeOK
  <2>. QED  BY <1>3, <2>1 DEF Source, FreshInv
<1>. QED  BY <1>2, <1>3

(* No statement uses no number.                                            *)
LEMMA NoStatementBelow ==
  ASSUME NEW x \in Nat
  PROVE  StatementBelow(NoStatement, x)
  BY DEF NoStatement, StatementBelow, Below

(* Whatever the DBMS makes of a statement brings no new number but those   *)
(* in the statement.                                                       *)
LEMMA ExecutedBelow ==
  \A stmt \in Statement :
    /\ FreshInv /\ UNCHANGED counters
    /\ CreatesKnown(stmt) /\ StatementBelow(stmt, global_instan_idx)
    /\ Executed(stmt)
    => DatabaseBelow(global_instan_idx)'
<1>. SUFFICES ASSUME NEW stmt \in Statement, FreshInv, UNCHANGED counters,
                     CreatesKnown(stmt), StatementBelow(stmt, global_instan_idx),
                     Executed(stmt)
              PROVE  DatabaseBelow(global_instan_idx)'
  OBVIOUS
<1>1. /\ DatabaseBelow(global_instan_idx) /\ savepoints \in Seq(SUBSET Id)
      /\ global_instan_idx' = global_instan_idx
  BY DEF FreshInv, LibraryInv, TypeOK, counters
<1>2. Below(Effect(database, stmt), global_instan_idx)
  BY <1>1 DEF Effect, Below, CreatesKnown, StatementBelow, DatabaseBelow
<1>3. CASE Fails
  BY <1>1, <1>3 DEF Fails, DatabaseBelow
<1>4. CASE Works(stmt)
  BY <1>1, <1>2, <1>4 DEF Works, DatabaseBelow
<1>5. CASE OpenLevel
  BY <1>1, <1>5 DEF OpenLevel, DatabaseBelow
<1>6. CASE CloseLevel
  <2>1. PICK level \in DOMAIN savepoints :
          savepoints' = SubSeq(savepoints, 1, level - 1)
    BY <1>6 DEF CloseLevel
  <2>2. \A i \in DOMAIN savepoints' :
          i \in DOMAIN savepoints /\ savepoints'[i] = savepoints[i]
    BY <1>1, <2>1
  <2>. QED  BY <1>1, <1>6, <2>2 DEF CloseLevel, DatabaseBelow
<1>7. CASE Rollback
  <2>1. PICK level \in DOMAIN savepoints :
          /\ database' = savepoints[level]
          /\ \/ savepoints' = SubSeq(savepoints, 1, level)
             \/ level = 1 /\ savepoints' = <<>>
    BY <1>7 DEF Rollback
  <2>2. \A i \in DOMAIN SubSeq(savepoints, 1, level) :
          i \in DOMAIN savepoints /\ SubSeq(savepoints, 1, level)[i] = savepoints[i]
    BY <1>1
  <2>3. \A i \in DOMAIN savepoints' :
          i \in DOMAIN savepoints /\ savepoints'[i] = savepoints[i]
    BY <2>1, <2>2, NoSavepoints
  <2>. QED  BY <1>1, <2>1, <2>3 DEF DatabaseBelow
<1>8. CASE LosesSession(stmt)
  <2>1. savepoints # <<>> => Below(savepoints[1], global_instan_idx)
    BY <1>1 DEF DatabaseBelow
  <2>. QED  BY <1>1, <1>2, <1>8, <2>1 DEF LosesSession, DatabaseBelow
<1>. QED  BY <1>3, <1>4, <1>5, <1>6, <1>7, <1>8 DEF Executed, Controls

(* The steps that leave the counters alone and bring no new number into a  *)
(* statement, the database or the library.                                 *)
LEMMA FreshInvKept ==
  ASSUME FreshInv, LibraryInv', UNCHANGED counters,
         pc' # "generated",
         \A i \in DOMAIN run' : StatementBelow(run'[i], global_instan_idx),
         \A i \in DOMAIN saved' : StatementBelow(saved'[i], global_instan_idx),
         StatementBelow(cur_stmt', global_instan_idx),
         DatabaseBelow(global_instan_idx)',
         LibraryBelow(query_instan_data)', LibraryBelow(query_instan_data_snapshot)'
  PROVE  FreshInv'
  BY DEF FreshInv, counters

(* A step that the DBMS has no part in.                                    *)
LEMMA SessionKept ==
  FreshInv /\ UNCHANGED session /\ UNCHANGED counters
    => DatabaseBelow(global_instan_idx)'
  BY DEF FreshInv, session, counters, DatabaseBelow

(* The bound is kept as long as no counter wraps.                          *)
LEMMA FreshInvNext == NoWrap /\ FreshInv /\ [Next]_vars => FreshInv'
<1>. SUFFICES ASSUME NoWrap, FreshInv, [Next]_vars PROVE FreshInv'
  OBVIOUS
<1>0. LibraryInv /\ LibraryInv' /\ global_instan_idx \in Nat
  BY LibraryInvNext DEF FreshInv, LibraryInv, TypeOK
<1>. USE <1>0
<1>. USE DEF session
<1>1. ASSUME StartRun PROVE FreshInv'
  <2>1. LibraryBelow(query_instan_data)' /\ LibraryBelow(query_instan_data_snapshot)'
    BY <1>1, LibraryAssumption DEF StartRun, LibraryBelow, Below
  <2>2. DatabaseBelow(global_instan_idx)'
    BY <1>1 DEF StartRun, reset_database, DatabaseBelow, Below, FreshInv
  <2>3. instan_idx' <= IdBound + 2 * Gap
    BY <1>1, LibraryAssumption DEF StartRun
  <2>. QED  BY <1>1, <2>1, <2>2, <2>3 DEF StartRun, FreshInv
<1>2. ASSUME Generate PROVE FreshInv'
  <2>1. /\ instan_idx \in Nat /\ FirstId \in Nat /\ FirstId >= global_instan_idx
        /\ instan_idx + MaxIds <= IdBound /\ FirstId + MaxIds <= IdBound
    BY <1>2, FirstIdAhead, LibraryAssumption
       DEF Generate, MaxOf, LibraryInv, TypeOK
  <2>2. instan_idx' <= IdBound + Gap
    <3>1. CASE borrowing
      <4>1. Len(saved) \in DOMAIN saved
        BY <3>1 DEF LibraryInv, TypeOK
      <4>2. saved[Len(saved)] \in Statement
        BY <4>1 DEF LibraryInv, TypeOK
      <4>. DEFINE c == saved[Len(saved)].counter
                  m == MaxOf(instan_idx, c)
      <4>3. c \in Nat
        BY <4>2 DEF Statement
      <4>4. c <= global_instan_idx
        BY <4>1 DEF FreshInv, StatementBelow
      <4>5. m \in Nat /\ m <= IdBound
        BY <2>1, <4>3, <4>4, LibraryAssumption DEF MaxOf
      <4>6. instan_idx' = NextGap(m)
        BY <1>2, <3>1 DEF Generate, set_instan_gen_id
      <4>7. m + Gap < LongSize
        BY <4>5, LibraryAssumption DEF NoWrap
      <4>. HIDE DEF c, m
      <4>. QED  BY <4>5, <4>6, <4>7, NextGapBounds, NextGapType, LibraryAssumption
    <3>2. CASE ~borrowing
      BY <1>2, <3>2, <2>1, LibraryAssumption DEF Generate
    <3>. QED  BY <3>1, <3>2
  <2>3. FirstId' = FirstId
    BY <1>2 DEF Generate, libVars, FirstId, Prepared
  <2>4. instan_idx' \in Nat
    BY DEF LibraryInv, TypeOK
  <2>5. instan_idx' <= IdBound + 2 * Gap
    BY <2>2, <2>4, LibraryAssumption
  <2>6. LibraryBelow(query_instan_data)' /\ LibraryBelow(query_instan_data_snapshot)'
    BY <1>2 DEF Generate, libVars, FreshInv, LibraryBelow
  <2>7. DatabaseBelow(global_instan_idx)'
    BY <1>2 DEF Generate, FreshInv, DatabaseBelow
  <2>. QED  BY <1>2, <2>1, <2>2, <2>3, <2>5, <2>6, <2>7 DEF Generate, FreshInv
<1>3. ASSUME Instantiate PROVE FreshInv'
  <2>1. /\ global_instan_idx' \in Nat /\ global_instan_idx <= global_instan_idx'
        /\ global_instan_idx' <= IdBound + 2 * Gap /\ instan_idx' = global_instan_idx'
        /\ StatementBelow(cur_stmt, global_instan_idx)'
        /\ LibraryBelow(query_instan_data)'
        /\ LibraryBelow(query_instan_data_snapshot)'
    BY <1>3, InstantiateBelow
  <2>2. /\ run' = run /\ saved' = saved /\ pc' = "filled"
        /\ database' = database /\ savepoints' = savepoints
    BY <1>3 DEF Instantiate
  <2>3. \A i \in DOMAIN run : StatementBelow(run[i], global_instan_idx')
    <3>. SUFFICES ASSUME NEW i \in DOMAIN run
                  PROVE  StatementBelow(run[i], global_instan_idx')
      OBVIOUS
    <3>1. run[i] \in Statement /\ StatementBelow(run[i], global_instan_idx)
      BY DEF FreshInv, LibraryInv, TypeOK
    <3>. QED  BY <2>1, <3>1, StatementBelowGrows
  <2>4. \A i \in DOMAIN saved : StatementBelow(saved[i], global_instan_idx')
    <3>. SUFFICES ASSUME NEW i \in DOMAIN saved
                  PROVE  StatementBelow(saved[i], global_instan_idx')
      OBVIOUS
    <3>1. saved[i] \in Statement /\ StatementBelow(saved[i], global_instan_idx)
      BY DEF FreshInv, LibraryInv, TypeOK
    <3>. QED  BY <2>1, <3>1, StatementBelowGrows
  <2>5. DatabaseBelow(global_instan_idx)'
    <3>1. database \in SUBSET Id /\ Below(database, global_instan_idx)
      BY DEF FreshInv, DatabaseBelow, LibraryInv, TypeOK
    <3>2. ASSUME NEW i \in DOMAIN savepoints
          PROVE  Below(savepoints[i], global_instan_idx')
      <4>1. /\ savepoints[i] \in SUBSET Id
            /\ Below(savepoints[i], global_instan_idx)
        BY DEF FreshInv, DatabaseBelow, LibraryInv, TypeOK
      <4>. QED  BY <2>1, <4>1, BelowGrows
    <3>3. Below(database, global_instan_idx')
      BY <2>1, <3>1, BelowGrows
    <3>. QED  BY <2>2, <3>2, <3>3 DEF DatabaseBelow
  <2>. QED  BY <2>1, <2>2, <2>3, <2>4, <2>5 DEF FreshInv
<1>4. ASSUME SkipStatement PROVE FreshInv'
  BY <1>4, FreshInvKept, SessionKept, NoStatementBelow
     DEF SkipStatement, NextStatement, libVars, counters, FreshInv, LibraryBelow
<1>5. ASSUME RefuseStatement PROVE FreshInv'
  <2>1. /\ FirstId \in Nat /\ FirstId >= global_instan_idx
        /\ FirstId > query_instan_data.g_id_counter
        /\ FirstId >= Prepared.g_id_counter
        /\ Prepared.v_table_names = query_instan_data.v_table_names
        /\ FirstId <= IdBound
        /\ query_instan_data.g_id_counter \in Nat
        /\ Prepared \in Library
    <3>1. FirstId + MaxIds <= IdBound
      BY <1>5 DEF RefuseStatement, FreshInv
    <3>2. query_instan_data.g_id_counter \in Nat
      BY DEF LibraryInv, TypeOK, Library
    <3>. QED  BY <3>1, <3>2, FirstIdAhead, FirstIdType, LibraryAssumption
              DEF LibraryInv
  <2>2. /\ query_instan_data'.g_id_counter = FirstId
        /\ query_instan_data'.v_table_names = query_instan_data.v_table_names
        /\ query_instan_data_snapshot' = Prepared
        /\ global_instan_idx' = global_instan_idx
        /\ query_instan_data.v_table_names \in SUBSET Id
        /\ Prepared.g_id_counter \in Nat
        /\ Prepared.g_id_counter > query_instan_data.g_id_counter
    <3>1. query_instan_data' =
            [g_id_counter |-> FirstId,
             v_table_names |-> Prepared.v_table_names,
             v_create_table_names_single |-> Source.single]
      BY <1>5, <2>1 DEF RefuseStatement, Library
    <3>2. Prepared.g_id_counter = NextGap(query_instan_data.g_id_counter)
      BY DEF Prepared, reset_data_library_single_stmt, LibraryInv, TypeOK, Library
    <3>3. query_instan_data.g_id_counter + Gap < LongSize
      BY <2>1, LibraryAssumption DEF NoWrap, FreshInv, LibraryBelow
    <3>. QED  BY <1>5, <2>1, <3>1, <3>2, <3>3, NextGapBounds
              DEF RefuseStatement, counters, Library, LibraryInv, TypeOK
  <2>3. LibraryBelow(query_instan_data)' /\ LibraryBelow(query_instan_data_snapshot)'
    BY <2>1, <2>2, LibraryAssumption
       DEF FreshInv, LibraryBelow, Below, MaxOf, Id
  <2>. QED  BY <1>5, <2>3, FreshInvKept, SessionKept, NoStatementBelow
            DEF counters, RefuseStatement, NextStatement, FreshInv
<1>6. ASSUME InstantiateConflict PROVE FreshInv'
  <2>1. PICK n \in 0..MaxIds :
          \E new \in SUBSET Taken(n),
             dropped \in {{}} \cup {{t} : t \in Prepared.v_table_names} :
            query_instan_data' =
              [g_id_counter |-> (FirstId + n) % LongSize,
               v_table_names |-> (Prepared.v_table_names \ dropped)
                                 \cup Source.single \cup new,
               v_create_table_names_single |-> Source.single \cup new]
    BY <1>6 DEF InstantiateConflict
  <2>2. PICK new \in SUBSET Taken(n),
             dropped \in {{}} \cup {{t} : t \in Prepared.v_table_names} :
            query_instan_data' =
              [g_id_counter |-> (FirstId + n) % LongSize,
               v_table_names |-> (Prepared.v_table_names \ dropped)
                                 \cup Source.single \cup new,
               v_create_table_names_single |-> Source.single \cup new]
    BY <2>1
  <2>. DEFINE top == FirstId + n
  <2>3. /\ pc = "generated"
        /\ FirstId + MaxIds <= IdBound
        /\ global_instan_idx' = global_instan_idx
        /\ query_instan_data_snapshot' = Prepared
    BY <1>6 DEF InstantiateConflict, FreshInv, counters
  <2>4. /\ FirstId \in Nat /\ FirstId >= global_instan_idx
        /\ FirstId > query_instan_data.g_id_counter
        /\ FirstId >= Prepared.g_id_counter
        /\ Prepared.v_table_names = query_instan_data.v_table_names
        /\ Prepared \in Library
    BY FirstIdAhead, FirstIdType DEF LibraryInv
  <2>5. top \in Nat /\ top >= FirstId /\ top <= IdBound
    BY <2>3, <2>4, LibraryAssumption
  <2>6. query_instan_data'.g_id_counter = top
    <3>1. top % LongSize = top
      BY <2>5, ModSmall, LibraryAssumption DEF NoWrap
    <3>. QED  BY <2>2, <3>1
  <2>7. Below(Taken(n), top) /\ Taken(n) \in SUBSET Id
    <3>1. Taken(n) \subseteq FirstId..(FirstId + n - 1)
      BY <2>3, TakenAhead
    <3>2. Taken(n) \in SUBSET Id
      BY TakenType DEF LibraryInv
    <3>. QED  BY <2>4, <3>1, <3>2 DEF Below
  <2>. HIDE DEF top
  <2>8. Below(Source.single, top) /\ Source.single \in SUBSET Id
    <3>1. Below(Source.single, global_instan_idx) /\ Source.single \in SUBSET Id
      BY SourceBelow, SourceType DEF StatementBelow, Statement
    <3>2. global_instan_idx <= top
      BY <2>4, <2>5
    <3>. QED  BY <2>5, <3>1, <3>2, BelowGrows
  <2>9. /\ query_instan_data.v_table_names \in SUBSET Id
        /\ query_instan_data.g_id_counter \in Nat
    BY DEF LibraryInv, TypeOK, Library
  <2>10. Below(query_instan_data.v_table_names,
               MaxOf(global_instan_idx, query_instan_data.g_id_counter))
    BY DEF FreshInv, LibraryBelow
  <2>11. Below(query_instan_data.v_table_names, top)
    <3>1. /\ MaxOf(global_instan_idx, query_instan_data.g_id_counter) \in Nat
          /\ MaxOf(global_instan_idx, query_instan_data.g_id_counter) <= top
      BY <2>4, <2>5, <2>9 DEF MaxOf
    <3>. QED  BY <2>5, <2>9, <2>10, <3>1, BelowGrows
  <2>12. Below(query_instan_data'.v_table_names, top)
    BY <2>2, <2>4, <2>7, <2>8, <2>11 DEF Below
  <2>13. LibraryBelow(query_instan_data)'
    <3>1. /\ top <= MaxOf(global_instan_idx, top)
          /\ MaxOf(global_instan_idx, top) \in Nat
      BY <2>5 DEF MaxOf
    <3>2. query_instan_data'.v_table_names \in SUBSET Id
      BY DEF LibraryInv, TypeOK, Library
    <3>3. Below(query_instan_data'.v_table_names, MaxOf(global_instan_idx, top))
      BY <2>5, <2>12, <3>1, <3>2, BelowGrows
    <3>. QED  BY <2>3, <2>5, <2>6, <3>3 DEF LibraryBelow, MaxOf
  <2>14. LibraryBelow(query_instan_data_snapshot)'
    <3>1. /\ Prepared.g_id_counter \in Nat
          /\ Prepared.g_id_counter > query_instan_data.g_id_counter
      <4>1. Prepared.g_id_counter = NextGap(query_instan_data.g_id_counter)
        BY DEF Prepared, reset_data_library_single_stmt, LibraryInv, TypeOK,
               Library
      <4>2. query_instan_data.g_id_counter + Gap < LongSize
        BY <2>9, LibraryAssumption DEF NoWrap, FreshInv, LibraryBelow
      <4>. QED  BY <2>4, <2>9, <4>1, <4>2, NextGapBounds DEF Library
    <3>2. /\ MaxOf(global_instan_idx, query_instan_data.g_id_counter)
                <= MaxOf(global_instan_idx, Prepared.g_id_counter)
          /\ MaxOf(global_instan_idx, query_instan_data.g_id_counter) \in Nat
          /\ MaxOf(global_instan_idx, Prepared.g_id_counter) \in Nat
      BY <2>9, <3>1 DEF MaxOf
    <3>3. Below(Prepared.v_table_names,
                MaxOf(global_instan_idx, Prepared.g_id_counter))
      BY <2>4, <2>9, <2>10, <3>2, BelowGrows
    <3>4. Prepared.g_id_counter <= IdBound
      BY <2>3, <2>4, <3>1, LibraryAssumption
    <3>. QED  BY <2>3, <3>3, <3>4 DEF LibraryBelow, MaxOf
  <2>. QED  BY <1>6, <2>13, <2>14, FreshInvKept, SessionKept, NoStatementBelow
            DEF counters, InstantiateConflict, NextStatement, FreshInv
<1>7. ASSUME DropFilled PROVE FreshInv'
  BY <1>7, FreshInvKept, SessionKept, NoStatementBelow
     DEF DropFilled, NextStatement, libVars, counters, FreshInv, LibraryBelow
<1>8. ASSUME ExecuteNormal \/ ExecuteCrash PROVE FreshInv'
  <2>1. DatabaseBelow(global_instan_idx)'
    BY <1>8, ExecutedBelow
       DEF ExecuteNormal, ExecuteCrash, Executed, FreshInv, LibraryInv, TypeOK
  <2>2. \A i \in DOMAIN run' : StatementBelow(run'[i], global_instan_idx)
    <3>1. run' = Append(run, cur_stmt)
      BY <1>8 DEF ExecuteNormal, ExecuteCrash
    <3>2. /\ run \in Seq(Statement) /\ cur_stmt \in Statement
          /\ \A i \in DOMAIN run : StatementBelow(run[i], global_instan_idx)
          /\ StatementBelow(cur_stmt, global_instan_idx)
      BY DEF FreshInv, LibraryInv, TypeOK
    <3>. QED  BY <3>1, <3>2
  <2>. QED  BY <1>8, <2>1, <2>2, FreshInvKept, NoStatementBelow
            DEF ExecuteNormal, ExecuteCrash, NextStatement, libVars, counters,
                FreshInv, LibraryBelow
<1>9. ASSUME ExecuteError PROVE FreshInv'
  <2>1. DatabaseBelow(global_instan_idx)'
    BY <1>9, ExecutedBelow
       DEF ExecuteError, Executed, FreshInv, LibraryInv, TypeOK
  <2>. QED  BY <1>9, <2>1, FreshInvKept, NoStatementBelow
            DEF ExecuteError, rollback_instan_lib_changes, counters, FreshInv,
                LibraryBelow
<1>10. ASSUME ExecuteFallback PROVE FreshInv'
  <2>1. StatementBelow(Source, global_instan_idx) /\ Source \in Statement
        /\ CreatesKnown(Source)
    BY SourceBelow, SourceType
  <2>2. DatabaseBelow(global_instan_idx)'
    BY <1>10, <2>1, ExecutedBelow DEF ExecuteFallback, Executed
  <2>3. \A i \in DOMAIN run' : StatementBelow(run'[i], global_instan_idx)
    BY <1>10, <2>1 DEF ExecuteFallback, FreshInv, LibraryInv, TypeOK
  <2>. QED  BY <1>10, <2>2, <2>3, FreshInvKept, NoStatementBelow
            DEF ExecuteFallback, NextStatement, libVars, counters, FreshInv,
                LibraryBelow
<1>11. ASSUME ExecuteInternalError PROVE FreshInv'
  <2>1. DatabaseBelow(global_instan_idx)'
    BY <1>11, ExecutedBelow
       DEF ExecuteInternalError, Executed, FreshInv, LibraryInv, TypeOK
  <2>. QED  BY <1>11, <2>1, FreshInvKept, NoStatementBelow
            DEF ExecuteInternalError, rollback_instan_lib_changes, counters,
                FreshInv, LibraryBelow
<1>12. ASSUME EndRun PROVE FreshInv'
  <2>1. /\ \A i \in DOMAIN run' : StatementBelow(run'[i], global_instan_idx)
        /\ \A i \in DOMAIN saved' : StatementBelow(saved'[i], global_instan_idx)
    BY <1>12 DEF EndRun, FreshInv
  <2>. QED  BY <1>12, <2>1, FreshInvKept, SessionKept
            DEF EndRun, libVars, counters, FreshInv, LibraryBelow
<1>13. ASSUME UNCHANGED vars PROVE FreshInv'
  <2>1. FirstId' = FirstId
    BY <1>13 DEF vars, libVars, counters, FirstId, Prepared
  <2>. QED  BY <1>13, <2>1 DEF vars, libVars, counters, FreshInv, LibraryBelow,
                              DatabaseBelow
<1>. QED
  BY <1>1, <1>2, <1>3, <1>4, <1>5, <1>6, <1>7, <1>8, <1>9, <1>10, <1>11,
     <1>12, <1>13 DEF Next

(* Numbers at and past the bound are in use nowhere.                       *)
LEMMA FreshInvImplies ==
  ASSUME NoWrap, FreshInv
  PROVE  FreshNames
<1>. SUFFICES ASSUME pc = "generated" PROVE FreshNames
  BY DEF FreshNames
<1>1. MaxIds \in 0..MaxIds
  BY LibraryAssumption
<1>2. /\ Taken(MaxIds) \subseteq FirstId..(FirstId + MaxIds - 1)
      /\ FirstId \in Nat /\ FirstId >= global_instan_idx
      /\ global_instan_idx \in Nat
  BY <1>1, TakenAhead, FirstIdAhead DEF FreshInv, LibraryInv, TypeOK
<1>3. ASSUME NEW ids \in SUBSET Id, Below(ids, global_instan_idx)
      PROVE  Taken(MaxIds) \cap ids = {}
  BY <1>2, <1>3 DEF Below, Id, FirstTable
<1>4. ASSUME NEW i \in DOMAIN run PROVE Taken(MaxIds) \cap run[i].ids = {}
  <2>1. run[i] \in Statement
    BY DEF FreshInv, LibraryInv, TypeOK
  <2>2. run[i].ids \in SUBSET Id /\ Below(run[i].ids, global_instan_idx)
    BY <2>1 DEF FreshInv, Statement, StatementBelow
  <2>. QED  BY <2>2, <1>3
<1>5. ASSUME NEW i \in DOMAIN saved
      PROVE  /\ Taken(MaxIds) \cap saved[i].ids = {}
             /\ Taken(MaxIds) \cap saved[i].creates = {}
  <2>1. saved[i] \in Statement
    BY DEF FreshInv, LibraryInv, TypeOK
  <2>2. /\ saved[i].ids \in SUBSET Id /\ saved[i].creates \in SUBSET Id
        /\ Below(saved[i].ids, global_instan_idx)
        /\ Below(saved[i].creates, global_instan_idx)
    BY <2>1 DEF FreshInv, LibraryInv, CreatesKnown, StatementBelow, Statement, Below
  <2>. QED  BY <2>2, <1>3
<1>6. Taken(MaxIds) \cap database = {}
  BY <1>3 DEF FreshInv, DatabaseBelow, LibraryInv, TypeOK
<1>7. ASSUME NEW i \in DOMAIN savepoints PROVE Taken(MaxIds) \cap savepoints[i] = {}
  BY <1>3 DEF FreshInv, DatabaseBelow, LibraryInv, TypeOK
<1>. QED  BY <1>4, <1>5, <1>6, <1>7 DEF FreshNames, IdsOf, Undoable

(* The names a statement is about to define are fresh: they name nothing   *)
(* in the database, in the run or in the saved sequence, whatever fails    *)
(* and is rolled back in between, as long as no counter reaches the sign   *)
(* bit of the process-wide one.                                            *)
THEOREM NamesAreFresh == Spec => [](NoWrap => FreshNames)
<1>. DEFINE Inv == NoWrap => FreshInv
<1>1. Init => Inv
  BY FreshInvInit
<1>2. Inv /\ [Next]_vars => Inv'
  BY FreshInvNext DEF NoWrap
<1>3. Inv => (NoWrap => FreshNames)
  BY FreshInvImplies
<1>. HIDE DEF Inv
<1>. QED  BY <1>1, <1>2, <1>3, PTL DEF Spec

=============================================================================
