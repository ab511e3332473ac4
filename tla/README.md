# SQLBULL: models, checks and proofs

SQLBULL fuzzes database servers. A fuzzing process generates SQL statements one
at a time, executes each on a running server, learns from the result and from
the coverage of the server's code, and keeps the sequences of statements that
reached new code so that later runs mutate them. There is one fuzzer per
dialect (PostgreSQL, MySQL, MariaDB, SQLite). The PostgreSQL and MySQL fuzzers
share the code under `docker/rsg_cpp`; the others are an older, AFL-based
design, although `rsg_cpp` has connectors for six servers. The models follow
`PostgreSQL/docker/rsg_cpp` for what is common, and three of the connectors, which
are where processes, threads and signals meet. Beside the fuzzers there are scripts
that search the history of a server for the commit that introduced a bug.

## 1. Inventory

| Component | State it keeps | Operations | What makes it correct |
|---|---|---|---|
| fuzzing loop (`parserfuzz.cpp`: `main`, `fuzz_one`, `save_if_interesting`, `save_query_sequence_to_queue`) | stop flag, statement index, the decision to save, counters of crashes, `global_instan_idx` | start a run, generate, fill in, execute, classify, save, release | no null or deleted object is read over any number of runs; what a run discovers is kept |
| query sequences and generation (`query_sequence.cpp`, `postgresql_query_sequence.cpp`) | good statements, link to the predecessor, generation mode and index, id counter | `generate_next_query`, `append_good_stmt`, `deep_copy`, `set_instan_gen_id` | a borrowed sequence outlives its use; what is saved can be mutated again |
| query queue (`fuzzing_sequence_queue.h`) | groups of sequences, scores, iterator, chosen index | append a group, add to a group, next in turn, repeat | one owner per object; round robin over lineages; bounded |
| data library (`query_instantiator.h`, `postgresql_query_instantiator.cpp`) | names of tables, columns, indexes; snapshot; counter | reset per statement, fill in, roll back | agrees with the database as far as it is told; new names are new |
| coverage map (`dbms_connector.h`) | trace bits, virgin bits | `has_new_bits`, forkserver | a bit is new once |
| result classification (`results_handler.cpp`) | text of the last result | normal, error, internal error | crashes are not taken for normal results |
| MySQL connector (`mysql_connector.cpp`) | connection, `timeout_id`, `global_is_timeout`, `mysql_server_pid`, detached timer threads | `connect`, `run_target`, `fix_database`, `restart_dbms`, `timeout_query` | timers strike their own statement only; time-outs are told from crashes; every call returns |
| MySQL launcher (`run_parallel.py`) | tmux window and background job per server, pid file | look for the server, pass its pid, restart it | a server always comes back, and the connector learns its pid |
| PostgreSQL connector (`postgresql_connector.cpp`) | connection, and through it a session: transaction, settings, what was not read | reconnect loops, `reset_database`, commands cut at semicolons, reading results, time-outs by setting and by clock | a success is one of this statement; crashes and time-outs never pass for one; a run begins from nothing |
| SQLite and DuckDB connectors (`sqlite_connector.cpp`, `duckdb_connector.cpp`), AFL's fork server, the patched shell | `child_pid`, `prev_timed_out`, `child_timed_out`, the timer, two pipes, the output file | start the fork server, request a statement, reset, read the status; `handle_timeout` in between | a result is about its own statement; the signal reaches the child only; every call returns |
| statement generator (`rsg.cpp`, `reverse_tree.h`) | productions, rewards, reverse trees with an index by type, the trees of the statement at hand | draw, cut, mutate and cache trees; generate along them; reward, penalty | trees are paths of the grammar; what is built has the type asked for; rewards go to the right trees |
| bisecting scripts for MySQL (`bisecting_scripts`) | list of commits, failed commits, known bugs with their reports | try known bugs, search, file the result | the commit named introduced the bug; each report is filed once |
| MySQL rebooter, other launchers, query importer, expression filter, feedback mapper, IR and parsers | files, caches, trees | | see section 8 |

How they interact. In a fuzzer all but timers, servers and the launcher run in one
thread and call one another: `main` calls `fuzz_one` for ever; that asks the generator for
a statement, which may borrow a sequence from the queue by pointer; the
instantiator fills in names and updates its library; the connector executes the
text; the result handler and the coverage map decide what becomes of it. The
MySQL connector starts a detached thread for every statement and shares atomics,
a plain `int` (the pid) and a mutex with it. The launcher is another process: it
sees the server through `jobs -l`, and the fuzzer through a file. The PostgreSQL
connector has no timer: it shares a connection with a backend process that the
postmaster reaps, and relies on `statement_timeout` and on looking at the clock.
The SQLite connector talks through two pipes to a fork server, which forks or
resumes a child; a signal handler kills the child at any point of the conversation.
The bisecting scripts work offline on the reports, one after the other; they keep
their state in two files and in a list that lives as long as the session.

What is hard: pointers into a queue that deletes what it displaces, over runs
that follow one another; four counters that are synchronised at different
moments; a library that is ahead of the database until the result is in and hears nothing of transactions; and in
the MySQL connector the interleaving of the statement, several timers of earlier
statements, a server that may hang, crash or be killed at any point, and a launcher
that passes the pid of a server that may be gone. On the PostgreSQL side it is a
session that outlives the run that left it in a transaction, and a backend that can
die before, in or after each of the commands of one call; in the SQLite connector, a
kill that hits a child which has already stopped, and a fork server that must hear
of it before it resumes a corpse; in the generator, trees that are cut and
mutated over and over, and pointers to them that survive the statement they were
noted for; in the bisecting search, a list that shrinks under its own
indices. `PROJECT.json` lists each
hazard at its line with the properties aimed at it.

## 2. Modules

| Module | Models | Uses |
|---|---|---|
| `FuzzingSequenceQueue` | the queue: one operator per method, to be used in actions | |
| `FuzzCampaign` | `main`, `fuzz_one`, the generator and saving, with the queue | extends `FuzzingSequenceQueue` |
| `LineageCorpus` | abstract specification: what the queue promises to the loop | |
| `InstanLibrary` | library, snapshot and counters along the same statement loop | |
| `MySQLConnector` | fuzzing thread, timers, launcher and server | |
| `PostgreSQLConnector` | fuzzing thread, session, backend and postmaster; classification of the text | |
| `SQLiteConnector` | fuzzing thread, SIGALRM handler, fork server and child | |
| `ReverseTrees` | the trees of the generator, and statements built along them | |
| `CommitSearch` | abstract specification: a search for a boundary among commits | |
| `Bisecting` | the bisecting scripts over a session of reports | instantiates `CommitSearch` |
| `MC...` | small instances for TLC | |
| `...Proofs` (eight) | theorems: one module per model of state, and `LineageCorpusProofs` for coverage and the corpus | extend the modules they are about; `LineageCorpusProofs` extends `FuzzCampaignProofs` |

### FuzzCampaign and FuzzingSequenceQueue

An object is its address, a member of `Seqs`; `live` are the allocated ones,
`good` and `previous_sequence` are fields of each. `pc` is where `fuzz_one` is:
`generate` (about to call `generate_next_query`), `generated` (a statement is at
hand), `filled` (its names are filled in and it is to be executed), `finish`
(after the loop). `exited` and `segv` are the two ends of the process: a regular
one, and the read of a null pointer. A statement is reduced to what later code
dereferences: whether it has an IR tree and instantiation data. Variable and
action names are the code's where there is one; the actions `Execute...` are the
branches on the result together with the whole of `save_if_interesting` in that
branch, and `Deliver` is what `generate_next_query` of the base class does with
the statement that the PostgreSQL one returns.

The server and the map are choices: any result, any set of covered bits. A
time-out of PostgreSQL always comes with an error message, and is therefore an
error. A crash (`ExecuteCrash`) comes with a result that reads as normal.

Two history variables record whose the bits were: `found` are those a clean statement of the
run at hand was the first to cover, `lost` those of runs that ended and did not get into the
queue (`Account` compares the queue before and after the end of the run, not the flags). The
virgin bits alone cannot tell.

### InstanLibrary

A name is the number it is built from. A statement has the numbers in its text,
the tables it creates and drops, and the part of its instantiation data that is
read again. `Fill` is the effect of `fill_one_stmt` and `fill_partial_stmt`; the
actions around it are the places where `fuzz_one` gives up a statement.
`skewed` is a history variable: the tables whose fate the library is not told.
One sequence, `saved`, stands for the queue: a run may borrow it and a finished
run may replace it.

The DBMS is external. A statement either does what its tables say or is a transaction
command: `savepoints` holds the tables as they were at `BEGIN` and at each savepoint, and
`failed` says that the transaction can only be rolled back. The transactions are
PostgreSQL's, in which `CREATE` and `DROP` are undone too. A refused statement need not be
without effect: one of its pieces may have worked, and in a failed transaction the
time limit set in front of a `ROLLBACK` makes the whole call read as an error. A
session that is lost takes its transaction along. `restart_dbms` does not end a transaction:
its `DROP DATABASE` spoils one that is open, and then the first table of the run is not
created (`reset_database`; the same is the subject of `pg_reset`). `ExecuteFallback`
runs the original of a refused mutant, of which the library hears nothing.

### MySQLConnector

Servers are numbered in the order they start, the number being the pid.
`timers` are the detached threads with their arguments, and each of the
statements of `timeout_query` outside the lock is a step of its own, since
anything may happen in between. `retry_time` is the code's plus one.
`database` says whether `test123` exists, without which nobody can connect.
`kill(-1, SIGKILL)`, which the code performs when another timer reset the pid between
test and use, ends server and launcher (`monitor = "dead"`) and spares the caller, as Linux
does: the fuzzer goes on, to wait for a pid that nobody passes.

`hung` marks a statement, or the rest of its result, that never ends by itself;
`Hang` may choose that for any statement, for the repair of the database and for the rows
that `FetchResults` reads after `timeout_id` was counted on. Such a wait ends only when its
connection or its server does.

External behaviour is modelled as the code expects it: unless it hangs, `mysql_real_query`
returns with success or an SQL error on a healthy connection (`done`), and else with a
lost connection or another failure; `check_server_alive` succeeds if the server
serves.

### PostgreSQLConnector

`pc` follows `run_target` and `restart_dbms`: `waiting`, `resetting` and `restarting`
are the three loops that wait for a connection, `send`, `sent` and `results` one
command of `cmd_vec`, `end` what follows the last. A call is "set statement_timeout",
the statement (or the pieces it falls into when a semicolon is inside of it), and the
empty text behind the last semicolon. `link` is what `PQstatus` says, which may lag
behind `backend`, the process at the other end; `Reap` matters because
`kill(pid, 0)` succeeds on a process that was not reaped. A text is the set of
words in it that `check_results` looks for; rows may contain them (`RowWords`). Objects
in the schema are reduced to the runs that made them (`committed`, and `work` as
the session sees it). `good` and `died` are history: what the server really did.

The backend is external and modelled as the code expects it: it executes one
command at a time, refuses everything but the end of a failed transaction, may
lift the limit, hang, or enter a COPY, in which `PQgetResult` goes on returning
the same result. The first piece of a statement that was cut at its semicolons (`head`) lacks its end and is a
syntax error; each piece behind it is a command of its own, as those of a
`BEGIN ATOMIC` body are: it may succeed, end a transaction, set or reset the limit, or run
for ever in the same call. A hung backend sends rows as it likes, or none. A crash lets the postmaster end all backends and either
recover or stay down.

### SQLiteConnector

The thread's steps are the system calls of `run_target` and `init_forkserver`, since
the handler may run between any two of them; `handle_timeout` is one step, because
nothing in the thread runs meanwhile. `ctl`, `st_pid` and `st_status` are the pipes.
Pids are numbered in the order of forks; `Garbage` is the value of the
uninitialised `status` that becomes `child_pid` when there was no greeting.
`output` and `tmp_cur_res` hold the calls whose text they contain: the shell
rewinds its output but does not truncate it, and the connector truncates it only when
it reads it. `soiled` is history: the child at hand was forked before the last reset was over.
A child ends a statement in five ways: it stops itself, dies of a signal of its own, is
killed, or exits, with the code that a sanitizer build uses for an error (`msan`) or any
other. An exit is no fault to `run_target` unless the build is a sanitizer's
(`uses_asan`) and the code is that one; the next request then has a child forked, whose database is
empty.
The loop of 1000 statements after which a child exits never
comes to its end, because each of the 40 statements of a run follows a reset.

### ReverseTrees

A tree is a sequence of nodes: the production, the rule that was climbed through and
the token of it where the climb came from. `phase` says who wants the trees: the
drawing and the mutation of `cache_reverse_tree`, or a reward. Pointers to trees are
positions in the cache, which only grows; a deleted tree has none. The IR built
along a tree is the type of its topmost node. Production and type are one:
they are in one-to-one correspondence (`get_prod_from_ir_type`). A hash of
a path is the path: collisions only drop trees.

### Bisecting

Commits are numbered in the order of the list. A query is the set of commits whose
server it crashes, any set at all, so that bugs may come and go. `broken` are the
commits that do not compile and `flaky` counts servers that did not come up in time,
which the scripts take for the same. `known` is the file of unique bugs, `failed` the
file of commits not to be tried, `all_commits` the list of the session.
`CommitSearch` knows neither list nor index: two commits move towards each other over
commits that were probed, and end with nothing between them that runs.

## 3. Runs

| Run | Question | Instance | States |
|---|---|---|---|
| `fuzz_campaign` | memory, null pointers, content of the queue, its bounds, coverage; the queue implements `LineageCorpus`; what a clean statement was the first to cover is in the queue when its run has ended | 4 objects, 3 bits, 3 statements, 2 lineages | 362 thousand |
| `fuzz_served` | every lineage is picked again and again; how its turn comes closer | 4 objects, 1 statement, 2 lineages | 20 thousand |
| `library` | fresh names, library against database, transactions | gap 2, 1 number per statement, 3 statements per run, 2 levels, counter to 10 | 4.0 million |
| `connector` | timers and time-outs; every call returns | 2 calls, 2 servers, 1 retry | 532 thousand |
| `pg_connector` | successes, crashes and time-outs are what they read as; waits are limited; every call returns | 2 runs, 3 calls, 2 crashes, 3 pieces | 569 thousand |
| `sqlite` | results are about their own statement; resets are complete; nobody waits in vain; every call returns | 4 calls, 2 deaths of the fork server | 418 thousand |
| `rsg` | trees, their index, what is built along them, references; every round converges and ends | a grammar of 5 productions, depth 4, 1 mutation per node, 2 trees per statement | 155 thousand |
| `bisect` | reports name boundaries and are filed once; the search implements `CommitSearch`, converges, and every report ends | 5 commits, 3 reports, 1 flaky start | 218 thousand |
| `fuzz_crashers`, `connector_timeout`, `pg_reset`, `sqlite_kill` | violations, section 6 | small | |

Runs without deadlock checking are those of systems that may stop: the campaign
ends on a signal or a fatal fault, the connectors after `MaxCalls` calls or when their
server is gone for good, the bisecting script after its last report.

### Bounds

- `Seqs`: at any time the queue owns one object per lineage and the run at most
  two (its own and the copy being saved), so that lineages plus two is exactly
  what a run can need; a leak would exhaust them, and is found by
  `ExactOwnership` before it does.
- `MaxStmts` (40 in the code) is both the number of iterations and the length up to
  which statements are inserted. Three let a sequence be inserted to, mutated and
  replaced by one that is longer than it.
- `MaxTries` (10) bounds the attempts at a statement. That an attempt fails needs a
  borrowed sequence of plain strings only, which no run saves; `NoBadPointer`
  and the proof show that the branch stays unreached.
- `MaxLineages` (100): two, so that the limit is reached and there is another lineage
  to overwrite by mistake.
- `KeepUniqueCrash` (5000): 1, to pass the limit.
- `BootLen` (three or more): 1; only that it is not zero matters.
- `Gap` (100), `WordSize` (2^32), `LongSize` (2^64): a gap of 2 is the smallest at which
  rounding differs from adding. `library` never comes near the width of a word; beyond
  it names are not fresh, and the theorem names the condition (section 5).
  `IdBound` stops the generation, not the arithmetic.
- `library`: three statements, so that one can open a transaction, one create a table in it
  and one roll it back; two levels, a transaction with a savepoint in it; a
  counter to 10, which two runs reach, so that a transaction meets a reset.
- `MaxServers` and `Mortal`: the last server neither crashes nor is found slow, or
  the fuzzer could be kept busy for ever. One server that dies and one that
  replaces it is enough for stale pids and for reconnecting. With three servers, which pass 20
  million states, a stale pid may meet a missing `test123`: the second disjunct of `OutOfReach`
  is there for that and not reached with two.
- `MaxRetries` (1001): 1. Reaching it takes that many polls and changes nothing else.
- `MaxCalls`: two calls, so that timers of one meet the other; every call retries and
  repairs as often as servers allow.

- `pg_connector`: two runs, so that a session outlives one; three calls, so that a call
  follows one that failed and has another behind it; two crashes, one of them during
  recovery's aftermath; three pieces, so that one behind the cut may lift the limit and another
  follow it.
- `sqlite`: four calls let a child survive a statement, be killed after it stopped in the
  next, be replaced in the third and be judged in the fourth. Two deaths: one before the
  greeting and one later, the second fork server being the last that can be started.
- `rsg`: the grammar has recursion through one production and through two, two rules
  that lead to the same production, a rule with the same token twice, a statement under
  another one and a production used in one place: the cases that cutting, mutating
  and indexing distinguish. Depth 4 (20) is long enough for two cuts in one tree and short
  enough for trees that are too long. `Energy` 1 (10): more only repeats the loop.
  `MaxUses` bounds the cached trees that one forward generation uses.
- `bisect`: five commits leave three between the ends, so that a deletion
  happens on each side of the middle; three reports, so that the third meets a list
  that was shortened by one and a known bug from another.

Addresses and bits are interchangeable (`Interchangeable`), which is used for the
runs without liveness properties; the action property and the refinement checked with it name
no address or bit either.

## 4. Properties

Safety of the campaign: `NoBadPointer`, `ExactOwnership`, `SavedIsReplayable` and
`QueueBounded`, which bounds the groups by the limit and by the coverage. The refinement `ImplementsCorpus` hides the objects: its
mapping takes the corpus to be the contents of the last sequence of each group,
the pick to be the chosen index while something is borrowed, and the draft to be
the run's sequence. Every step of the campaign is a step of the corpus or a
stutter; in particular a save may replace the lineage the run picked and no other.

`TurnsComeCloser` is what round robin promises each step of the way. A lineage has a
distance, the picks that come before its own, and the campaign a debt, two for each
virgin bit and one for a run that covered one and was not saved yet. Each step picks the
lineage, or pays some of the debt, or leaves the debt alone and the distance too, but that
a pick of another lineage makes the distance one smaller. Only paying may repeat a
turn or add a lineage, so a lineage is passed over a bounded number of times. It is
stated for the feedback mode `normal`; the others save without new coverage.

`DiscoveriesAreSaved` follows a find through the rest of its run. Virgin bits are cleared
for good by whatever covers them first, so a find that is not saved is lost to all later runs; but
before the run ends, other statements find nothing, fail, crash the server or are
dropped, and the bootstrap, errors and fallbacks clear bits themselves. Bits cleared by those are
nobody's find; section 6 says what that means.

`FreshNames` states that the numbers about to be taken occur neither in the
database, nor in what a rollback would bring back, in the run, or in the saved sequence.
`LibraryTracksDatabase` states that the library differs from the database only by tables in
`skewed`, each of which got there by an event the library is not told of: a transaction that was
undone or could not be reset, a fallback, a piece of a refused statement, a lost session, a
statement deleted after it was filled in, or a kept part that was not looked at again. A
`ROLLBACK` that succeeds does make library and database part in the program; the property
says that nothing else does, and that an error leaves no trace of its statement,
whatever was undone or committed since the snapshot.

`TimersAimAtCurrentStatement` and `NoFalseTimeout` are about the protocol of
`timeout_id` and `global_is_timeout`. `EveryCallReturns` depends on the timers: a statement that
hangs is ended by nothing else. It excepts what the code cannot end (`OutOfReach`: rows that do not
come, and a server that the timer neither gets into nor has the pid of) and a launcher
lost to `kill(-1)` (`Unwatched`).

PostgreSQL. `NoPhantomSuccess` relates what the loop will make of a call (its text and
fault) to what the server did in it: the text is of this call, and a success was neither given
up for its time nor executed in part; `CrashIsReported` is the converse for a crash. `NeverFatal` says that no query
is sent while another is under way, which every early return has to see to.
`WaitIsLimited` is about the call of `PQgetResult` the thread is blocked in, where it
cannot look at the clock: a statement that runs for ever does so under the limit,
though the limit was set by another command, which a failed transaction may refuse. The one
exception is what the code can meet: a piece of a cut statement that lifted the limit (`lifted`)
leaves the pieces behind it without one.

SQLite. `ResultIsOwn` ties each outcome to the statement it is reported for: a crash to
one of the child under this statement, a time-out to the alarm of this call, a success
to a statement executed to its end, or to a child that exited in it, and a text to this call or
to calls whose output was left in the file. `NobodyWaitsInVain` says, for each read of a pipe, which party will
write to it: the fork server at once, or the child by ending, or the alarm by
killing that very child. A wrong word about whether the last child was killed has fork
server, child and thread wait in a circle. `ResetIsComplete` states that no statement is
executed by a child forked before the last reset, whichever way the kill and the alarm met
the child; PostgreSQL's counterpart is violated (section 6).

Reverse trees. `CacheIsSound` (a cached tree is a path of the grammar, without recursion, and
there once) and `MatchesIndexTheCache` are about the cache after any number of rewards;
`MatchYieldsItsType` is the assertion at `rsg.cpp:831` together with the fit of every
node on the way; `ReferencesAreOwn` that a statement is rewarded with its own trees.
`RoundsConverge` gives the making of trees a measure, in lexicographic order: drawing
before mutating, the trees left to draw, the batches of mutations left and what is left of
the one at hand, the stage of the tree at hand and its fuel or length, and the trees
left to be cached. Every step makes it smaller, for recursive grammars too, and although one
that uses up a place may fill those behind it.

Bisecting. `ReportIsBoundary` is what the report is for; it is claimed for queries that
crash the newest commit and not the oldest, because the search executes neither. In
`ImplementsSearch` the mapping reads the two indices as commits and the commits missing
from the list as skipped: a deletion that shifts the wrong index shows up as a
commit that moved without a probe. `SearchConverges` is the measure of a report: two tries
for each known bug, then the distance of the indices. Every step makes it smaller,
and a probe that was answered halves the distance.

### Fairness

`FuzzCampaign!FairSpec`: the loop goes on by itself (weak fairness of starting,
generating, executing or dropping, and ending). Strong fairness of mutating
stands for the draw in `generate_next_query`, which mutates in 80 of 100 cases
while there are few lineages. Nothing is assumed of what statements cover, so
`EveryLineageServed` includes a lineage that improves every time.

`MySQLConnector!FairSpec`: fuzzing thread, timers and launcher go on, and a server that was
started comes up. A statement that hangs is not assumed to end: `Answer` and `FetchResults` are
disabled until its connection or its server is gone. The fuzzing thread polls ten
times a second for a file that the launcher truncates and writes at once, every
other second. That it does not hit the instant in between every time is the strong
fairness of the two actions on the file.

`PostgreSQLConnector!FairSpec`: the thread goes on, time passes, dead backends are
reaped, a recovering server comes up, and a command is answered unless it hangs or
copies; a backend that hangs is cancelled only if the limit is set, and is not assumed to send
a row, so that `PQgetResult` may block for ever. `EveryCallReturns` excepts such a wait without
a limit, and a server that is down for good, for which the code waits by design.

`SQLiteConnector!FairSpec`: thread and fork server go on, and an armed timer goes off
at some time unless it is disarmed before. The child has no fairness: it may compute
for ever, and the call returns all the same.

`ReverseTrees!FairSpec` and `Bisecting!FairSpec`: plain loops of one thread go on. That
they end is the point: no fairness is assumed of any random choice, of a server that
comes up, or of a climb that finds a statement.

## 5. Proofs

For every value of the constants that satisfies the modules' assumptions:

| Theorem | Statement |
|---|---|
| `FuzzCampaignProofs!TypeCorrect`, `PointersStayGood`, `OwnershipIsExact`, `SavedStaysReplayable` | the memory properties of `fuzz_campaign` |
| `LineageCorpusProofs!QueueStaysBounded` | `QueueBounded`, coverage included |
| `LineageCorpusProofs!DiscoveriesStaySaved` | `DiscoveriesAreSaved`, under the feedback modes `normal` and `save_all`, the two that heed new coverage |
| `LineageCorpusProofs!TurnsAlwaysComeCloser` | `TurnsComeCloser`, for any number of lineages and bits |
| `LineageCorpusProofs!QueueImplementsCorpus` | `FuzzCampaign` implements `LineageCorpus` |
| `InstanLibraryProofs!TypeCorrect`, `LibraryTracks` | types, and library against database |
| `InstanLibraryProofs!NamesAreFresh` | `FreshNames`, under `NoWrap`: the bound on the counters is below half a word |
| `MySQLConnectorProofs!TypeCorrect`, `TimersStrikeOnlyTheirStatement`, `TimeoutsAreReal` | the safety properties of `connector` |
| `PostgreSQLConnectorProofs!PgTypes`, `SuccessIsReal`, `CrashesAreReported`, `NeverFatalHolds`, `WaitsAreLimited` | the safety properties of `pg_connector` |
| `SQLiteConnectorProofs!TypeCorrect`, `ResultsAreOwn`, `NobodyEverWaitsInVain`, `ResetsAreComplete` | the safety properties of `sqlite` |
| `ReverseTreesProofs!TreesTypes`, `CacheStaysSound`, `IndexAgrees`, `BuildingFollowsGrammar`, `ReferencesAlwaysOwn`, `RoundsAlwaysConverge` | the safety and action properties of `rsg`, for every grammar |
| `BisectingProofs!BisectTypes`, `ReportsAreBoundaries`, `ReportsAlwaysFiled`, `SearchAlwaysConverges` | the safety and action properties of `bisect`, for any number of commits |
| `BisectingProofs!BisectingImplementsSearch` | `Bisecting` implements `CommitSearch` |

The campaign. No property is inductive alone: that no deleted sequence is read
needs to know who owns what, and that data is there when it is read needs to know
what is saved. `CampaignInv` is the conjunction of `PhaseInv` (which pointers are
null where), `BorrowInv` (a borrowed sequence is the only member of the group at the
chosen index, and the iterator stands behind it, which is why decrementing it
cannot wrap), `OwnerInv` (one object per group, all different, together with the
run's they are `live`), `ContentInv` (bootstrap first, data on all the rest),
`LinkInv` (predecessors are null or the borrowed sequence) and `StmtInv`. The bound
on lineages follows from a run that began from scratch having found room, and from
there being no second run meanwhile.

Coverage. A group is added at the end of a run, the bit that pays for it is covered in the
middle, and bits are covered in between without paying for anything. `PayInv` therefore
counts what is owed: the groups, and one more while the run at hand has found something
new, are at most the bits covered. The only assumption is that the map is finite. The
refinement of the corpus takes `CampaignInv` for its invariant: each group has one object, no
two have the same, and the run's object is none of them, so that writing to a draft,
deleting it, or deleting the displaced object changes no other lineage; and the iterator
being one past the borrowed group makes decrementing it the abstract "same lineage next".

Discoveries. `MarkedInv`: a run that has found something has both of its flags set, which no
later statement lowers (`CleanMarks`). At the end of the run that means saving, and saving adds the
run's sequence to the queue under an object that was free (`NewLineageCommits`,
`ToLineageCommits`), for which `CampaignInv` is needed once more.

Turns. A run that covers a bit pays two and owes one, which saving pays back, and only such a
run is saved under `normal`; so every step that moves the iterator back or adds a lineage lowers
the debt. The rest is arithmetic modulo the size of the queue: a first borrow moves the
iterator past one lineage, around the end too (`BorrowComesCloser`), and later borrows of the
same run do not move it.

The library. `LibraryInv` adds the snapshot: while a statement is filled in, the
snapshot agrees with the database up to `skewed`, and the library with the database
as it will be after the statement. What a transaction undoes is in `skewed` when it is undone, so
that nothing need be known of `savepoints` for this. For `NamesAreFresh` the argument is a chain: every
number in use is below the counter of the run or of the process, and the first
number to be taken is at least as large as both. The numbers in the database and in what a
rollback brings back are below the counter of the process (`SessionOK`), since a transaction
may outlive its run.

The connector. `TimerInv`: no timer has a number beyond `timeout_id`, and one that has
that very number and sleeps belongs to the statement being executed. `FlagInv`
follows the flag from its reset to the report. `ServerInv` says that what the
launcher saw still holds: a server seen down stays down until the launcher
restarts it. That a statement may hang adds nothing to these: it changes only when the
threads may go on.

PostgreSQL. `LinkInv` says that nothing is under way on the connection between two
commands, and else the current command of the current call: without it an answer could
be one of an earlier call. `GoodInv` then counts the commands executed against those read,
and `DiedInv` follows a crash from the command it hits to the word it leaves in the text.
For `WaitIsLimited`, `OwedInv` says that the command waited for was sent over a working link or
the server is gone, and `LimitInv` that a statement reaches a session that has the limit,
or one whose transaction failed and refuses it as it refused the limit, or one from which
an earlier piece of the same call took it.

SQLite. The invariant follows the request through the pipes. `PipeInv`: at most one
message is on its way. `ChildInv`: between two requests a child that stopped stands still
or was killed, and then the thread knows (`child_timed_out`, then `prev_timed_out`), so
that the fork server hears of it before it could resume it. `StatusInv` carries what a
status tells about the statement from the child through the pipe to the report. `WaitInv` adds
what is owed: the greeting, a pid the fork server can answer with, or a status; that a
child the thread takes for killed does stand still (`KilledIsAtRest`), so that the
fork server is never told to wait for one that is only stopped; and that the alarm is set and aims
at the child for as long as it computes (`AlarmReaches`). `SoilInv` follows a child that is older
than the reset to the kill, which finds it because the pid the thread was given is its own.

Reverse trees. `TreeInv` strengthens `CacheIsSound` to every tree on its way to the
cache. It is inductive because each node says where the production below it is
used: a cut joins two nodes with the same production below them, a mutation replaces only
what is above a node. `NameInv` follows a path from the test for duplicates through
the mutants that wait to the cache; `MatchInv` and `BuildInv` say that matches,
references and the regeneration under way point into a cache that only grows. For
`RoundsConverge` each action is compared at the first place of the measure it changes; that a
cut makes a tree shorter, whatever the grammar, is the lemma the recursive case rests on.

Bisecting. `IsList` is what deletions keep: the list is ordered and has both ends, so that
two neighbours have only deleted commits between them, all of them on file as failed.
`KnownInv` adds that a pair on file was found as neighbours, so that the shortcut
answers rightly. The refinement is proved from the same invariant: each action is a step of
`CommitSearch` under the mapping or leaves it alone. `SearchConverges` adds that
the known bugs are tried in order and none beyond the last (`CursorInv`); the distance falls
because the middle is neither of the indices, and because a deletion moves the older one.

Only model-checked: liveness (`EveryLineageServed`, `EveryCallReturns`, `EveryRoundEnds`,
`EveryReportEnds`), whose fairness the prover cannot reason about. Every other property of a
passing run is a theorem, among them what these rest on apart from fairness:
`TurnsComeCloser`, `RoundsConverge` and `SearchConverges` say that nothing goes on for ever,
`NobodyWaitsInVain` and `WaitIsLimited` that somebody can always take the step a
thread waits for. For the MySQL connector there is no such theorem: that a timer comes to
end what hangs, and that the pid file is complete at some poll, is fairness.

## 6. What the violations show

1. `fuzz_crashers`: a statement that brings the server down is appended and saved,
   against the intention stated at `parserfuzz.cpp:3725`.
2. `connector_timeout`: a statement whose timer killed the server is reported as a
   crash and the time-out is not recorded (`mysql_connector.cpp:321-325`).
3. `pg_reset`: `restart_dbms` keeps the connection and with it the transaction of the run
   before (`postgresql_connector.cpp:58-91`). In an open one `DROP DATABASE` fails and
   spoils it, in a failed one all statements of the run are refused; in both the objects of
   the run before may stay.
4. `sqlite_kill`: `child_pid` is 0 from the greeting of the fork server to the
   disarming of its timer, and from the end of a child that did not stop to the end of the
   call (`sqlite_connector.cpp:96-107`, `299-305`). The handler excepts -1 only, and
   kills the process group of the fuzzer (`parserfuzz.cpp:4029`).

Seen while reading, and not the subject of a run: the reward of a group is 0/0 after
its first improvement, because `hit_count` is never incremented
(`fuzzing_sequence_queue.h:54`); the option `code_coverage` sets the mode that drops
everything (`parserfuzz.cpp:5126`); the 64-bit counters are truncated to 32 bits on their
way through `parserfuzz.cpp:3676` and `3690`; the MySQL timer prints success whether or
not it could connect (`mysql_connector.cpp:66-69`); the rows of a result are fetched after
`timeout_id` was counted on (`mysql_connector.cpp:253-257`), so that rows that do not come are
waited for without end (`OutOfReach`); the statement that is run in place of a refused mutant
clears virgin bits and its run is not saved for them (`parserfuzz.cpp:3769-3771`), so that a
clean statement that covers them later is not new any more.

## 7. Slips

A definition whose comment begins with "Slip" is a plausible mistake in the
definition next to it (a missing call, a dropped guard, an index off by one). It is
used nowhere in the specification; putting it in the place of its neighbour
violates the property it is paired with in `PROJECT.json`, which shows that the property notices.

## 8. Not modelled

- The IR and the parsers (generated code and surgery on trees), the expression filter
  (a pure classification), the feedback mapper (its calls are commented out), the query
  importer (reads files once), printing and statistics, AFL but for its fork
  server, the database servers (vendored), the predecessors under `docker/src`.
- The lists of the library other than tables, which only use up numbers in the
  model: the resolution of names by scope depends on the forms of statements, which small
  instances say nothing about.
- The weights of rules, the epsilon-greedy choice and the lists of interesting IRs
  in the generator. They bias which statements are drawn; no property here depends on
  it, since every choice is allowed.
- The classes of counts of the coverage map: a bit of the models is a cell with a class.
- The connectors of MariaDB (MySQL's with another user and small differences in
  clean-up) and CockroachDB, whose fork server is a patched Go program that the
  repository does not contain.
- The report on why a fork server did not come up in `init_forkserver`: it is behind
  a `return`. `is_reset_database` of the PostgreSQL connector: nothing sets it.
- The exchange of sequences between fuzzers (`sync_fuzzers`) and the start of several
  instances: they read and write directories, and share nothing with the parts modelled.
- The transactions of other servers than PostgreSQL in `InstanLibrary`; MySQL's commit what was
  done before a `CREATE` or `DROP`, so that less is undone.
- The words in the text of an SQLite child: an AddressSanitizer build that crashes prints "ERROR",
  which `results_handler.cpp` reads as an SQL error although the fault is a crash.
- The building of server versions for the bisecting scripts, and MariaDB's copy of them.
- Crashes of the bisecting scripts between truncating and writing one of their files:
  the next start fails to read it, and nothing in the scripts recovers.
