------------------------- MODULE PostgreSQLConnector -------------------------
(***************************************************************************)
(* How the fuzzer talks to a PostgreSQL server (postgresql_connector.cpp)  *)
(* and how it reads the answers (postgresql_results_handler.cpp).  There   *)
(* are no timers here: every call sends "set statement_timeout", then the  *)
(* statement, cut at its semicolons, then what is left behind the last     *)
(* one, which is an empty command.  One connection serves all runs, so     *)
(* that a transaction a test case opened is still there in the next run.   *)
(*                                                                         *)
(* Three parties interleave: the fuzzing thread, the backend process that  *)
(* serves its connection, and the postmaster, which reaps backends and     *)
(* recovers after a crash.                                                 *)
(***************************************************************************)
EXTENDS Integers, Sequences

CONSTANTS
  MaxRuns,     \* a bound on the runs of fuzz_one
  MaxCalls,    \* a bound on the calls of run_target
  MaxCrashes,  \* a bound on the crashes of the server
  MaxPieces,   \* into how many pieces semicolons may cut a statement
  RowWords     \* words with a meaning for the classification that rows contain

ASSUME PostgreSQLAssumption ==
  /\ MaxRuns \in Nat /\ MaxCalls \in Nat /\ MaxCrashes \in Nat
  /\ MaxPieces \in Nat \ {0}
  /\ RowWords \subseteq {"ERROR", "unexpectedly"}

VARIABLES
  pc,            \* where the fuzzing thread is
  run, calls,    \* runs of fuzz_one, calls of run_target
  cmd_vec, cmd,  \* the commands of the call, the index of the current one
  link,          \* what PQstatus says of conn_
  result_str,    \* the telling words in the text collected
  tmp_cur_res,   \* those in the text handed to the result handler
  res_call,      \* (history) the call that set the text
  fault,         \* what run_target returned
  slow,          \* more than two seconds since the call began
  backend,       \* the process that serves conn_, "none" if there is no such
  job,           \* what it executes: a command, and of which call
  answer,        \* the result it sent and nobody has read, or "none"
  tx, limited,   \* the session: its transaction, whether statement_timeout is set
  committed, work, \* runs that have objects in schema public; as the session sees it
  server, crashes,
  good, died,    \* (history) commands of the call that succeeded; the backend
                 \* died before the last of them was answered
  lifted         \* (history) a command of the call left the session unlimited

callVars == <<run, calls, cmd_vec, cmd>>
textVars == <<result_str, tmp_cur_res, res_call, fault>>
sessionVars == <<job, tx, limited, committed, work>>
serverVars == <<server, crashes>>
historyVars == <<good, died, lifted>>
vars == <<pc, callVars, link, textVars, slow, backend, answer, sessionVars, serverVars,
          historyVars>>

Processes == {"none", "idle", "running", "hung", "copying", "exited", "reaped"}
Dead == backend \in {"exited", "reaped"}
NoJob == [call |-> 0, text |-> "none"]

Init ==
  /\ pc = "ready" /\ run = 0 /\ calls = 0
  /\ cmd_vec = <<>> /\ cmd = 0
  /\ link = "bad" /\ backend = "none" /\ answer = "none" /\ job = NoJob
  /\ result_str = {} /\ tmp_cur_res = {} /\ res_call = 0 /\ fault = "FAULT_NONE"
  /\ slow = FALSE /\ tx = "none" /\ limited = FALSE
  /\ committed = {} /\ work = {}
  /\ server = "up" /\ crashes = 0
  /\ good = 0 /\ died = FALSE /\ lifted = FALSE

-----------------------------------------------------------------------------
(* The server                                                              *)

InCall == pc \in {"send", "sent", "results", "end"}

(* A crash of any process makes the postmaster end all the others; what    *)
(* was not committed is lost.  The text sent before can still be read.     *)
Crash ==
  /\ server = "up" /\ crashes < MaxCrashes
  /\ crashes' = crashes + 1
  /\ server' \in {"recovering", "down"}
  /\ backend' = IF backend \in {"none", "reaped"} THEN backend ELSE "exited"
  /\ tx' = "none" /\ work' = committed
  /\ died' = (died \/ (InCall /\ ~(pc = "end" \/ (cmd = Len(cmd_vec) /\ answer # "none"))))
  /\ UNCHANGED <<pc, callVars, link, textVars, slow, answer, job, limited, committed, good,
                 lifted>>

Reap ==
  /\ backend = "exited" /\ backend' = "reaped"
  /\ UNCHANGED <<pc, callVars, link, textVars, slow, answer, sessionVars, serverVars,
                 historyVars>>

Recover ==
  /\ server = "recovering" /\ ~(backend = "exited")
  /\ server' = "up"
  /\ UNCHANGED <<pc, callVars, link, textVars, slow, backend, answer, sessionVars, crashes,
                 historyVars>>

(* The backend has finished its job.                                       *)
Answer(a) ==
  /\ answer' = a /\ backend' = "idle"
  /\ good' = good + (IF a # "error" /\ job.call = calls THEN 1 ELSE 0)

(* set statement_timeout to 2000: refused in a failed transaction.         *)
ServeLimit ==
  /\ backend = "running" /\ job.text = "limit"
  /\ IF tx = "failed" THEN Answer("error") /\ UNCHANGED limited
                      ELSE Answer("ok") /\ limited' = TRUE
  /\ UNCHANGED <<pc, callVars, link, textVars, slow, job, tx, committed, work, serverVars,
                 died, lifted>>

ServeEmpty ==
  /\ backend = "running" /\ job.text = "empty"
  /\ Answer("empty")
  /\ UNCHANGED <<pc, callVars, link, textVars, slow, sessionVars, serverVars, died,
                 lifted>>

(* An error ends the usefulness of an open transaction, and undoes what it *)
(* set.                                                                    *)
Fail ==
  /\ Answer("error")
  /\ tx' = IF tx = "open" THEN "failed" ELSE tx
  /\ limited' \in IF tx = "open" THEN BOOLEAN ELSE {limited}
  /\ work' = committed
  /\ UNCHANGED <<pc, callVars, link, textVars, slow, job, committed, serverVars, died, lifted>>

(* An error of a statement, or the syntax error that the head of one cut   *)
(* at a semicolon is.                                                      *)
ServeError == backend = "running" /\ job.text \in {"statement", "head"} /\ Fail

(* A statement, or what is a command by itself behind a semicolon, such as *)
(* SET and RESET, or END in the body of a function.                        *)
Succeed(answers) ==
  /\ backend = "running" /\ job.text = "statement"
  /\ \E a \in answers : Answer(a)
  /\ lifted' = (lifted \/ (job.call = calls /\ ~limited'))
  /\ UNCHANGED <<pc, callVars, link, textVars, slow, job, serverVars, died>>

(* It takes effect at once or in the open transaction.  Some lift the time *)
(* limit.                                                                  *)
ServeStatement ==
  /\ tx # "failed" /\ UNCHANGED tx
  /\ work' \in {work, work \cup {run}}
  /\ committed' = IF tx = "none" THEN work' ELSE committed
  /\ limited' \in BOOLEAN
  /\ Succeed({"ok", "tuples"})

ServeBegin ==
  /\ tx = "none" /\ tx' = "open"
  /\ UNCHANGED <<limited, committed, work>>
  /\ Succeed({"ok"})

(* COMMIT or ROLLBACK; a failed transaction can only be rolled back.  What *)
(* was set in the transaction alone is as it was before.                   *)
ServeEnd ==
  /\ tx # "none" /\ tx' = "none"
  /\ \/ committed' = work /\ UNCHANGED work
     \/ work' = committed /\ UNCHANGED committed
  /\ limited' \in BOOLEAN
  /\ Succeed({"ok"})

(* It computes for ever, with or without rows, or waits for a lock.        *)
ServeForEver ==
  /\ backend = "running" /\ job.text = "statement" /\ tx # "failed"
  /\ backend' = "hung"
  /\ UNCHANGED <<pc, callVars, link, textVars, slow, answer, sessionVars, serverVars,
                 historyVars>>

(* COPY to or from the client, who does not know the protocol: libpq goes  *)
(* on returning that a copy is under way, whatever becomes of the server.  *)
ServeCopy ==
  /\ backend = "running" /\ job.text = "statement" /\ tx # "failed"
  /\ backend' = "copying" /\ answer' = "copy"
  /\ UNCHANGED <<pc, callVars, link, textVars, slow, sessionVars, serverVars, historyVars>>

(* statement_timeout has passed.                                           *)
CancelSlow == backend = "hung" /\ limited /\ Fail

TimePasses ==
  /\ InCall /\ ~slow
  /\ slow' = TRUE
  /\ UNCHANGED <<pc, callVars, link, textVars, backend, answer, sessionVars, serverVars,
                 historyVars>>

-----------------------------------------------------------------------------
(* The fuzzing thread: waiting for a connection                            *)

check_server_alive == backend # "none" /\ link = "ok"

(* The connection is closed.  What its backend is doing is rolled back,    *)
(* unless the cancellation comes too late.                                 *)
Disconnect(toBackend, toLink) ==
  /\ backend' = toBackend /\ link' = toLink
  /\ answer' = "none" /\ job' = NoJob
  /\ tx' = "none" /\ limited' = FALSE
  /\ \E late \in IF backend = "copying" /\ tx = "none" THEN {{}, {run}} ELSE {{}} :
       committed' = committed \cup late
  /\ work' = committed'

Waiting == pc \in {"resetting", "restarting", "waiting"}

(* One round of each of the three waiting loops.                           *)
Reconnect ==
  /\ Waiting /\ ~check_server_alive
  /\ IF server = "up" THEN Disconnect("idle", "ok") ELSE Disconnect("none", "bad")
  /\ UNCHANGED <<pc, callVars, textVars, slow, serverVars, historyVars>>

(* fuzz_one begins.                                                        *)
RestartDbms ==
  /\ pc = "ready" /\ run < MaxRuns
  /\ pc' = "resetting" /\ run' = run + 1
  /\ UNCHANGED <<calls, cmd_vec, cmd, link, textVars, slow, backend, answer, sessionVars,
                 serverVars, historyVars>>

(* reset_database.  DROP SCHEMA and CREATE SCHEMA are one transaction; the *)
(* DROP DATABASE behind it can only fail, and spoils a transaction that    *)
(* was open before.  No result is looked at.                               *)
ResetDatabase ==
  /\ pc = "resetting" /\ check_server_alive
  /\ pc' = "restarting"
  /\ link' = IF Dead THEN "bad" ELSE link
  /\ tx' = IF tx = "open" THEN "failed" ELSE tx
  /\ work' \in IF Dead \/ tx # "none" THEN {committed}
               ELSE IF limited THEN {{}, committed} ELSE {{}}
  /\ committed' = work'
  /\ UNCHANGED <<callVars, textVars, slow, backend, answer, job, limited, serverVars,
                 historyVars>>

RestartDone ==
  /\ pc = "restarting" /\ check_server_alive
  /\ pc' = "ready"
  /\ UNCHANGED <<callVars, link, textVars, slow, backend, answer, sessionVars, serverVars,
                 historyVars>>

-----------------------------------------------------------------------------
(* The fuzzing thread: run_target                                          *)

RunTarget ==
  /\ pc = "ready" /\ run > 0 /\ calls < MaxCalls
  /\ pc' = "waiting"
  /\ calls' = calls + 1
  /\ tmp_cur_res' = {} /\ res_call' = calls + 1
  /\ good' = 0 /\ died' = FALSE /\ lifted' = FALSE
  /\ UNCHANGED <<run, cmd_vec, cmd, link, result_str, fault, slow, backend, answer,
                 sessionVars, serverVars>>

Pieces(n) == [i \in 1..n |-> IF i = 1 THEN "head" ELSE "statement"]

(* Slip: the limit is set behind the statement.                            *)
CommandsLimitedLate == {<<"statement", "limit", "empty">>} \cup
            {Pieces(n) \o <<"limit", "empty">> : n \in 2..MaxPieces}

(* A statement that contains no semicolon but its last stays whole.        *)
Commands == {<<"limit", "statement", "empty">>} \cup
            {<<"limit">> \o Pieces(n) \o <<"empty">> : n \in 2..MaxPieces}

Prepare ==
  /\ pc = "waiting" /\ check_server_alive
  /\ pc' = "send"
  /\ cmd_vec' \in Commands /\ cmd' = 1
  /\ result_str' = {} /\ fault' = "FAULT_NONE" /\ slow' = FALSE
  /\ UNCHANGED <<run, calls, link, tmp_cur_res, res_call, backend, answer, sessionVars,
                 serverVars, historyVars>>

(* PQsendQuery.  Sending to a backend that is gone may or may not be       *)
(* noticed; a query under way lets the call fail, which is only logged.    *)
SendQuery ==
  /\ pc = "send"
  /\ pc' = "sent"
  /\ IF link = "ok" /\ backend = "idle" /\ answer = "none"
     THEN /\ backend' = "running" /\ job' = [call |-> calls, text |-> cmd_vec[cmd]]
          /\ UNCHANGED link
     ELSE /\ link' \in IF Dead /\ link = "ok" THEN {"ok", "bad"} ELSE {link}
          /\ UNCHANGED <<backend, job>>
  /\ UNCHANGED <<callVars, textVars, slow, answer, tx, limited, committed, work, serverVars,
                 historyVars>>

SetResult(text) == tmp_cur_res' = text /\ res_call' = calls

Return(f) ==
  /\ pc' = "ready" /\ fault' = f
  /\ UNCHANGED <<callVars, result_str, slow, serverVars, historyVars>>

(* kill(backend_pid, 0) fails.  PQbackendPID is 0 once the status is bad,  *)
(* and kill(0, 0) succeeds.                                                *)
BackendGone ==
  /\ pc = "sent" /\ link = "ok" /\ backend = "reaped"
  /\ Disconnect("none", "bad")
  /\ UNCHANGED <<tmp_cur_res, res_call>>
  /\ Return("FAULT_CRASH")

(* Slip: a lost connection counts as a failure to execute.                 *)
StatusBadAsError ==
  /\ pc = "sent" /\ link = "bad"
  /\ SetResult({"kServerCrash"})
  /\ Disconnect("none", "bad")
  /\ Return("FAULT_ERROR")

StatusBad ==
  /\ pc = "sent" /\ link = "bad"
  /\ SetResult({"kServerCrash"})
  /\ Disconnect("none", "bad")
  /\ Return("FAULT_CRASH")

(* PQsetSingleRowMode is refused while libpq is still copying for a query  *)
(* that went before.                                                       *)
AwaitResults ==
  /\ pc = "sent" /\ link = "ok" /\ backend # "reaped"
  /\ IF answer = "copy" /\ job # [call |-> calls, text |-> cmd_vec[cmd]]
     THEN /\ SetResult({"single row"})
          /\ Disconnect("none", "bad")
          /\ Return("FAULT_ERROR")
     ELSE /\ pc' = "results"
          /\ UNCHANGED <<callVars, link, textVars, slow, backend, answer, sessionVars,
                         serverVars, historyVars>>

-----------------------------------------------------------------------------
(* The fuzzing thread: reading results                                     *)

(* Slip: one command too many.                                             *)
NextCommandOffByOne ==
  IF cmd > Len(cmd_vec) THEN pc' = "end" /\ UNCHANGED cmd
                        ELSE pc' = "send" /\ cmd' = cmd + 1

NextCommand ==
  IF cmd = Len(cmd_vec) THEN pc' = "end" /\ UNCHANGED cmd
                        ELSE pc' = "send" /\ cmd' = cmd + 1

(* Slip: the connection is kept after the query was cancelled.             *)
TimeOutKeepingConnection(text) ==
  /\ SetResult(text \cup {"ERROR"})
  /\ UNCHANGED <<link, backend, answer, sessionVars>>
  /\ Return("FAULT_TMOUT")

(* The query is cancelled and the connection closed; what is left of the   *)
(* call is skipped.                                                        *)
TimeOut(text) ==
  /\ SetResult(text \cup {"ERROR"})
  /\ Disconnect("none", "bad")
  /\ Return("FAULT_TMOUT")

(* PGRES_SINGLE_TUPLE                                                      *)
ReadRow ==
  /\ pc = "results" /\ (answer = "tuples" \/ backend = "hung")
  /\ \E words \in {{}} \cup {{w} : w \in RowWords} :
       IF slow
       THEN TimeOut(result_str \cup words)
       ELSE /\ result_str' = result_str \cup words
            /\ UNCHANGED <<pc, callVars, link, tmp_cur_res, res_call, fault, slow, backend,
                           answer, sessionVars, serverVars, historyVars>>

(* PGRES_COMMAND_OK, PGRES_TUPLES_OK or PGRES_FATAL_ERROR                  *)
ReadResult ==
  /\ pc = "results" /\ answer \in {"ok", "tuples", "error"}
  /\ result_str' = result_str \cup (IF answer = "error" THEN {"ERROR"} ELSE {})
  /\ answer' = "none"
  /\ NextCommand
  /\ UNCHANGED <<run, calls, cmd_vec, link, tmp_cur_res, res_call, fault, slow, backend,
                 sessionVars, serverVars, historyVars>>

(* Slip: only rows are watched for their time.                             *)
ReadOtherUnwatched ==
  /\ pc = "results" /\ answer = "empty"
  /\ answer' = "none"
  /\ NextCommand
  /\ UNCHANGED <<run, calls, cmd_vec, link, textVars, slow, backend, sessionVars, serverVars,
                 historyVars>>

(* Any other status: an empty query, or a copy under way, which is asked   *)
(* for again and again until the two seconds are over.                     *)
ReadOther ==
  /\ pc = "results" /\ answer \in {"empty", "copy"}
  /\ IF slow
     THEN TimeOut(result_str)
     ELSE /\ answer = "empty" /\ answer' = "none"
          /\ NextCommand
          /\ UNCHANGED <<run, calls, cmd_vec, link, textVars, slow, backend, sessionVars,
                         serverVars, historyVars>>

(* Slip: a lost connection ends the results like any other end.            *)
ReadFailureSilently ==
  /\ pc = "results" /\ answer = "none" /\ Dead
  /\ link' = "bad"
  /\ NextCommand
  /\ UNCHANGED <<run, calls, cmd_vec, textVars, slow, backend, answer, sessionVars,
                 serverVars, historyVars>>

(* "server closed the connection unexpectedly"                             *)
ReadFailure ==
  /\ pc = "results" /\ answer = "none" /\ Dead
  /\ result_str' = result_str \cup {"unexpectedly"}
  /\ link' = "bad"
  /\ NextCommand
  /\ UNCHANGED <<run, calls, cmd_vec, tmp_cur_res, res_call, fault, slow, backend, answer,
                 sessionVars, serverVars, historyVars>>

(* The backend is looked for once more.                                    *)
Finish ==
  /\ pc = "end"
  /\ SetResult(result_str)
  /\ Return(IF backend = "reaped" THEN "FAULT_CRASH" ELSE fault)
  /\ UNCHANGED <<link, backend, answer, sessionVars>>

-----------------------------------------------------------------------------
(* What the fuzzing loop makes of it                                       *)

(* check_results: the first question decides.                              *)
res_type ==
  IF "unexpectedly" \in tmp_cur_res THEN "ResultInternalError"
  ELSE IF "ERROR" \in tmp_cur_res THEN "ResultError" ELSE "ResultNormal"

-----------------------------------------------------------------------------
Serve ==
  \/ ServeLimit \/ ServeEmpty \/ ServeError \/ ServeStatement \/ ServeBegin \/ ServeEnd
  \/ ServeForEver \/ ServeCopy
Receive == ReadRow \/ ReadResult \/ ReadOther \/ ReadFailure \/ Finish
Send == Prepare \/ SendQuery \/ BackendGone \/ StatusBad \/ AwaitResults
Restart == ResetDatabase \/ RestartDone \/ Reconnect

Next ==
  \/ Crash \/ Reap \/ Recover \/ Serve \/ CancelSlow \/ TimePasses
  \/ RestartDbms \/ RunTarget \/ Restart \/ Send \/ Receive

Spec == Init /\ [][Next]_vars

(* The threads go on, time passes, a statement either ends or exceeds the  *)
(* limit that is set, and a server that recovers gets done with it.  A     *)
(* statement that goes on for ever sends rows as it likes, or none.        *)
FairSpec ==
  /\ Spec
  /\ WF_vars(Reap) /\ WF_vars(Recover) /\ WF_vars(Serve) /\ WF_vars(CancelSlow)
  /\ WF_vars(TimePasses) /\ WF_vars(Restart) /\ WF_vars(Send)
  /\ WF_vars(backend # "hung" /\ Receive)

-----------------------------------------------------------------------------
CallTypes ==
  /\ pc \in {"ready", "resetting", "restarting", "waiting", "send", "sent", "results", "end"}
  /\ run \in 0..MaxRuns /\ calls \in 0..MaxCalls
  /\ cmd_vec \in Commands \cup {<<>>} /\ cmd \in 0..Len(cmd_vec)
  /\ good \in 0..(MaxPieces + 2)
  /\ slow \in BOOLEAN /\ died \in BOOLEAN /\ lifted \in BOOLEAN

TextTypes ==
  /\ result_str \subseteq {"ERROR", "unexpectedly"}
  /\ tmp_cur_res \subseteq {"ERROR", "unexpectedly", "kServerCrash", "single row"}
  /\ res_call \in 0..MaxCalls
  /\ fault \in {"FAULT_NONE", "FAULT_CRASH", "FAULT_TMOUT", "FAULT_ERROR"}

SessionTypes ==
  /\ link \in {"ok", "bad"} /\ backend \in Processes
  /\ job \in [call : 0..MaxCalls, text : {"none", "limit", "statement", "head", "empty"}]
  /\ answer \in {"none", "ok", "tuples", "error", "empty", "copy"}
  /\ tx \in {"none", "open", "failed"} /\ limited \in BOOLEAN
  /\ committed \subseteq 1..MaxRuns /\ work \subseteq 1..MaxRuns
  /\ server \in {"up", "recovering", "down"} /\ crashes \in 0..MaxCrashes

(* The variables have their types.                                         *)
TypeOK == CallTypes /\ TextTypes /\ SessionTypes

Answered == pc = "ready" /\ calls > 0

(* The text that is classified comes from the call it is taken for, and    *)
(* what reads as a success was one: the statement was not given up for its *)
(* time, and unless a crash is reported the server executed every command  *)
(* of this very call.                                                      *)
NoPhantomSuccess ==
  Answered =>
    /\ res_call = calls
    /\ res_type = "ResultNormal" =>
         /\ fault # "FAULT_TMOUT"
         /\ fault = "FAULT_NONE" => good = Len(cmd_vec)

(* A server that goes down before everything is answered does not pass for *)
(* one that answered with an error or a success.                           *)
CrashIsReported ==
  Answered /\ died =>
    fault \in {"FAULT_CRASH", "FAULT_TMOUT"} \/ res_type = "ResultInternalError"

(* The connection is idle whenever a query is sent, so that the call does  *)
(* not fail: FAULT_ERROR ends the fuzzer.                                  *)
NeverFatal == fault # "FAULT_ERROR"

(* PQgetResult blocks, and the clock is only looked at between two of its  *)
(* calls.  Each one comes back: with an answer, with the end of the        *)
(* connection, from a command being executed, or from a statement that     *)
(* goes on for ever under the limit.  The limit was set by another command *)
(* of the same call, which a transaction spoilt earlier may have refused;  *)
(* only a piece of the same statement, cut at a semicolon, can leave the   *)
(* pieces behind it without one.                                           *)
WaitIsLimited ==
  pc = "results" =>
    \/ answer # "none" \/ Dead \/ backend = "running"
    \/ backend = "hung" /\ (limited \/ (lifted /\ Len(cmd_vec) > 3))

(* run_target and restart_dbms return unless the server is gone for good   *)
(* or a statement goes on for ever without a limit.                        *)
EveryCallReturns ==
  (pc # "ready") ~> (pc = "ready" \/ server = "down" \/ (backend = "hung" /\ ~limited))

(* A run begins on an empty schema, in a session that can execute          *)
(* statements ("Reset the database data", parserfuzz.cpp:3571).  It does   *)
(* not: restart_dbms keeps the connection and its transaction.             *)
ResetIsComplete ==
  [][pc = "restarting" /\ pc' = "ready" => work' = {} /\ tx' # "failed"]_vars
=============================================================================
