--------------------------- MODULE MySQLConnector ---------------------------
(***************************************************************************)
(* How the fuzzer talks to a MySQL server that may crash or hang           *)
(* (mysql_connector.cpp) and how the launcher keeps a server running       *)
(* (run_parallel.py).  Three parties run concurrently:                     *)
(*                                                                         *)
(*   - the fuzzing thread executes statements in run_target, reconnects    *)
(*     and repairs the database;                                           *)
(*   - every statement starts a detached timeout_query thread, a timer,    *)
(*     that after two seconds kills the server if the statement still runs;*)
(*   - the launcher looks every second whether the server process runs,    *)
(*     starts a new one if not, and passes its pid through a file.         *)
(*                                                                         *)
(* Servers are numbered in the order they are started; the number stands   *)
(* for the pid.                                                            *)
(***************************************************************************)
EXTENDS Integers

CONSTANTS
  MaxCalls,    \* a bound on the calls of run_target
  MaxServers,  \* a bound: the last server neither goes down nor is slow
  MaxRetries   \* failed attempts after which the next kills the server (1001)

ASSUME ConnectorAssumption ==
  /\ MaxCalls \in Nat /\ MaxServers \in Nat \ {0} /\ MaxRetries \in Nat

VARIABLES
  pc,                  \* where the fuzzing thread is
  calls,               \* calls of run_target
  m_,                  \* the server it is connected to, 0 if m_ is null
  broken,              \* the connection was closed by a KILL
  retry_time, is_already_killed_in_connect,
  server_response,     \* what mysql_real_query returned
  hung,                \* the server never ends the statement by itself
  fault,               \* what the last call of run_target returned
  is_timeout, global_is_timeout,
  expired,             \* (history) a timer found the statement at hand unfinished
  timeout_id,
  timers,              \* the timeout_query threads
  mysql_server_pid,
  pid_file,            \* pid_pass_to_fuzzer: no file, an empty one or a pid
  monitor, seen,       \* where the launcher is and the pid that jobs -l gave
  server, serving,     \* the last server started and whether it is up
  database             \* test123 exists

callVars == <<calls, retry_time, is_already_killed_in_connect, server_response, hung, fault>>
flagVars == <<is_timeout, global_is_timeout, expired>>
pidVars == <<mysql_server_pid, pid_file>>
serverVars == <<server, serving, database>>
monitorVars == <<monitor, seen>>
vars == <<pc, m_, broken, callVars, flagVars, timeout_id, timers, pidVars,
          monitorVars, serverVars>>

Unset == -1    \* mysql_server_pid before a pid was read, or after a kill
NoFile == -1   \* pid_file does not exist
Empty == 0     \* it was opened for writing

-----------------------------------------------------------------------------
(* The launcher starts the first server after the fuzzer.                  *)
Init ==
  /\ pc = "idle" /\ calls = 0
  /\ m_ = 0 /\ broken = FALSE
  /\ retry_time = 0 /\ is_already_killed_in_connect = FALSE
  /\ server_response = "done" /\ hung = FALSE /\ fault = "FAULT_NONE"
  /\ is_timeout = FALSE /\ global_is_timeout = FALSE /\ expired = FALSE
  /\ timeout_id = 0 /\ timers = {}
  /\ mysql_server_pid = Unset /\ pid_file = NoFile
  /\ monitor = "sleep" /\ seen = 0
  /\ server = 1 /\ serving = "booting" /\ database = TRUE

Mortal == server < MaxServers

-----------------------------------------------------------------------------
(* The server                                                              *)

Boot ==
  /\ serving = "booting"
  /\ serving' = "up"
  /\ UNCHANGED <<pc, m_, broken, callVars, flagVars, timeout_id, timers, pidVars,
                 monitorVars, server, database>>

Crash ==
  /\ serving # "down" /\ Mortal
  /\ serving' = "down"
  /\ UNCHANGED <<pc, m_, broken, callVars, flagVars, timeout_id, timers, pidVars,
                 monitorVars, server, database>>

(* The connection would bring the answer.                                  *)
Healthy == m_ = server /\ serving = "up" /\ ~broken

(* A statement, or the rest of its result, that never ends by itself.  It  *)
(* may have dropped test123 before; the repair creates it at its end.      *)
Hang ==
  /\ \/ pc \in {"query", "fixing"}
     \/ pc = "fetch" /\ server_response = "done"
  /\ Healthy /\ Mortal /\ ~hung
  /\ hung' = TRUE
  /\ database' \in IF pc = "fixing" THEN BOOLEAN ELSE {database, FALSE}
  /\ UNCHANGED <<pc, m_, broken, calls, retry_time, is_already_killed_in_connect,
                 server_response, fault, flagVars, timeout_id, timers, pidVars,
                 monitorVars, server, serving>>

Answered == ~hung \/ ~Healthy

(* kill(pid, SIGKILL).  With -1 the signal goes to every process of the    *)
(* user but the caller: server and launcher die, the fuzzer goes on.       *)
Kill(pid) ==
  /\ serving' = IF pid = server \/ pid = Unset THEN "down" ELSE serving
  /\ monitor' = IF pid = Unset THEN "dead" ELSE monitor
  /\ UNCHANGED <<seen, server, database>>

-----------------------------------------------------------------------------
(* The launcher: handle_background_pid_file and the endless loop           *)

(* jobs -l is run and its output read a second later.                      *)
LookForServer ==
  /\ monitor = "sleep"
  /\ seen' = IF serving = "down" THEN 0 ELSE server
  /\ monitor' = "looked"
  /\ UNCHANGED <<pc, m_, broken, callVars, flagVars, timeout_id, timers, pidVars,
                 serverVars>>

(* check_pid_exist, then the file is created or truncated ...              *)
OpenPidFile ==
  /\ monitor = "looked" /\ seen # 0
  /\ IF seen = server /\ serving # "down"
     THEN pid_file' = Empty /\ monitor' = "opened" /\ UNCHANGED seen
     ELSE UNCHANGED pid_file /\ monitor' = "sleep" /\ seen' = 0
  /\ UNCHANGED <<pc, m_, broken, callVars, flagVars, timeout_id, timers,
                 mysql_server_pid, serverVars>>

(* ... and written, unless it was removed in the meantime.                 *)
WritePidFile ==
  /\ monitor = "opened"
  /\ pid_file' = IF pid_file = NoFile THEN NoFile ELSE seen
  /\ monitor' = "sleep" /\ seen' = 0
  /\ UNCHANGED <<pc, m_, broken, callVars, flagVars, timeout_id, timers,
                 mysql_server_pid, serverVars>>

(* No server was running: one is started on a fresh copy of the data.      *)
RestartServer ==
  /\ monitor = "looked" /\ seen = 0
  /\ server' = server + 1 /\ serving' = "booting" /\ database' = TRUE
  /\ monitor' = "sleep"
  /\ UNCHANGED <<pc, m_, broken, callVars, flagVars, timeout_id, timers, pidVars, seen>>

-----------------------------------------------------------------------------
(* A timer                                                                 *)

Timer == [id : Nat, on : Nat, open : BOOLEAN,
          at : {"sleeping", "flagged", "terminating", "killing", "clearing"}]

Become(t, at) == timers' = (timers \ {t}) \cup {[t EXCEPT !.at = at]}

Spawn(on) ==
  timers' = timers \cup {[id |-> timeout_id, on |-> on, open |-> TRUE, at |-> "sleeping"]}

(* The connection is closed: its number is not in use any more.            *)
Disconnect ==
  /\ m_' = 0 /\ broken' = FALSE
  /\ timers' = {[t EXCEPT !.open = FALSE] : t \in timers}

(* Under the lock: is the statement it was started for still running?      *)
Wake(t) ==
  /\ t.at = "sleeping"
  /\ IF t.id # timeout_id
     THEN /\ timers' = timers \ {t}
          /\ UNCHANGED flagVars
     ELSE /\ Mortal
          /\ Become(t, "flagged")
          /\ global_is_timeout' = TRUE
          /\ expired' = (expired \/ pc \in {"query", "answered"})
          /\ UNCHANGED is_timeout
  /\ UNCHANGED <<pc, m_, broken, callVars, timeout_id, pidVars, monitorVars, serverVars>>

(* Slip: the flag of the connector is read, which run_target sets later.   *)
TestFlagOfObject(t) ==
  /\ t.at = "flagged"
  /\ IF is_timeout THEN Become(t, "terminating") ELSE timers' = timers \ {t}
  /\ UNCHANGED <<pc, m_, broken, callVars, flagVars, timeout_id, pidVars, monitorVars,
                 serverVars>>

(* The flag is read again without the lock.                                *)
TestFlag(t) ==
  /\ t.at = "flagged"
  /\ IF global_is_timeout THEN Become(t, "terminating") ELSE timers' = timers \ {t}
  /\ UNCHANGED <<pc, m_, broken, callVars, flagVars, timeout_id, pidVars, monitorVars,
                 serverVars>>

(* terminate_query needs a connection to test123.  KILL closes the         *)
(* connection of the statement; a new server uses the same numbers again.  *)
TerminateQuery(t) ==
  /\ t.at = "terminating"
  /\ Become(t, "killing")
  /\ broken' \in IF serving # "up" \/ ~database \/ m_ # server THEN {broken}
                 ELSE IF t.on = server THEN {broken \/ t.open}
                 ELSE {broken, TRUE}
  /\ UNCHANGED <<pc, m_, callVars, flagVars, timeout_id, pidVars, monitorVars, serverVars>>

KillServer(t) ==
  /\ t.at = "killing" /\ (mysql_server_pid = server => Mortal)
  /\ Become(t, "clearing")
  /\ Kill(mysql_server_pid)
  /\ UNCHANGED <<pc, m_, broken, callVars, flagVars, timeout_id, pidVars>>

ClearPid(t) ==
  /\ t.at = "clearing"
  /\ timers' = timers \ {t}
  /\ mysql_server_pid' = Unset
  /\ UNCHANGED <<pc, m_, broken, callVars, flagVars, timeout_id, pid_file, monitorVars,
                 serverVars>>

-----------------------------------------------------------------------------
(* The fuzzing thread                                                      *)

(* restart_dbms, at the beginning of a run.  Its eight statements run      *)
(* without a timer.                                                        *)
RestartDbms ==
  /\ pc = "idle" /\ calls < MaxCalls
  /\ Disconnect
  /\ IF serving = "up"
     THEN timeout_id' = timeout_id + 8 /\ database' = TRUE
     ELSE UNCHANGED <<timeout_id, database>>
  /\ pc' = "reset"
  /\ UNCHANGED <<callVars, flagVars, pidVars, monitorVars, server, serving>>

RunTarget ==
  /\ pc \in {"idle", "reset"} /\ calls < MaxCalls
  /\ calls' = calls + 1
  /\ fault' = "FAULT_NONE"
  /\ pc' = IF m_ = 0 THEN "pid" ELSE "arm"
  /\ UNCHANGED <<m_, broken, retry_time, is_already_killed_in_connect, server_response,
                 hung, flagVars, timeout_id, timers, pidVars, monitorVars, serverVars>>

(* Slip: what was read from an empty file is taken for a pid.              *)
get_mysql_server_pidOfEmptyFile ==
  /\ mysql_server_pid' = IF pid_file = NoFile THEN mysql_server_pid ELSE pid_file
  /\ pid_file' = NoFile

(* The file is read and removed; an empty one leaves the pid as it was.    *)
get_mysql_server_pid ==
  /\ mysql_server_pid' = IF pid_file \in {NoFile, Empty}
                         THEN mysql_server_pid ELSE pid_file
  /\ pid_file' = NoFile

(* connect waits for a pid, reads the file once more and tries.            *)
AwaitPid ==
  /\ pc = "pid" /\ mysql_server_pid = Unset /\ pid_file # NoFile
  /\ get_mysql_server_pid
  /\ UNCHANGED <<pc, m_, broken, callVars, flagVars, timeout_id, timers, monitorVars,
                 serverVars>>

(* The attempt before the loop is not followed by fix_database.            *)
Connect ==
  /\ pc = "pid" /\ mysql_server_pid # Unset
  /\ get_mysql_server_pid
  /\ IF serving = "up" /\ database
     THEN /\ m_' = server /\ broken' = FALSE
          /\ pc' = "arm"
          /\ retry_time' = 0 /\ is_already_killed_in_connect' = FALSE
     ELSE /\ UNCHANGED <<m_, broken, is_already_killed_in_connect>>
          /\ retry_time' = IF retry_time = 0 THEN 1 ELSE retry_time
          /\ pc' = IF retry_time = 0 THEN "retry" ELSE "fix"
  /\ UNCHANGED <<calls, server_response, hung, fault, flagVars, timeout_id, timers,
                 monitorVars, serverVars>>

(* The head of the loop.  The pid is looked at before it is used.          *)
Retry ==
  /\ pc = "retry"
  /\ pc' = IF /\ retry_time > MaxRetries /\ ~is_already_killed_in_connect
              /\ mysql_server_pid # Unset /\ Mortal
           THEN "kill" ELSE "pid"
  /\ UNCHANGED <<m_, broken, callVars, flagVars, timeout_id, timers, pidVars,
                 monitorVars, serverVars>>

KillUnreachable ==
  /\ pc = "kill" /\ (mysql_server_pid = server => Mortal)
  /\ Kill(mysql_server_pid)
  /\ pc' = "pid"
  /\ mysql_server_pid' = Unset
  /\ is_already_killed_in_connect' = TRUE
  /\ UNCHANGED <<m_, broken, calls, retry_time, server_response, hung, fault, flagVars,
                 timeout_id, timers, pid_file>>

NextRetry ==
  /\ retry_time' = IF retry_time > MaxRetries THEN retry_time ELSE retry_time + 1
  /\ pc' = "retry"
  /\ UNCHANGED <<calls, is_already_killed_in_connect, server_response, fault>>

(* fix_database cannot connect to test_init either ...                     *)
FixImpossible ==
  /\ pc = "fix" /\ serving # "up"
  /\ NextRetry
  /\ UNCHANGED <<m_, broken, hung, flagVars, timeout_id, timers, pidVars, monitorVars,
                 serverVars>>

(* ... or creates test123 anew over a connection of its own, under timers  *)
(* like any statement.  Its seven statements count as one.                 *)
FixDatabase ==
  /\ pc = "fix" /\ serving = "up"
  /\ m_' = server /\ broken' = FALSE
  /\ Spawn(server)
  /\ pc' = "fixing"
  /\ UNCHANGED <<callVars, flagVars, timeout_id, pidVars, monitorVars, serverVars>>

FixDone ==
  /\ pc = "fixing" /\ Answered
  /\ hung' = FALSE
  /\ Disconnect
  /\ timeout_id' = timeout_id + 1
  /\ database' \in IF Healthy THEN {TRUE} ELSE BOOLEAN
  /\ NextRetry
  /\ UNCHANGED <<flagVars, pidVars, monitorVars, server, serving>>

(* Slip: the flag of the process is not reset.                             *)
ResetFlagOfObjectOnly ==
  /\ pc = "arm"
  /\ is_timeout' = FALSE
  /\ pc' = "armed"
  /\ UNCHANGED <<m_, broken, callVars, global_is_timeout, expired, timeout_id, timers,
                 pidVars, monitorVars, serverVars>>

ResetFlag ==
  /\ pc = "arm"
  /\ is_timeout' = FALSE /\ global_is_timeout' = FALSE
  /\ pc' = "armed"
  /\ UNCHANGED <<m_, broken, callVars, expired, timeout_id, timers, pidVars, monitorVars, serverVars>>

StartTimer ==
  /\ pc = "armed"
  /\ Spawn(m_)
  /\ expired' = FALSE
  /\ pc' = "query"
  /\ UNCHANGED <<m_, broken, callVars, is_timeout, global_is_timeout, timeout_id, pidVars,
                 monitorVars, serverVars>>

(* mysql_real_query returns.  A statement may drop test123; on a broken    *)
(* connection the code expects CR_SERVER_LOST, CR_SERVER_GONE_ERROR or     *)
(* another error.                                                          *)
Answer ==
  /\ pc = "query" /\ Answered
  /\ hung' = FALSE
  /\ server_response' \in IF Healthy THEN {"done"} ELSE {"failed", "lost"}
  /\ database' \in {database, FALSE}
  /\ pc' = "answered"
  /\ UNCHANGED <<m_, broken, calls, retry_time, is_already_killed_in_connect, fault,
                 flagVars, timeout_id, timers, pidVars, monitorVars, server, serving>>

(* Slip: the counter stands still.                                         *)
AdvanceForgotten ==
  /\ pc = "answered"
  /\ pc' = "fetch"
  /\ UNCHANGED <<m_, broken, callVars, flagVars, timeout_id, timers, pidVars, monitorVars,
                 serverVars>>

Advance ==
  /\ pc = "answered"
  /\ timeout_id' = timeout_id + 1
  /\ pc' = "fetch"
  /\ UNCHANGED <<m_, broken, callVars, flagVars, timers, pidVars, monitorVars, serverVars>>

(* The rows are fetched when the timers are disarmed.  Errors met here are *)
(* not looked at.                                                          *)
FetchResults ==
  /\ pc = "fetch" /\ Answered
  /\ hung' = FALSE
  /\ pc' = "advanced"
  /\ UNCHANGED <<m_, broken, calls, retry_time, is_already_killed_in_connect,
                 server_response, fault, flagVars, timeout_id, timers, pidVars,
                 monitorVars, serverVars>>

Return(f) ==
  /\ pc' = "idle"
  /\ fault' = f /\ server_response' = "done"
  /\ UNCHANGED <<calls, retry_time, is_already_killed_in_connect, hung, global_is_timeout,
                 expired>>

LoseConnection ==
  /\ pc = "advanced" /\ server_response = "lost"
  /\ timeout_id' = timeout_id + 1
  /\ Disconnect
  /\ is_timeout' = global_is_timeout
  /\ Return(IF global_is_timeout THEN "FAULT_TMOUT" ELSE "FAULT_CRASH")
  /\ UNCHANGED <<pidVars, monitorVars, serverVars>>

CheckServerAlive ==
  /\ pc = "advanced" /\ server_response # "lost"
  /\ timeout_id' = timeout_id + 1
  /\ serving = "up"
  /\ pc' = "alive"
  /\ UNCHANGED <<m_, broken, callVars, flagVars, timers, pidVars, monitorVars, serverVars>>

ServerNotAlive ==
  /\ pc = "advanced" /\ server_response # "lost"
  /\ timeout_id' = timeout_id + 1
  /\ serving # "up"
  /\ Disconnect
  /\ Return("FAULT_CRASH")
  /\ UNCHANGED <<is_timeout, pidVars, monitorVars, serverVars>>

Report ==
  /\ pc = "alive"
  /\ timeout_id' = timeout_id + 1
  /\ is_timeout' = global_is_timeout
  /\ Return(IF global_is_timeout THEN "FAULT_TMOUT" ELSE "FAULT_NONE")
  /\ UNCHANGED <<m_, broken, timers, pidVars, monitorVars, serverVars>>

-----------------------------------------------------------------------------
Monitor == LookForServer \/ OpenPidFile \/ WritePidFile \/ RestartServer

TimerStep(t) ==
  \/ Wake(t)
  \/ TestFlag(t)
  \/ TerminateQuery(t)
  \/ KillServer(t)
  \/ ClearPid(t)

Reconnect ==
  \/ AwaitPid
  \/ Connect
  \/ Retry
  \/ KillUnreachable
  \/ FixImpossible
  \/ FixDatabase
  \/ FixDone

Execute ==
  \/ ResetFlag
  \/ StartTimer
  \/ Answer
  \/ Advance
  \/ FetchResults
  \/ LoseConnection
  \/ CheckServerAlive
  \/ ServerNotAlive
  \/ Report

Next ==
  \/ Boot
  \/ Crash
  \/ Hang
  \/ Monitor
  \/ \E t \in timers : TimerStep(t)
  \/ RestartDbms
  \/ RunTarget
  \/ Reconnect
  \/ Execute

Spec == Init /\ [][Next]_vars

-----------------------------------------------------------------------------
(* Properties                                                              *)

TypeOK ==
  /\ pc \in {"idle", "reset", "pid", "retry", "kill", "fix", "fixing", "arm", "armed",
             "query", "answered", "fetch", "advanced", "alive"}
  /\ calls \in 0..MaxCalls
  /\ server \in 1..MaxServers /\ serving \in {"down", "booting", "up"}
  /\ m_ \in 0..server /\ broken \in BOOLEAN
  /\ retry_time \in 0..(MaxRetries + 1)
  /\ is_already_killed_in_connect \in BOOLEAN
  /\ server_response \in {"done", "failed", "lost"}
  /\ hung \in BOOLEAN
  /\ fault \in {"FAULT_NONE", "FAULT_TMOUT", "FAULT_CRASH"}
  /\ is_timeout \in BOOLEAN /\ global_is_timeout \in BOOLEAN /\ expired \in BOOLEAN
  /\ timeout_id \in Nat
  /\ timers \subseteq Timer
  /\ mysql_server_pid \in {Unset} \cup 1..server
  /\ pid_file \in {NoFile, Empty} \cup 1..server
  /\ monitor \in {"sleep", "looked", "opened", "dead"} /\ seen \in 0..server
  /\ database \in BOOLEAN

(* The statement a timer may still find unfinished is the one that is      *)
(* being executed, on the connection the timer was given: counting         *)
(* timeout_id on after every statement disarms the timers of earlier ones. *)
TimersAimAtCurrentStatement ==
  \A t \in timers :
    t.at = "sleeping" /\ t.id = timeout_id =>
      pc \in {"fixing", "query", "answered"} /\ t.on = m_ /\ t.open

(* run_target reports a time-out only of a statement that its own timer    *)
(* found unfinished, not one left over from an earlier statement or from   *)
(* the repair of the database.                                             *)
NoFalseTimeout ==
  pc = "idle" /\ (is_timeout \/ fault = "FAULT_TMOUT") => expired

(* ... and of each such statement.                                         *)
TimeoutIsLogged ==
  pc = "idle" /\ expired => is_timeout

-----------------------------------------------------------------------------
(* Launcher, server, timers and fuzzing thread go on by themselves, but a  *)
(* statement that hangs does not: its connection or its server has to end. *)
(* The fuzzing thread polls ten times a second for a file that the         *)
(* launcher opens and writes in an instant every other second: it does not *)
(* come in between every time, nor sleep whenever the file is complete.    *)
FairSpec ==
  /\ Spec
  /\ WF_vars(Boot) /\ WF_vars(Monitor)
  /\ WF_vars(\E t \in timers : TimerStep(t))
  /\ WF_vars(RunTarget) /\ WF_vars(Reconnect) /\ WF_vars(Execute)
  /\ SF_vars(WritePidFile /\ pid_file # NoFile)
  /\ SF_vars(AwaitPid /\ pid_file # Empty)

(* After a kill(-1) nobody starts a server or passes a pid any more.       *)
Unwatched == monitor = "dead"

(* What a timer cannot end: rows that do not come, and a statement whose   *)
(* server neither lets the timer in, as test123 is gone, nor is the one    *)
(* whose pid the connector knows.                                          *)
OutOfReach ==
  /\ hung
  /\ \/ pc = "fetch"
     \/ ~database /\ mysql_server_pid \notin {server, Unset}

(* Every call of run_target returns: a statement that hangs is ended by    *)
(* its timer, the pid comes through the file, the server comes back and    *)
(* the database is repaired.                                               *)
EveryCallReturns ==
  pc # "idle" ~> pc = "idle" \/ Unwatched \/ OutOfReach
=============================================================================
