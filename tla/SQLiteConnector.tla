--------------------------- MODULE SQLiteConnector ---------------------------
(***************************************************************************)
(* The connector of the SQLite fuzzer (DuckDB's is the same code).  The    *)
(* shell runs in AFL's persistent mode: a fork server forks it, and it     *)
(* stops itself after every statement, to be resumed for the next one with *)
(* its database in memory.  Four parties take part: the fuzzing thread in  *)
(* run_target, the handler of SIGALRM that interrupts it anywhere, the     *)
(* fork server behind two pipes, and the child that executes statements.   *)
(***************************************************************************)
EXTENDS Integers

CONSTANTS
  MaxCalls,    \* calls of run_target
  MaxDeaths,   \* times the fork server goes down
  uses_asan    \* the server is built with a sanitizer

ASSUME ConnectorAssumption ==
  MaxCalls \in Nat /\ MaxDeaths \in Nat /\ uses_asan \in BOOLEAN

VARIABLES
  pc,                \* where the fuzzing thread is
  is_reset_server,   \* the argument of run_target
  forksrv_pid,       \* -1: no fork server was started
  child_pid,         \* -1, 0, or the process the handler kills
  prev_timed_out,    \* 1: the fork server is told that its child was killed
  child_timed_out,   \* 1: the child was killed in this call
  is_timeout,
  timer,             \* ITIMER_REAL is armed
  status,            \* how the child stopped, as last read
  fault,             \* what run_target returned
  tmp_cur_res,       \* the calls whose output is in the result text
  fsrv,              \* the fork server
  child_stopped,     \* its variable of that name
  ctl, st_pid, st_status,   \* the pipes to and from it
  forked,            \* the pid of its last child
  child,             \* what that child does
  output,            \* the calls with bytes in the output file
  call, deaths,      \* calls made, deaths of the fork server
  ending,            \* how the child itself ended the statement of the call
  expired,           \* the alarm went off in the call
  unread,            \* calls that left their output in the file
  stray,             \* a signal was sent to anything but the child
  soiled             \* the child was forked before the last reset was over

thread == <<pc, is_reset_server, status, fault, tmp_cur_res, call>>
shared == <<forksrv_pid, child_pid, child_timed_out, is_timeout, timer>>
pipes == <<ctl, st_pid, st_status>>
server == <<fsrv, child_stopped, forked, deaths>>
history == <<ending, expired, unread, stray, soiled>>
vars == <<thread, shared, pipes, server, history,
          prev_timed_out, child, output>>

Unset == -1
(* What a variable that was never written may hold: a foreign pid.         *)
Garbage == MaxCalls + 1

(* The ways waitpid tells the fork server that a statement is over: the    *)
(* child stopped itself, exited, with MSAN_ERROR or another code, died of  *)
(* a signal of its own, or was killed.  All but the first end the child.   *)
Signalled == {"crashed", "killed"}
Over == Signalled \cup {"exited", "msan"}
Ended == Over \cup {"stopped"}

Init ==
  /\ pc = "idle" /\ is_reset_server = TRUE
  /\ forksrv_pid = Unset /\ child_pid = Unset
  /\ prev_timed_out = 0 /\ child_timed_out = 0 /\ is_timeout = FALSE
  /\ timer = FALSE /\ status = "stopped" /\ fault = "FAULT_NONE"
  /\ tmp_cur_res = {}
  /\ fsrv = "none" /\ child_stopped = FALSE
  /\ ctl = Unset /\ st_pid = 0 /\ st_status = "none"
  /\ forked = 0 /\ child = "none" /\ output = {}
  /\ call = 0 /\ deaths = 0
  /\ ending = "none" /\ expired = FALSE /\ unread = {} /\ stray = FALSE
  /\ soiled = FALSE

-----------------------------------------------------------------------------
(* kill(pid, SIGKILL): 0 and -1 mean every process of the group and of the *)
(* user, the fuzzer among them.                                            *)
Kill(pid) ==
  /\ child' = IF pid = forked /\ child \in {"running", "stopped"}
              THEN "killed" ELSE child
  /\ stray' = (stray \/ pid \in {0, Unset} \/ pid # forked)

(* Slip: the child the timer was set for is not killed.                    *)
handle_timeoutKillingNothing ==
  /\ timer
  /\ pc \notin {"exited", "killed"}
  /\ timer' = FALSE
  /\ is_timeout' = TRUE /\ child_timed_out' = 1 /\ expired' = TRUE
  /\ child_pid' = Unset
  /\ UNCHANGED <<thread, forksrv_pid, prev_timed_out, pipes, server, output,
                 child, stray, ending, unread, soiled>>

(* handle_timeout interrupts the thread wherever it is while the timer is  *)
(* armed.  The fork server is left alone.                                  *)
handle_timeout ==
  /\ timer
  /\ pc \notin {"exited", "killed"}
  /\ timer' = FALSE
  /\ is_timeout' = TRUE /\ child_timed_out' = 1 /\ expired' = TRUE
  /\ IF child_pid = Unset
     THEN UNCHANGED <<child, stray>>
     ELSE Kill(child_pid)
  /\ pc' = IF child_pid = 0 THEN "killed" ELSE pc
  /\ child_pid' = Unset
  /\ UNCHANGED <<is_reset_server, status, fault, tmp_cur_res, call,
                 forksrv_pid, prev_timed_out, pipes, server, output,
                 ending, unread, soiled>>

-----------------------------------------------------------------------------
(* restart_dbms begins every run, and the first of them starts the fork    *)
(* server.                                                                 *)
restart_dbms ==
  /\ pc = "idle" /\ forksrv_pid = Unset /\ call < MaxCalls
  /\ pc' = "boot" /\ is_reset_server' = TRUE
  /\ UNCHANGED <<status, fault, tmp_cur_res, call, shared, prev_timed_out,
                 pipes, server, child, output, history>>

init_forkserver ==
  /\ pc = "boot"
  /\ forksrv_pid' = 1 /\ fsrv' = "booting" /\ timer' = TRUE /\ pc' = "hello"
  /\ UNCHANGED <<is_reset_server, status, fault, tmp_cur_res, call,
                 child_pid, child_timed_out, is_timeout, prev_timed_out,
                 pipes, child_stopped, forked, deaths, child, output, history>>

(* The greeting is four zero bytes, which become child_pid.                *)
ReadHello ==
  /\ pc = "hello" /\ fsrv = "idle"
  /\ child_pid' = 0 /\ pc' = "greeted"
  /\ UNCHANGED <<is_reset_server, status, fault, tmp_cur_res, call,
                 forksrv_pid, child_timed_out, is_timeout, timer,
                 prev_timed_out, pipes, server, child, output, history>>

(* Without a greeting the status, and with it child_pid, is what happened  *)
(* to be on the stack; the assertion stops the process for one value of    *)
(* it, and else the fork server is started again.                          *)
MissHello ==
  /\ pc = "hello" /\ fsrv = "down"
  /\ \E garbage \in {Unset, 0, Garbage} :
       /\ child_pid' = garbage
       /\ IF garbage = Unset
          THEN /\ pc' = "exited"
               /\ UNCHANGED <<timer, forksrv_pid>>
          ELSE /\ pc' = "boot" /\ timer' = FALSE /\ forksrv_pid' = Unset
  /\ UNCHANGED <<is_reset_server, status, fault, tmp_cur_res, call,
                 child_timed_out, is_timeout, prev_timed_out, pipes, server,
                 child, output, history>>

(* run_target up to its request.  Once the fork server has greeted, the    *)
(* timer is disarmed and the dummy statement of restart_dbms follows.      *)
run_target ==
  /\ \/ /\ pc = "greeted"
        /\ timer' = FALSE
        /\ UNCHANGED is_reset_server
     \/ /\ pc = "idle" /\ forksrv_pid # Unset /\ call < MaxCalls
        /\ is_reset_server' \in BOOLEAN
        /\ UNCHANGED timer
  /\ is_timeout' = FALSE /\ child_timed_out' = 0
  /\ call' = call + 1 /\ expired' = FALSE /\ ending' = "none"
  /\ soiled' = (soiled \/ is_reset_server')
  /\ pc' = "request"
  /\ UNCHANGED <<status, fault, tmp_cur_res, forksrv_pid, child_pid,
                 prev_timed_out, pipes, server, child, output, unread, stray>>

(* The request says whether the last child was killed.                     *)
WriteRequest ==
  /\ pc = "request" /\ fsrv # "down"
  /\ ctl' = prev_timed_out /\ pc' = "pid"
  /\ UNCHANGED <<is_reset_server, status, fault, tmp_cur_res, call, shared,
                 prev_timed_out, st_pid, st_status, server, child, output,
                 history>>

(* A fork server that is gone, when it is asked or before it answers, ends *)
(* the fuzzer (RPFATAL).                                                   *)
RequestFails ==
  /\ \/ pc = "request"
     \/ pc = "pid" /\ st_pid = 0
  /\ fsrv = "down"
  /\ pc' = "exited"
  /\ UNCHANGED <<is_reset_server, status, fault, tmp_cur_res, call, shared,
                 prev_timed_out, pipes, server, child, output, history>>

(* The answer is the pid; the timer is armed.                              *)
ReadPid ==
  /\ pc = "pid" /\ st_pid # 0
  /\ child_pid' = st_pid /\ st_pid' = 0 /\ timer' = TRUE
  /\ pc' = IF is_reset_server THEN "kill" ELSE "await"
  /\ UNCHANGED <<is_reset_server, status, fault, tmp_cur_res, call,
                 forksrv_pid, child_timed_out, is_timeout, prev_timed_out,
                 ctl, st_status, server, child, output, history>>

(* Slip: the child is left alone.                                          *)
KillForResetOfNothing ==
  /\ pc = "kill"
  /\ pc' = "await"
  /\ UNCHANGED <<is_reset_server, status, fault, tmp_cur_res, call, shared,
                 prev_timed_out, pipes, server, child, output, history>>

(* A reset kills the child, so that the next one starts with an empty      *)
(* database.                                                               *)
KillForReset ==
  /\ pc = "kill"
  /\ Kill(child_pid)
  /\ pc' = IF child_pid = Unset THEN "killed" ELSE "await"
  /\ child_pid' = Unset /\ prev_timed_out' = 1 /\ child_timed_out' = 1
  /\ UNCHANGED <<is_reset_server, status, fault, tmp_cur_res, call,
                 forksrv_pid, is_timeout, timer, pipes, server, output,
                 ending, expired, unread, soiled>>

(* Slip: the number of bytes read is not looked at.                        *)
ReadStatusUnchecked ==
  /\ pc = "await" /\ (st_status # "none" \/ fsrv = "down")
  /\ status' = st_status /\ st_status' = "none" /\ pc' = "ended"
  /\ UNCHANGED <<is_reset_server, fault, tmp_cur_res, call, shared,
                 prev_timed_out, ctl, st_pid, server, child, output, history>>

ReadStatus ==
  /\ pc = "await" /\ st_status # "none"
  /\ status' = st_status /\ st_status' = "none" /\ pc' = "ended"
  /\ UNCHANGED <<is_reset_server, fault, tmp_cur_res, call, shared,
                 prev_timed_out, ctl, st_pid, server, child, output, history>>

(* The fork server is gone: run_target returns at once, with the timer     *)
(* armed and the result text of the previous call.                         *)
StatusFails ==
  /\ pc = "await" /\ st_status = "none" /\ fsrv = "down"
  /\ fault' = "FAULT_TMOUT" /\ pc' = "idle"
  /\ UNCHANGED <<is_reset_server, status, tmp_cur_res, call, shared,
                 prev_timed_out, pipes, server, child, output, history>>

ForgetChild ==
  /\ pc = "ended"
  /\ child_pid' = IF status # "stopped" THEN 0 ELSE child_pid
  /\ pc' = "disarm"
  /\ UNCHANGED <<is_reset_server, status, fault, tmp_cur_res, call,
                 forksrv_pid, child_timed_out, is_timeout, timer,
                 prev_timed_out, pipes, server, child, output, history>>

(* The output file is emptied when it is read, and not read when the child *)
(* was killed.                                                             *)
read_sqlite_output_and_reset_output_file ==
  IF child_timed_out = 1
  THEN /\ tmp_cur_res' = {} /\ UNCHANGED output
       /\ unread' = unread \cup {call}
  ELSE /\ tmp_cur_res' = output /\ output' = {}
       /\ UNCHANGED unread

(* A child that exited is no fault, but for the exit code of a sanitizer,  *)
(* which counts in a reset too.                                            *)
FaultOf ==
  IF status \in Signalled /\ ~is_reset_server
  THEN IF child_timed_out = 1 /\ status = "killed"
       THEN "FAULT_TMOUT" ELSE "FAULT_CRASH"
  ELSE IF uses_asan /\ status = "msan" THEN "FAULT_CRASH" ELSE "FAULT_NONE"

(* Slip: the fork server is not told of a child that was killed after it   *)
(* had stopped.                                                            *)
ReportForgettingTheKill ==
  /\ pc = "disarm"
  /\ timer' = FALSE /\ prev_timed_out' = 0
  /\ fault' = FaultOf
  /\ read_sqlite_output_and_reset_output_file
  /\ pc' = "idle"
  /\ UNCHANGED <<is_reset_server, status, call, forksrv_pid, child_pid,
                 child_timed_out, is_timeout, pipes, server, child,
                 ending, expired, stray, soiled>>

(* Slip: once a child was killed, the fork server is told so of all that    *)
(* follow.                                                                 *)
ReportRaisingOnly ==
  /\ pc = "disarm"
  /\ timer' = FALSE
  /\ prev_timed_out' = IF child_timed_out = 1 THEN 1 ELSE prev_timed_out
  /\ fault' = FaultOf
  /\ read_sqlite_output_and_reset_output_file
  /\ pc' = "idle"
  /\ UNCHANGED <<is_reset_server, status, call, forksrv_pid, child_pid,
                 child_timed_out, is_timeout, pipes, server, child,
                 ending, expired, stray, soiled>>

(* The timer is disarmed, and the outcome and the text reported.           *)
Report ==
  /\ pc = "disarm"
  /\ timer' = FALSE /\ prev_timed_out' = child_timed_out
  /\ fault' = FaultOf
  /\ read_sqlite_output_and_reset_output_file
  /\ pc' = "idle"
  /\ UNCHANGED <<is_reset_server, status, call, forksrv_pid, child_pid,
                 child_timed_out, is_timeout, pipes, server, child,
                 ending, expired, stray, soiled>>

-----------------------------------------------------------------------------
(* The fork server.  It greets; a request forks a child or resumes the one *)
(* that stopped; the end of the statement is passed on.                    *)
Greet ==
  /\ fsrv = "booting" /\ fsrv' = "idle"
  /\ UNCHANGED <<thread, shared, prev_timed_out, pipes, child_stopped,
                 forked, deaths, child, output, history>>

Fork ==
  /\ fsrv = "idle" /\ ctl # Unset
  /\ \/ ~child_stopped
     \/ ctl = 1 /\ child \in Over
  /\ forked' = forked + 1 /\ child' = "running"
  /\ st_pid' = forked' /\ ctl' = Unset
  /\ child_stopped' = FALSE /\ fsrv' = "wait"
  /\ soiled' = is_reset_server
  /\ UNCHANGED <<thread, shared, prev_timed_out, st_status, deaths, output,
                 ending, expired, unread, stray>>

Resume ==
  /\ fsrv = "idle" /\ ctl = 0 /\ child_stopped
  /\ child' = IF child = "stopped" THEN "running" ELSE child
  /\ st_pid' = forked /\ ctl' = Unset
  /\ child_stopped' = FALSE /\ fsrv' = "wait"
  /\ UNCHANGED <<thread, shared, prev_timed_out, st_status, forked, deaths,
                 output, history>>

PassStatus ==
  /\ fsrv = "wait" /\ child \in Ended
  /\ st_status' = child
  /\ child_stopped' = (child = "stopped")
  /\ child' = IF child = "stopped" THEN child ELSE "gone"
  /\ fsrv' = "idle"
  /\ UNCHANGED <<thread, shared, prev_timed_out, ctl, st_pid, forked, deaths,
                 output, history>>

GoDown ==
  /\ fsrv \in {"booting", "idle", "wait"} /\ deaths < MaxDeaths
  /\ fsrv' = "down" /\ deaths' = deaths + 1
  /\ UNCHANGED <<thread, shared, prev_timed_out, pipes, child_stopped,
                 forked, child, output, history>>

(* The child writes from the start of the file, over what is there or over *)
(* a part of it; it ends the statement by stopping itself, or exits or     *)
(* crashes under it, or does nothing of the kind.                          *)
Write ==
  /\ child = "running"
  /\ output' \in {output \cup {call}, {call}}
  /\ UNCHANGED <<thread, shared, prev_timed_out, pipes, server, child,
                 history>>

Stop ==
  /\ child = "running"
  /\ child' = "stopped" /\ ending' = "done"
  /\ UNCHANGED <<thread, shared, prev_timed_out, pipes, server, output,
                 expired, unread, stray, soiled>>

Die ==
  /\ child = "running"
  /\ child' \in {"exited", "msan", "crashed"} /\ ending' = child'
  /\ UNCHANGED <<thread, shared, prev_timed_out, pipes, server, output,
                 expired, unread, stray, soiled>>

-----------------------------------------------------------------------------
Boot == restart_dbms \/ init_forkserver \/ ReadHello \/ MissHello
Ask == run_target \/ WriteRequest \/ RequestFails \/ ReadPid \/ KillForReset
Await == ReadStatus \/ StatusFails \/ ForgetChild \/ Report
ForkServer == Greet \/ Fork \/ Resume \/ PassStatus
Shell == Write \/ Stop \/ Die

Next == handle_timeout \/ Boot \/ Ask \/ Await \/ ForkServer \/ Shell \/ GoDown

Spec == Init /\ [][Next]_vars

-----------------------------------------------------------------------------
ThreadTypes ==
  /\ pc \in {"idle", "boot", "hello", "greeted", "request", "pid", "kill",
             "await", "ended", "disarm", "exited", "killed"}
  /\ is_reset_server \in BOOLEAN
  /\ status \in Ended
  /\ fault \in {"FAULT_NONE", "FAULT_TMOUT", "FAULT_CRASH"}
  /\ tmp_cur_res \subseteq 1..MaxCalls
  /\ call \in 0..MaxCalls
SharedTypes ==
  /\ forksrv_pid \in {Unset, 1}
  /\ child_pid \in {Unset, Garbage} \cup (0..forked)
  /\ prev_timed_out \in {0, 1} /\ child_timed_out \in {0, 1}
  /\ is_timeout \in BOOLEAN /\ timer \in BOOLEAN
ServerTypes ==
  /\ fsrv \in {"none", "booting", "idle", "wait", "down"}
  /\ child_stopped \in BOOLEAN
  /\ ctl \in {Unset, 0, 1} /\ st_pid \in 0..forked
  /\ st_status \in Ended \cup {"none"}
  /\ forked \in 0..call
  /\ child \in Ended \cup {"none", "running", "gone"}
  /\ output \subseteq 1..MaxCalls
  /\ deaths \in 0..MaxDeaths
HistoryTypes ==
  /\ ending \in {"none", "done"} \cup (Over \ {"killed"}) /\ expired \in BOOLEAN
  /\ unread \subseteq 1..MaxCalls /\ stray \in BOOLEAN /\ soiled \in BOOLEAN

(* Every variable keeps its type.                                          *)
TypeOK == ThreadTypes /\ SharedTypes /\ ServerTypes /\ HistoryTypes

(* What run_target returns is about its own statement: a crash is one of   *)
(* the child under this statement, by a signal or by the exit code of a    *)
(* sanitizer, and not the death of one that was killed earlier; a time-out *)
(* is one of the alarm in this call unless the fork server is gone; a      *)
(* statement reported without fault was ended by the child itself, which   *)
(* finished it or exited under it, but not with a sanitizer's report; and  *)
(* the text holds nothing of a statement whose text was read.              *)
ResultIsOwn ==
  pc = "idle" /\ call > 0 =>
    /\ fault = "FAULT_CRASH" => \/ ending = "crashed"
                                \/ ending = "msan" /\ uses_asan
    /\ fault = "FAULT_TMOUT" => expired \/ fsrv = "down"
    /\ fault = "FAULT_NONE" /\ ~is_reset_server =>
         \/ ending \in {"done", "exited"}
         \/ ending = "msan" /\ ~uses_asan
    /\ fsrv # "down" => tmp_cur_res \subseteq unread \cup {call}

(* Thread, fork server and child never wait for one another: the thread    *)
(* that reads a pipe is owed the greeting, or a pid that the fork server   *)
(* can answer with at once, or a status; and then the child is over, or    *)
(* the alarm is set and aims at that very child.  A fork server told of a  *)
(* kill that never was would wait for a child that stands still, and so    *)
(* would one that nobody tells to go on.                                   *)
NobodyWaitsInVain ==
  /\ pc = "hello" => fsrv \in {"booting", "idle", "down"}
  /\ pc = "pid" /\ st_pid = 0 /\ fsrv # "down" =>
       /\ fsrv = "idle" /\ ctl # Unset
       /\ child_stopped /\ ctl = 1 => child \in Over
  /\ pc = "await" /\ st_status = "none" /\ fsrv # "down" =>
       /\ fsrv = "wait"
       /\ child \in Ended \/ (timer /\ child_pid = forked)

(* A statement is executed on a database that was opened after the last    *)
(* reset: whether the kill finds the child at work, stopped, or stopped    *)
(* and already reported, the fork server does not resume it.               *)
ResetIsComplete ==
  child = "running" /\ ~is_reset_server => ~soiled

(* "The SIGALRM handler simply kills the child_pid": neither the handler   *)
(* nor a reset kills anything but the child.                               *)
OnlyTheChildIsKilled == ~stray

(* The thread and the fork server go on, a fork server that was started    *)
(* greets or goes down, and time passes.  The child may run for ever.      *)
FairSpec ==
  /\ Spec
  /\ WF_vars(Boot) /\ WF_vars(Ask /\ pc # "idle") /\ WF_vars(Await)
  /\ WF_vars(ForkServer) /\ WF_vars(handle_timeout)

(* Every call of run_target returns or ends the process: thread and fork   *)
(* server do not wait for one another, nor the fork server for a child     *)
(* that nobody will resume.                                                *)
EveryCallReturns ==
  pc \notin {"idle", "exited", "killed"}
    ~> pc \in {"idle", "exited", "killed"}
=============================================================================
