------------------------ MODULE MySQLConnectorProofs ------------------------
(***************************************************************************)
(* What holds of MySQLConnector for every number of calls, servers and     *)
(* attempts to connect.                                                    *)
(*                                                                         *)
(* TimerInv is the heart of the argument.  No timer has an identifier      *)
(* beyond timeout_id, and one that has timeout_id itself and still sleeps  *)
(* belongs to the statement being executed.  It is inductive because the   *)
(* fuzzing thread starts a timer only where no such timer exists and       *)
(* counts on before it leaves.  FlagInv follows the flag from the place    *)
(* where it is reset to the place where it is reported.                    *)
(***************************************************************************)
EXTENDS MySQLConnector, TLAPS

(* Phases of a call of run_target.                                         *)
Executing == {"query", "answered", "fetch", "advanced", "alive"}
Timed == {"fixing", "query", "answered"}

(* What the launcher saw is still true, and the last server only dies with *)
(* it.                                                                     *)
ServerInv ==
  /\ serving = "down" => Mortal \/ monitor = "dead"
  /\ monitor = "looked" /\ seen = 0 => serving = "down"
  /\ monitor = "opened" => seen # 0

TimerInv ==
  \A t \in timers :
    /\ t.id <= timeout_id
    /\ t.at = "sleeping" /\ t.id = timeout_id => pc \in Timed /\ t.on = m_ /\ t.open

(* From where the flag is reset until the statement's timer starts it is   *)
(* down; then it goes up only with expired.  A report outlives the call.   *)
FlagInv ==
  /\ pc = "armed" => ~global_is_timeout
  /\ pc \in Executing => (global_is_timeout => expired)
  /\ pc \in Executing \cup {"armed"} => ~is_timeout
  /\ pc \notin {"idle", "reset"} => fault = "FAULT_NONE"
  /\ is_timeout \/ fault = "FAULT_TMOUT" => expired

ConnectorInv == TypeOK /\ ServerInv /\ TimerInv /\ FlagInv

-----------------------------------------------------------------------------
(* The initial state.                                                      *)
LEMMA ConnectorInvInit == Init => ConnectorInv
<1>. SUFFICES ASSUME Init PROVE ConnectorInv
  OBVIOUS
<1>. USE ConnectorAssumption DEF Init
<1>1. TypeOK
  <2>1. timers \subseteq Timer
    OBVIOUS
  <2>2. server \in 1..MaxServers /\ m_ \in 0..server /\ seen \in 0..server
    OBVIOUS
  <2>3. mysql_server_pid \in {Unset} \cup 1..server /\ pid_file \in {NoFile, Empty} \cup 1..server
    OBVIOUS
  <2>4. calls \in 0..MaxCalls /\ retry_time \in 0..(MaxRetries + 1) /\ timeout_id \in Nat
    OBVIOUS
  <2>. QED  BY <2>1, <2>2, <2>3, <2>4 DEF TypeOK
<1>2. ServerInv /\ TimerInv /\ FlagInv
  BY DEF ServerInv, TimerInv, FlagInv, Executing
<1>. QED  BY <1>1, <1>2 DEF ConnectorInv

-----------------------------------------------------------------------------
(* Steps of the server and of the launcher.  Neither touches a timer, the  *)
(* flags or the fuzzing thread.                                            *)
LEMMA EnvironmentKeeps ==
  ASSUME ConnectorInv, Boot \/ Crash \/ Hang \/ Monitor
  PROVE  ConnectorInv'
<1>. USE ConnectorAssumption DEF ConnectorInv, flagVars, callVars, pidVars, monitorVars, serverVars
<1>1. TimerInv' /\ FlagInv'
  <2>1. UNCHANGED <<pc, m_, timeout_id, timers, flagVars, fault>>
    BY DEF Boot, Crash, Hang, Monitor, LookForServer, OpenPidFile, WritePidFile, RestartServer
  <2>. QED  BY <2>1 DEF TimerInv, FlagInv
<1>2. CASE Boot
  BY <1>1, <1>2 DEF Boot, TypeOK, ServerInv, Mortal
<1>3. CASE Crash
  BY <1>1, <1>3 DEF Crash, TypeOK, ServerInv, Mortal
<1>8. CASE Hang
  <2>1. hung' = TRUE
    BY <1>8 DEF Hang
  <2>2. hung' \in BOOLEAN
    BY <2>1
  <2>3. database' \in BOOLEAN
    BY <1>8 DEF Hang, TypeOK
  <2>. QED  BY <1>1, <1>8, <2>2, <2>3 DEF Hang, TypeOK, ServerInv, Mortal
<1>4. CASE LookForServer
  BY <1>1, <1>4 DEF LookForServer, TypeOK, ServerInv, Mortal
<1>5. CASE OpenPidFile
  BY <1>1, <1>5 DEF OpenPidFile, TypeOK, ServerInv, Mortal, NoFile, Empty
<1>6. CASE WritePidFile
  BY <1>1, <1>6 DEF WritePidFile, TypeOK, ServerInv, Mortal, NoFile, Empty
<1>7. CASE RestartServer
  BY <1>1, <1>7 DEF RestartServer, TypeOK, ServerInv, Mortal, NoFile, Empty, Unset
<1>. QED  BY <1>2, <1>3, <1>4, <1>5, <1>6, <1>7, <1>8 DEF Monitor

(* A timer that goes on or ends never falls asleep again.                  *)
LEMMA BecomeKeeps ==
  ASSUME ConnectorInv, NEW t \in timers, NEW at \in {"flagged", "terminating", "killing", "clearing"},
         Become(t, at) \/ timers' = timers \ {t},
         UNCHANGED <<m_, timeout_id, pc>>
  PROVE  timers' \subseteq Timer /\ TimerInv'
<1>. USE DEF ConnectorInv
<1>1. t \in Timer
  BY DEF TypeOK
<1>. DEFINE u == [t EXCEPT !.at = at]
<1>2. u \in Timer /\ u.at = at /\ u.id = t.id
  BY <1>1 DEF Timer
<1>3. timers' \subseteq (timers \ {t}) \cup {u}
  BY DEF Become
<1>4. \A s \in timers' : s \in timers \/ s = u
  BY <1>3
<1>. HIDE DEF u
<1>5. timers' \subseteq Timer
  BY <1>2, <1>4 DEF TypeOK
<1>6. TimerInv'
  BY <1>2, <1>4 DEF TimerInv, Timed
<1>. QED  BY <1>5, <1>6

(* expired keeps step with the flag: only an armed timer raises it.        *)
LEMMA TimerKeeps ==
  ASSUME ConnectorInv, NEW t \in timers, TimerStep(t)
  PROVE  ConnectorInv'
<1>. USE ConnectorAssumption DEF ConnectorInv, flagVars, callVars, pidVars, monitorVars, serverVars
<1>1. CASE Wake(t)
  <2>1. timers' \subseteq Timer /\ TimerInv'
    BY <1>1, BecomeKeeps DEF Wake
  <2>2. TypeOK'
    <3>1. global_is_timeout' \in BOOLEAN /\ is_timeout' \in BOOLEAN
      BY <1>1 DEF Wake, TypeOK
    <3>2. expired' \in BOOLEAN
      <4>1. CASE t.id # timeout_id
        BY <1>1, <4>1 DEF Wake, TypeOK
      <4>2. CASE t.id = timeout_id
        BY <1>1, <4>2 DEF Wake
      <4>. QED  BY <4>1, <4>2
    <3>. QED  BY <1>1, <2>1, <3>1, <3>2 DEF Wake, TypeOK
  <2>3. FlagInv'
    <3>1. CASE t.id # timeout_id
      BY <1>1, <3>1 DEF Wake, FlagInv
    <3>2. CASE t.id = timeout_id
      <4>1. pc \in Timed
        BY <1>1, <3>2 DEF Wake, TimerInv
      <4>. QED  BY <1>1, <3>2, <4>1 DEF Wake, FlagInv, Timed, Executing, TypeOK
    <3>. QED  BY <3>1, <3>2
  <2>4. ServerInv'
    BY <1>1 DEF Wake, ServerInv, Mortal
  <2>. QED  BY <2>1, <2>2, <2>3, <2>4
<1>2. CASE TestFlag(t)
  <2>1. timers' \subseteq Timer /\ TimerInv'
    BY <1>2, BecomeKeeps DEF TestFlag
  <2>. QED  BY <1>2, <2>1 DEF TestFlag, TypeOK, ServerInv, FlagInv, Mortal
<1>3. CASE TerminateQuery(t)
  <2>1. timers' \subseteq Timer /\ TimerInv'
    BY <1>3, BecomeKeeps DEF TerminateQuery
  <2>2. broken' \in BOOLEAN
    <3>1. t.open \in BOOLEAN
      BY DEF TypeOK, Timer
    <3>. QED  BY <1>3, <3>1 DEF TerminateQuery, TypeOK
  <2>. QED  BY <1>3, <2>1, <2>2 DEF TerminateQuery, TypeOK, ServerInv, FlagInv, Mortal
<1>4. CASE KillServer(t)
  <2>1. timers' \subseteq Timer /\ TimerInv'
    BY <1>4, BecomeKeeps DEF KillServer
  <2>2. TypeOK' /\ ServerInv'
    BY <1>4, <2>1 DEF KillServer, Kill, TypeOK, ServerInv, Mortal
  <2>3. FlagInv'
    BY <1>4 DEF KillServer, FlagInv, Executing
  <2>. QED  BY <2>1, <2>2, <2>3
<1>5. CASE ClearPid(t)
  <2>1. timers' \subseteq Timer /\ TimerInv'
    BY <1>5, BecomeKeeps DEF ClearPid
  <2>. QED  BY <1>5, <2>1 DEF ClearPid, TypeOK, ServerInv, FlagInv, Mortal
<1>. QED  BY <1>1, <1>2, <1>3, <1>4, <1>5 DEF TimerStep

-----------------------------------------------------------------------------
(* Steps of the fuzzing thread.  A timer is started where no sleeping one  *)
(* has timeout_id.                                                         *)
LEMMA SpawnKeeps ==
  ASSUME ConnectorInv, pc \notin Timed, NEW on \in Nat, Spawn(on),
         m_' = on, timeout_id' = timeout_id, pc' \in Timed
  PROVE  timers' \subseteq Timer /\ TimerInv'
<1>. USE DEF ConnectorInv
<1>. DEFINE new == [id |-> timeout_id, on |-> on, open |-> TRUE, at |-> "sleeping"]
<1>1. timers' = timers \cup {new}
  BY DEF Spawn
<1>2. new \in Timer /\ new.id = timeout_id /\ new.on = on /\ new.open
  BY DEF Timer, TypeOK
<1>3. \A t \in timers : t.id <= timeout_id /\ ~(t.at = "sleeping" /\ t.id = timeout_id)
  BY DEF TimerInv
<1>4. timeout_id <= timeout_id
  BY DEF TypeOK
<1>. HIDE DEF new
<1>. QED  BY <1>1, <1>2, <1>3, <1>4 DEF TimerInv, TypeOK

(* A closed connection is neither to a server nor broken.                  *)
LEMMA DisconnectedType ==
  ASSUME server \in Nat, Disconnect
  PROVE  m_' \in 0..server /\ broken' \in BOOLEAN
<1>1. m_' \in 0..server
  BY DEF Disconnect
<1>2. broken' = FALSE
  BY DEF Disconnect
<1>3. broken' \in BOOLEAN
  BY <1>2
<1>. QED  BY <1>1, <1>3

(* Counting on disarms every timer, whatever becomes of the connection.    *)
LEMMA CountingKeeps ==
  ASSUME ConnectorInv, NEW n \in Nat \ {0}, timeout_id' = timeout_id + n,
         Disconnect \/ UNCHANGED <<m_, broken, timers>>
  PROVE  /\ timers' \subseteq Timer /\ TimerInv' /\ timeout_id' \in Nat
         /\ m_' \in 0..server /\ broken' \in BOOLEAN
<1>. USE DEF ConnectorInv
<1>1. timers \subseteq Timer /\ timeout_id \in Nat /\ server \in Nat
  BY ConnectorAssumption DEF TypeOK
<1>2. \A s \in timers' : s \in Timer /\ \E t \in timers : s.id = t.id
  <2>1. CASE Disconnect
    <3>1. timers' = {[t EXCEPT !.open = FALSE] : t \in timers}
      BY <2>1 DEF Disconnect
    <3>2. \A t \in timers : [t EXCEPT !.open = FALSE] \in Timer /\ [t EXCEPT !.open = FALSE].id = t.id
      BY <1>1 DEF Timer
    <3>. QED  BY <3>1, <3>2
  <2>2. CASE UNCHANGED <<m_, broken, timers>>
    BY <1>1, <2>2
  <2>. QED  BY <2>1, <2>2
<1>3. \A s \in timers' : s.id < timeout_id'
  <2>1. \A t \in timers : t.id \in Nat /\ t.id <= timeout_id
    BY <1>1 DEF TimerInv, Timer
  <2>. QED  BY <1>1, <1>2, <2>1
<1>4. TimerInv'
  <2>1. \A s \in timers' : s.id \in Nat
    BY <1>2 DEF Timer
  <2>. QED  BY <1>1, <1>3, <2>1 DEF TimerInv
<1>5. m_' \in 0..server /\ broken' \in BOOLEAN
  <2>1. CASE Disconnect
    BY <1>1, <2>1, DisconnectedType
  <2>2. CASE UNCHANGED <<m_, broken, timers>>
    BY <2>2 DEF TypeOK
  <2>. QED  BY <2>1, <2>2
<1>. QED  BY <1>1, <1>2, <1>4, <1>5

(* Closing a connection while no statement is executed.                    *)
LEMMA DisconnectKeeps ==
  ASSUME ConnectorInv, pc \notin Timed, Disconnect, UNCHANGED timeout_id
  PROVE  timers' \subseteq Timer /\ TimerInv' /\ m_' \in 0..server /\ broken' \in BOOLEAN
<1>. USE DEF ConnectorInv
<1>1. timers \subseteq Timer /\ server \in Nat
  BY ConnectorAssumption DEF TypeOK
<1>2. \A t \in timers : t.id <= timeout_id /\ ~(t.at = "sleeping" /\ t.id = timeout_id)
  BY DEF TimerInv
<1>3. \A t \in timers :
        LET u == [t EXCEPT !.open = FALSE]
        IN  u \in Timer /\ u.id = t.id /\ u.at = t.at
  BY <1>1 DEF Timer
<1>4. timers' = {[t EXCEPT !.open = FALSE] : t \in timers}
  BY DEF Disconnect
<1>5. timers' \subseteq Timer
  BY <1>3, <1>4
<1>6. TimerInv'
  <2>1. SUFFICES ASSUME NEW u \in timers'
                 PROVE  u.id <= timeout_id /\ ~(u.at = "sleeping" /\ u.id = timeout_id)
    BY DEF TimerInv
  <2>2. PICK t \in timers : u = [t EXCEPT !.open = FALSE]
    BY <1>4
  <2>3. u.id = t.id /\ u.at = t.at
    BY <1>3, <2>2
  <2>. QED  BY <1>2, <2>3
<1>7. m_' \in 0..server /\ broken' \in BOOLEAN
  BY <1>1, DisconnectedType
<1>. QED  BY <1>5, <1>6, <1>7

(* Steps that start no timer and do not count: no timer is armed.          *)
LEMMA QuietKeeps ==
  ASSUME ConnectorInv, pc \notin Timed, UNCHANGED <<timers, timeout_id>>
  PROVE  TimerInv'
BY DEF ConnectorInv, TimerInv

(* A run and a call begin while no statement is executed.                  *)
LEMMA BeginKeeps ==
  ASSUME ConnectorInv, RestartDbms \/ RunTarget
  PROVE  ConnectorInv'
<1>. USE ConnectorAssumption DEF ConnectorInv, flagVars, callVars, pidVars, monitorVars, serverVars
<1>1. pc \notin Timed
  BY DEF RestartDbms, RunTarget, Timed
<1>2. CASE RestartDbms
  <2>1. /\ timers' \subseteq Timer /\ TimerInv' /\ timeout_id' \in Nat
        /\ m_' \in 0..server /\ broken' \in BOOLEAN
    <3>1. CASE serving = "up"
      BY <1>2, <3>1, CountingKeeps DEF RestartDbms
    <3>2. CASE serving # "up"
      BY <1>1, <1>2, <3>2, DisconnectKeeps DEF RestartDbms, TypeOK
    <3>. QED  BY <3>1, <3>2
  <2>2. TypeOK'
    <3>1. database' \in BOOLEAN
      BY <1>2 DEF RestartDbms, TypeOK
    <3>. QED  BY <1>2, <2>1, <3>1 DEF RestartDbms, TypeOK
  <2>3. ServerInv' /\ FlagInv'
    BY <1>2 DEF RestartDbms, ServerInv, FlagInv, Mortal, Executing
  <2>. QED  BY <2>1, <2>2, <2>3
<1>3. CASE RunTarget
  <2>1. TimerInv'
    BY <1>1, <1>3, QuietKeeps DEF RunTarget
  <2>2. TypeOK'
    BY <1>3 DEF RunTarget, TypeOK
  <2>3. ServerInv' /\ FlagInv'
    BY <1>3 DEF RunTarget, ServerInv, FlagInv, Mortal, Executing
  <2>. QED  BY <2>1, <2>2, <2>3
<1>. QED  BY <1>2, <1>3

(* A pid that is read is that of a server that was started.                *)
LEMMA PidIsRead ==
  ASSUME TypeOK, get_mysql_server_pid
  PROVE  /\ mysql_server_pid' \in {Unset} \cup 1..server
         /\ pid_file' \in {NoFile, Empty} \cup 1..server
BY DEF TypeOK, get_mysql_server_pid

(* Steps of connect and of fix_database.                                   *)
LEMMA ReconnectKeeps ==
  ASSUME ConnectorInv, Reconnect
  PROVE  ConnectorInv'
<1>. USE ConnectorAssumption DEF ConnectorInv, flagVars, callVars, pidVars, monitorVars, serverVars
<1>1. CASE AwaitPid
  <2>1. TimerInv'
    BY <1>1, QuietKeeps DEF AwaitPid, Timed
  <2>. QED  BY <1>1, <2>1, PidIsRead DEF AwaitPid, TypeOK, ServerInv, FlagInv, Mortal
<1>2. CASE Connect
  <2>1. TimerInv'
    BY <1>2, QuietKeeps DEF Connect, Timed
  <2>2. m_' \in 0..server /\ broken' \in BOOLEAN
    <3>1. CASE serving = "up" /\ database
      <4>1. broken' = FALSE
        BY <1>2, <3>1, Zenon DEF Connect
      <4>2. broken' \in BOOLEAN
        BY <4>1
      <4>3. m_' \in 0..server
        BY <1>2, <3>1 DEF Connect, TypeOK
      <4>. QED  BY <4>2, <4>3
    <3>2. CASE ~(serving = "up" /\ database)
      BY <1>2, <3>2 DEF Connect, TypeOK
    <3>. QED  BY <3>1, <3>2
  <2>3. /\ retry_time' \in 0..(MaxRetries + 1) /\ is_already_killed_in_connect' \in BOOLEAN
        /\ pc' \in {"arm", "retry", "fix"}
    <3>1. CASE serving = "up" /\ database
      <4>1. is_already_killed_in_connect' = FALSE
        BY <1>2, <3>1, Zenon DEF Connect
      <4>2. is_already_killed_in_connect' \in BOOLEAN
        BY <4>1
      <4>3. retry_time' \in 0..(MaxRetries + 1) /\ pc' = "arm"
        BY <1>2, <3>1 DEF Connect
      <4>. QED  BY <4>2, <4>3
    <3>2. CASE ~(serving = "up" /\ database)
      BY <1>2, <3>2 DEF Connect, TypeOK
    <3>. QED  BY <3>1, <3>2
  <2>4. TypeOK'
    BY <1>2, <2>2, <2>3, PidIsRead DEF Connect, TypeOK
  <2>5. ServerInv'
    BY <1>2 DEF Connect, ServerInv, Mortal
  <2>6. FlagInv'
    BY <1>2, <2>3 DEF Connect, FlagInv, Executing
  <2>. QED  BY <2>1, <2>4, <2>5, <2>6
<1>3. CASE KillUnreachable
  <2>1. TimerInv'
    BY <1>3, QuietKeeps DEF KillUnreachable, Timed
  <2>2. TypeOK'
    <3>1. is_already_killed_in_connect' = TRUE
      BY <1>3 DEF KillUnreachable
    <3>2. is_already_killed_in_connect' \in BOOLEAN
      BY <3>1
    <3>. QED  BY <1>3, <3>2 DEF KillUnreachable, Kill, TypeOK
  <2>3. ServerInv'
    BY <1>3 DEF KillUnreachable, Kill, ServerInv, Mortal
  <2>4. FlagInv'
    BY <1>3 DEF KillUnreachable, FlagInv, Executing
  <2>. QED  BY <2>1, <2>2, <2>3, <2>4
<1>7. CASE Retry
  <2>1. TimerInv'
    BY <1>7, QuietKeeps DEF Retry, Timed
  <2>. QED  BY <1>7, <2>1 DEF Retry, TypeOK, ServerInv, FlagInv, Mortal, Executing
<1>4. CASE FixImpossible
  <2>1. TimerInv'
    BY <1>4, QuietKeeps DEF FixImpossible, Timed
  <2>. QED  BY <1>4, <2>1 DEF FixImpossible, NextRetry, TypeOK, ServerInv, FlagInv, Mortal, Executing
<1>5. CASE FixDatabase
  <2>1. timers' \subseteq Timer /\ TimerInv'
    BY <1>5, SpawnKeeps DEF FixDatabase, Timed, TypeOK
  <2>2. TypeOK'
    <3>1. broken' = FALSE
      BY <1>5 DEF FixDatabase
    <3>2. broken' \in BOOLEAN
      BY <3>1
    <3>. QED  BY <1>5, <2>1, <3>2 DEF FixDatabase, TypeOK
  <2>3. ServerInv' /\ FlagInv'
    BY <1>5 DEF FixDatabase, ServerInv, FlagInv, Mortal, Executing
  <2>. QED  BY <2>1, <2>2, <2>3
<1>6. CASE FixDone
  <2>1. /\ timers' \subseteq Timer /\ TimerInv' /\ timeout_id' \in Nat
        /\ m_' \in 0..server /\ broken' \in BOOLEAN
    BY <1>6, CountingKeeps DEF FixDone
  <2>2. database' \in BOOLEAN
    BY <1>6 DEF FixDone, TypeOK
  <2>3. TypeOK'
    <3>1. retry_time' \in 0..(MaxRetries + 1)
      BY <1>6 DEF FixDone, NextRetry, TypeOK
    <3>2. /\ UNCHANGED <<calls, is_already_killed_in_connect, server_response, fault,
                         flagVars, pidVars, monitorVars, server, serving>>
          /\ pc' = "retry" /\ hung' = FALSE
      BY <1>6 DEF FixDone, NextRetry
    <3>3. hung' \in BOOLEAN
      BY <3>2
    <3>. QED  BY <2>1, <2>2, <3>1, <3>2, <3>3 DEF TypeOK
  <2>4. ServerInv' /\ FlagInv'
    BY <1>6 DEF FixDone, NextRetry, ServerInv, FlagInv, Mortal, Executing
  <2>. QED  BY <2>1, <2>3, <2>4
<1>. QED  BY <1>1, <1>2, <1>3, <1>4, <1>5, <1>6, <1>7 DEF Reconnect

(* Steps of the execution of a statement, up to the report.                *)
LEMMA ExecuteKeeps ==
  ASSUME ConnectorInv, Execute
  PROVE  ConnectorInv'
<1>. USE ConnectorAssumption DEF ConnectorInv, flagVars, callVars, pidVars, monitorVars, serverVars
<1>1. CASE ResetFlag
  <2>1. TimerInv'
    BY <1>1, QuietKeeps DEF ResetFlag, Timed
  <2>2. TypeOK'
    <3>1. is_timeout' = FALSE /\ global_is_timeout' = FALSE
      BY <1>1 DEF ResetFlag
    <3>2. is_timeout' \in BOOLEAN /\ global_is_timeout' \in BOOLEAN
      BY <3>1
    <3>. QED  BY <1>1, <3>2 DEF ResetFlag, TypeOK
  <2>3. ServerInv' /\ FlagInv'
    BY <1>1 DEF ResetFlag, ServerInv, FlagInv, Mortal, Executing
  <2>. QED  BY <2>1, <2>2, <2>3
<1>2. CASE StartTimer
  <2>1. timers' \subseteq Timer /\ TimerInv'
    BY <1>2, SpawnKeeps DEF StartTimer, Timed, TypeOK
  <2>2. TypeOK'
    <3>1. expired' = FALSE
      BY <1>2 DEF StartTimer
    <3>2. expired' \in BOOLEAN
      BY <3>1
    <3>. QED  BY <1>2, <2>1, <3>2 DEF StartTimer, TypeOK
  <2>3. ServerInv' /\ FlagInv'
    BY <1>2 DEF StartTimer, ServerInv, FlagInv, Mortal, Executing
  <2>. QED  BY <2>1, <2>2, <2>3
<1>3. CASE Answer
  <2>1. TimerInv'
    BY <1>3 DEF Answer, TimerInv, Timed
  <2>2. database' \in BOOLEAN /\ server_response' \in {"done", "failed", "lost"}
    BY <1>3 DEF Answer, TypeOK
  <2>3. hung' = FALSE
    BY <1>3 DEF Answer
  <2>4. hung' \in BOOLEAN
    BY <2>3
  <2>. QED  BY <1>3, <2>1, <2>2, <2>4 DEF Answer, TypeOK, ServerInv, FlagInv, Mortal, Executing
<1>5. CASE FetchResults
  <2>1. TimerInv'
    BY <1>5, QuietKeeps DEF FetchResults, Timed
  <2>2. hung' = FALSE
    BY <1>5 DEF FetchResults
  <2>3. hung' \in BOOLEAN
    BY <2>2
  <2>. QED  BY <1>5, <2>1, <2>3 DEF FetchResults, TypeOK, ServerInv, FlagInv, Mortal, Executing
<1>4. CASE Advance \/ LoseConnection \/ CheckServerAlive \/ ServerNotAlive \/ Report
  <2>1. /\ timers' \subseteq Timer /\ TimerInv' /\ timeout_id' \in Nat
        /\ m_' \in 0..server /\ broken' \in BOOLEAN
    <3>1. timeout_id' = timeout_id + 1
      BY <1>4 DEF Advance, LoseConnection, CheckServerAlive, ServerNotAlive, Report
    <3>2. Disconnect \/ UNCHANGED <<m_, broken, timers>>
      BY <1>4 DEF Advance, LoseConnection, CheckServerAlive, ServerNotAlive, Report
    <3>. QED  BY <3>1, <3>2, CountingKeeps
  <2>2. UNCHANGED <<pidVars, monitorVars, serverVars, global_is_timeout, expired>>
    BY <1>4 DEF Advance, LoseConnection, CheckServerAlive, ServerNotAlive, Report, Return
  <2>3. TypeOK'
    BY <1>4, <2>1, <2>2
       DEF Advance, LoseConnection, CheckServerAlive, ServerNotAlive, Report, Return, TypeOK
  <2>4. ServerInv'
    BY <2>2 DEF ServerInv, Mortal
  <2>5. FlagInv'
    BY <1>4, <2>2
       DEF Advance, LoseConnection, CheckServerAlive, ServerNotAlive, Report, Return,
           FlagInv, Executing
  <2>. QED  BY <2>1, <2>3, <2>4, <2>5
<1>. QED  BY <1>1, <1>2, <1>3, <1>4, <1>5 DEF Execute

-----------------------------------------------------------------------------
(* The invariant is inductive.                                             *)
LEMMA ConnectorInvNext == ConnectorInv /\ [Next]_vars => ConnectorInv'
<1>. SUFFICES ASSUME ConnectorInv, [Next]_vars PROVE ConnectorInv'
  OBVIOUS
<1>1. CASE UNCHANGED vars
  BY <1>1 DEF vars, flagVars, callVars, pidVars, monitorVars, serverVars, ConnectorInv,
     TypeOK, ServerInv, TimerInv, FlagInv, Mortal
<1>2. CASE Next
  BY <1>2, EnvironmentKeeps, TimerKeeps, BeginKeeps, ReconnectKeeps, ExecuteKeeps DEF Next
<1>. QED  BY <1>1, <1>2

(* The parties keep to the protocol of timers, flags and pids.             *)
THEOREM ConnectorInvariant == Spec => []ConnectorInv
<1>. QED  BY ConnectorInvInit, ConnectorInvNext, PTL DEF Spec

(* Every variable keeps its type.                                          *)
THEOREM TypeCorrect == Spec => []TypeOK
<1>1. ConnectorInv => TypeOK
  BY DEF ConnectorInv
<1>. QED  BY <1>1, ConnectorInvariant, PTL

(* A sleeping timer can only strike at the statement it was started for:   *)
(* none of an earlier statement has the current timeout_id.                *)
THEOREM TimersStrikeOnlyTheirStatement == Spec => []TimersAimAtCurrentStatement
<1>1. ConnectorInv => TimersAimAtCurrentStatement
  BY DEF ConnectorInv, TimerInv, TimersAimAtCurrentStatement, Timed
<1>. QED  BY <1>1, ConnectorInvariant, PTL

(* run_target reports no time-out but one of the statement it executed.    *)
THEOREM TimeoutsAreReal == Spec => []NoFalseTimeout
<1>1. ConnectorInv => NoFalseTimeout
  BY DEF ConnectorInv, FlagInv, NoFalseTimeout
<1>. QED  BY <1>1, ConnectorInvariant, PTL
=============================================================================
