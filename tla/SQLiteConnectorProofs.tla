------------------------ MODULE SQLiteConnectorProofs ------------------------
(***************************************************************************)
(* Proofs about SQLiteConnector: types, and that every result is that of   *)
(* its own statement.  The argument follows the request through the pipes: *)
(* while the fork server waits, the child is that of this call; once it    *)
(* has passed the status on, the child stands still; and a child killed    *)
(* after it had stopped is known to the thread, which tells the fork       *)
(* server before the latter could resume it.                               *)
(***************************************************************************)
EXTENDS SQLiteConnector, TLAPS

Alive == pc \notin {"exited", "killed"}
Calling == {"request", "pid", "kill", "await", "ended", "disarm"}

(* How many calls, children and runs of the fork server there were.        *)
CountInv ==
  /\ pc \in Calling => call >= 1
  /\ pc \in {"boot", "hello", "greeted"} => call < MaxCalls
  /\ pc = "request" \/ ctl # Unset => forked < call
  /\ child # "none" => forked >= 1

(* What is in the pipes.                                                   *)
PipeInv ==
  /\ Alive /\ pc # "pid" => ctl = Unset /\ st_pid = 0
  /\ Alive /\ pc \notin {"pid", "kill", "await"} => st_status = "none"
  /\ Alive /\ ctl # Unset =>
       st_pid = 0 /\ st_status = "none" /\ ctl = prev_timed_out
  /\ Alive /\ fsrv = "wait" =>
       /\ pc \in {"pid", "kill", "await"}
       /\ ctl = Unset /\ st_status = "none"
  /\ Alive /\ pc = "pid" /\ ctl = Unset /\ fsrv = "idle" => st_status # "none"

(* A fork server that never forked.                                        *)
Fresh == child = "none" /\ ~child_stopped /\ output = {} /\ forked = 0

BootInv ==
  /\ pc \in {"boot", "hello", "greeted"} => Fresh
  /\ pc = "idle" /\ forksrv_pid = Unset => Fresh
  /\ Alive /\ fsrv \in {"none", "booting"} =>
       /\ pc \in {"idle", "boot", "hello"}
       /\ pc = "idle" => forksrv_pid = Unset
  /\ forksrv_pid = Unset => fsrv \in {"none", "down"}
  /\ pc \in Calling \cup {"hello", "greeted"} => forksrv_pid # Unset
  /\ pc = "boot" => forksrv_pid = Unset

(* Only a call that waits has the timer armed, or one that lost the fork   *)
(* server.                                                                 *)
TimerInv ==
  /\ Alive /\ timer /\ fsrv # "down" =>
       pc \in {"hello", "greeted", "kill", "await", "ended", "disarm"}
  /\ pc = "kill" => is_reset_server
  /\ pc \in Calling /\ child_timed_out = 1 =>
       expired \/ is_reset_server \/ fsrv = "down"

(* The request of this call was served.                                    *)
Served ==
  \/ pc = "pid" /\ ctl = Unset
  \/ pc \in {"kill", "await", "ended", "disarm"}

(* Between two requests a child that stopped stands still or was killed,   *)
(* and the thread knows of the kill.                                       *)
ChildInv ==
  /\ Alive /\ fsrv = "idle" =>
       child \in (IF child_stopped THEN {"stopped", "killed"}
                                   ELSE {"none", "gone"})
  /\ Alive /\ fsrv = "idle" /\ child = "killed" =>
       IF Served THEN child_timed_out = 1 ELSE prev_timed_out = 1

(* What an end of the child says of the statement.                         *)
Tells(s) ==
  /\ s \in {"exited", "msan", "crashed"} => ending = s
  /\ s = "stopped" => ending = "done"
  /\ s = "killed" => child_timed_out = 1

StatusInv ==
  /\ Alive /\ fsrv = "wait" => child \in Ended \cup {"running"}
  /\ Alive /\ fsrv = "wait" => Tells(child)
  /\ Alive /\ st_status # "none" => Tells(st_status) /\ child # "running"
  /\ pc \in {"ended", "disarm"} => Tells(status) /\ child # "running"

(* The output file holds what was not read and what this call wrote.       *)
OutputInv ==
  Alive /\ fsrv # "down" =>
    output \subseteq IF pc \in Calling THEN unread \cup {call} ELSE unread

(* The result, and that nothing changes it afterwards.                     *)
FaultInv ==
  /\ ResultIsOwn
  /\ pc = "idle" /\ fault # "FAULT_TMOUT" => child # "running"

ProtocolInv ==
  /\ CountInv /\ PipeInv /\ BootInv /\ TimerInv /\ ChildInv /\ StatusInv
  /\ OutputInv /\ FaultInv

ConnectorInv == TypeOK /\ ProtocolInv

(* Who waits for whom: what the pipes owe the thread, whether the child    *)
(* still runs, and whether the alarm can reach it.                         *)
PipeOwes ==
  /\ pc = "hello" => fsrv # "none"
  /\ st_pid # 0 => st_pid = forked
  /\ pc = "pid" /\ ctl = Unset => st_pid # 0
  /\ pc \in {"kill", "await"} /\ fsrv = "idle" => st_status # "none"

AtRest == child \notin {"running", "stopped"}

KilledIsAtRest ==
  fsrv # "down" =>
    /\ pc \in {"request", "pid"} => child_timed_out = 0
    /\ Alive /\ Served /\ child_timed_out = 1 => AtRest
    /\ Alive /\ ~Served /\ prev_timed_out = 1 => AtRest

AlarmReaches ==
  fsrv # "down" =>
    /\ pc \in {"kill", "await", "ended"} => child_pid = forked \/ AtRest
    /\ pc = "disarm" => child_pid \in {0, forked} \/ AtRest
    /\ pc \in {"kill", "await"} /\ child = "running" => timer

WaitInv == PipeOwes /\ KilledIsAtRest /\ AlarmReaches

-----------------------------------------------------------------------------
(* The initial state satisfies the invariant.                              *)
LEMMA InvInit == Init => ConnectorInv
<1>. SUFFICES ASSUME Init PROVE ConnectorInv
  OBVIOUS
<1>1. TypeOK
  <2>. USE ConnectorAssumption DEF Init
  <2>0. 0 \in 0..MaxCalls /\ 0 \in 0..MaxDeaths /\ 0 \in 0..0
    OBVIOUS
  <2>1. ThreadTypes /\ HistoryTypes
    BY <2>0 DEF ThreadTypes, HistoryTypes, Ended, Over, Signalled
  <2>2. SharedTypes
    BY DEF SharedTypes, Unset
  <2>3. ServerTypes
    BY <2>0 DEF ServerTypes
  <2>. QED  BY <2>1, <2>2, <2>3 DEF TypeOK
<1>2. CountInv /\ PipeInv /\ BootInv /\ TimerInv
  BY DEF Init, CountInv, PipeInv, BootInv, TimerInv, Fresh, Calling, Alive,
         Unset
<1>3. ChildInv /\ StatusInv
  BY DEF Init, ChildInv, StatusInv, Tells, Alive, Served, Ended, Over, Signalled
<1>4. OutputInv /\ FaultInv
  BY DEF Init, OutputInv, FaultInv, ResultIsOwn, Alive
<1>. QED  BY <1>1, <1>2, <1>3, <1>4 DEF ConnectorInv, ProtocolInv

(* Every step keeps the types.                                             *)
LEMMA TypesKept ==
  ASSUME ConnectorInv, [Next]_vars
  PROVE  TypeOK'
<1>1. CASE handle_timeout
  <2>1. ThreadTypes'
    BY <1>1, ConnectorAssumption
    DEF handle_timeout, Kill, TypeOK, ThreadTypes, SharedTypes, ServerTypes,
      HistoryTypes, ConnectorInv, ProtocolInv, CountInv, Calling, Unset,
      Garbage, Ended, Over, Signalled, thread, shared, pipes, server, history
  <2>2. SharedTypes'
    BY <1>1, ConnectorAssumption
    DEF handle_timeout, Kill, TypeOK, ThreadTypes, SharedTypes, ServerTypes,
      HistoryTypes, ConnectorInv, ProtocolInv, CountInv, Calling, Unset,
      Garbage, Ended, Over, Signalled, thread, shared, pipes, server, history
  <2>3. ServerTypes'
    BY <1>1, ConnectorAssumption
    DEF handle_timeout, Kill, TypeOK, ThreadTypes, SharedTypes, ServerTypes,
      HistoryTypes, ConnectorInv, ProtocolInv, CountInv, Calling, Unset,
      Garbage, Ended, Over, Signalled, thread, shared, pipes, server, history
  <2>4. HistoryTypes'
    BY <1>1, ConnectorAssumption
    DEF handle_timeout, Kill, TypeOK, ThreadTypes, SharedTypes, ServerTypes,
      HistoryTypes, ConnectorInv, ProtocolInv, CountInv, Calling, Unset,
      Garbage, Ended, Over, Signalled, thread, shared, pipes, server, history
  <2>. QED  BY <2>1, <2>2, <2>3, <2>4 DEF TypeOK
<1>2. CASE restart_dbms
  BY <1>2, ConnectorAssumption
  DEF restart_dbms, TypeOK, ThreadTypes, SharedTypes, ServerTypes,
      HistoryTypes, ConnectorInv, ProtocolInv, CountInv, Calling, Unset,
      Garbage, Ended, Over, Signalled, thread, shared, pipes, server, history
<1>3. CASE init_forkserver
  BY <1>3, ConnectorAssumption
  DEF init_forkserver, TypeOK, ThreadTypes, SharedTypes, ServerTypes,
      HistoryTypes, ConnectorInv, ProtocolInv, CountInv, Calling, Unset,
      Garbage, Ended, Over, Signalled, thread, shared, pipes, server, history
<1>4. CASE ReadHello
  BY <1>4, ConnectorAssumption
  DEF ReadHello, TypeOK, ThreadTypes, SharedTypes, ServerTypes,
      HistoryTypes, ConnectorInv, ProtocolInv, CountInv, Calling, Unset,
      Garbage, Ended, Over, Signalled, thread, shared, pipes, server, history
<1>5. CASE MissHello
  <2>1. ThreadTypes'
    BY <1>5, ConnectorAssumption
    DEF MissHello, TypeOK, ThreadTypes, SharedTypes, ServerTypes,
      HistoryTypes, ConnectorInv, ProtocolInv, CountInv, Calling, Unset,
      Garbage, Ended, Over, Signalled, thread, shared, pipes, server, history
  <2>2. SharedTypes'
    <3>1. PICK garbage \in {Unset, 0, Garbage} : child_pid' = garbage
      BY <1>5 DEF MissHello
    <3>2. /\ forksrv_pid' \in {forksrv_pid, Unset}
          /\ forked' = forked
          /\ UNCHANGED <<prev_timed_out, child_timed_out, is_timeout>>
      BY <1>5 DEF MissHello, server
    <3>3. forked \in Nat
      BY DEF ConnectorInv, TypeOK, ThreadTypes, ServerTypes
    <3>4. child_pid' \in {Unset, Garbage} \cup (0..forked')
      BY <3>1, <3>2, <3>3
    <3>5. timer' \in BOOLEAN
      BY <1>5, Zenon DEF MissHello, ConnectorInv, TypeOK, SharedTypes
    <3>. QED  BY <3>2, <3>4, <3>5 DEF ConnectorInv, TypeOK, SharedTypes
  <2>3. ServerTypes'
    BY <1>5, ConnectorAssumption
    DEF MissHello, TypeOK, ThreadTypes, SharedTypes, ServerTypes,
      HistoryTypes, ConnectorInv, ProtocolInv, CountInv, Calling, Unset,
      Garbage, Ended, Over, Signalled, thread, shared, pipes, server, history
  <2>4. HistoryTypes'
    BY <1>5, ConnectorAssumption
    DEF MissHello, TypeOK, ThreadTypes, SharedTypes, ServerTypes,
      HistoryTypes, ConnectorInv, ProtocolInv, CountInv, Calling, Unset,
      Garbage, Ended, Over, Signalled, thread, shared, pipes, server, history
  <2>. QED  BY <2>1, <2>2, <2>3, <2>4 DEF TypeOK
<1>6. CASE run_target
  <2>1. ThreadTypes'
    BY <1>6, ConnectorAssumption
    DEF run_target, TypeOK, ThreadTypes, SharedTypes, ServerTypes,
      HistoryTypes, ConnectorInv, ProtocolInv, CountInv, Calling, Unset,
      Garbage, Ended, Over, Signalled, thread, shared, pipes, server, history
  <2>2. SharedTypes'
    BY <1>6, ConnectorAssumption
    DEF run_target, TypeOK, ThreadTypes, SharedTypes, ServerTypes,
      HistoryTypes, ConnectorInv, ProtocolInv, CountInv, Calling, Unset,
      Garbage, Ended, Over, Signalled, thread, shared, pipes, server, history
  <2>3. ServerTypes'
    BY <1>6, ConnectorAssumption
    DEF run_target, TypeOK, ThreadTypes, SharedTypes, ServerTypes,
      HistoryTypes, ConnectorInv, ProtocolInv, CountInv, Calling, Unset,
      Garbage, Ended, Over, Signalled, thread, shared, pipes, server, history
  <2>4. HistoryTypes'
    BY <1>6, ConnectorAssumption
    DEF run_target, TypeOK, ThreadTypes, SharedTypes, ServerTypes,
      HistoryTypes, ConnectorInv, ProtocolInv, CountInv, Calling, Unset,
      Garbage, Ended, Over, Signalled, thread, shared, pipes, server, history
  <2>. QED  BY <2>1, <2>2, <2>3, <2>4 DEF TypeOK
<1>7. CASE WriteRequest
  BY <1>7, ConnectorAssumption
  DEF WriteRequest, TypeOK, ThreadTypes, SharedTypes, ServerTypes,
      HistoryTypes, ConnectorInv, ProtocolInv, CountInv, Calling, Unset,
      Garbage, Ended, Over, Signalled, thread, shared, pipes, server, history
<1>8. CASE RequestFails
  BY <1>8, ConnectorAssumption
  DEF RequestFails, TypeOK, ThreadTypes, SharedTypes, ServerTypes,
      HistoryTypes, ConnectorInv, ProtocolInv, CountInv, Calling, Unset,
      Garbage, Ended, Over, Signalled, thread, shared, pipes, server, history
<1>9. CASE ReadPid
  BY <1>9, ConnectorAssumption
  DEF ReadPid, TypeOK, ThreadTypes, SharedTypes, ServerTypes, HistoryTypes,
      ConnectorInv, ProtocolInv, CountInv, Calling, Unset, Garbage, Ended,
      Over, Signalled, thread, shared, pipes, server, history
<1>10. CASE KillForReset
  BY <1>10, ConnectorAssumption
  DEF KillForReset, Kill, TypeOK, ThreadTypes, SharedTypes, ServerTypes,
      HistoryTypes, ConnectorInv, ProtocolInv, CountInv, Calling, Unset,
      Garbage, Ended, Over, Signalled, thread, shared, pipes, server, history
<1>11. CASE ReadStatus
  BY <1>11, ConnectorAssumption
  DEF ReadStatus, TypeOK, ThreadTypes, SharedTypes, ServerTypes,
      HistoryTypes, ConnectorInv, ProtocolInv, CountInv, Calling, Unset,
      Garbage, Ended, Over, Signalled, thread, shared, pipes, server, history
<1>12. CASE StatusFails
  BY <1>12, ConnectorAssumption
  DEF StatusFails, TypeOK, ThreadTypes, SharedTypes, ServerTypes,
      HistoryTypes, ConnectorInv, ProtocolInv, CountInv, Calling, Unset,
      Garbage, Ended, Over, Signalled, thread, shared, pipes, server, history
<1>13. CASE ForgetChild
  BY <1>13, ConnectorAssumption
  DEF ForgetChild, TypeOK, ThreadTypes, SharedTypes, ServerTypes,
      HistoryTypes, ConnectorInv, ProtocolInv, CountInv, Calling, Unset,
      Garbage, Ended, Over, Signalled, thread, shared, pipes, server, history
<1>14. CASE Report
  <2>1. ThreadTypes'
    BY <1>14, ConnectorAssumption
    DEF Report, FaultOf, read_sqlite_output_and_reset_output_file, TypeOK,
        ThreadTypes, SharedTypes, ServerTypes, HistoryTypes, ConnectorInv,
        ProtocolInv, CountInv, Calling, Unset, Garbage, Ended, Over,
        Signalled, thread, shared, pipes, server, history
  <2>2. SharedTypes'
    BY <1>14, ConnectorAssumption
    DEF Report, FaultOf, read_sqlite_output_and_reset_output_file, TypeOK,
        ThreadTypes, SharedTypes, ServerTypes, HistoryTypes, ConnectorInv,
        ProtocolInv, CountInv, Calling, Unset, Garbage, Ended, Over,
        Signalled, thread, shared, pipes, server, history
  <2>3. ServerTypes'
    BY <1>14, ConnectorAssumption
    DEF Report, FaultOf, read_sqlite_output_and_reset_output_file, TypeOK,
        ThreadTypes, SharedTypes, ServerTypes, HistoryTypes, ConnectorInv,
        ProtocolInv, CountInv, Calling, Unset, Garbage, Ended, Over,
        Signalled, thread, shared, pipes, server, history
  <2>4. HistoryTypes'
    <3>1. call \in 1..MaxCalls
      BY <1>14, ConnectorAssumption
      DEF Report, ConnectorInv, ProtocolInv, CountInv, Calling, TypeOK,
          ThreadTypes
    <3>. QED
      BY <1>14, <3>1
      DEF Report, read_sqlite_output_and_reset_output_file, ConnectorInv,
          TypeOK, HistoryTypes
  <2>. QED  BY <2>1, <2>2, <2>3, <2>4 DEF TypeOK
<1>15. CASE Greet
  BY <1>15, ConnectorAssumption
  DEF Greet, TypeOK, ThreadTypes, SharedTypes, ServerTypes, HistoryTypes,
      ConnectorInv, ProtocolInv, CountInv, Calling, Unset, Garbage, Ended,
      Over, Signalled, thread, shared, pipes, server, history
<1>16. CASE Fork
  <2>1. ThreadTypes'
    BY <1>16, ConnectorAssumption
    DEF Fork, TypeOK, ThreadTypes, SharedTypes, ServerTypes, HistoryTypes,
        ConnectorInv, ProtocolInv, CountInv, Calling, Unset, Garbage, Ended,
        Over, Signalled, thread, shared, pipes, server, history
  <2>2. SharedTypes'
    BY <1>16, ConnectorAssumption
    DEF Fork, TypeOK, ThreadTypes, SharedTypes, ServerTypes, HistoryTypes,
        ConnectorInv, ProtocolInv, CountInv, Calling, Unset, Garbage, Ended,
        Over, Signalled, thread, shared, pipes, server, history
  <2>3. ServerTypes'
    <3>1. forked + 1 \in 0..call /\ forked' = forked + 1
      BY <1>16, ConnectorAssumption
      DEF Fork, ConnectorInv, ProtocolInv, CountInv, TypeOK, ThreadTypes,
          ServerTypes
    <3>2. forked' \in 0..call' /\ st_pid' \in 0..forked'
      BY <1>16, <3>1, ConnectorAssumption
      DEF Fork, thread, ConnectorInv, TypeOK, ThreadTypes
    <3>. QED
      BY <1>16, <3>2 DEF Fork, ConnectorInv, TypeOK, ServerTypes, Ended, Over, Signalled
  <2>4. HistoryTypes'
    BY <1>16, ConnectorAssumption
    DEF Fork, TypeOK, ThreadTypes, SharedTypes, ServerTypes, HistoryTypes,
        ConnectorInv, ProtocolInv, CountInv, Calling, Unset, Garbage, Ended,
        Over, Signalled, thread, shared, pipes, server, history
  <2>. QED  BY <2>1, <2>2, <2>3, <2>4 DEF TypeOK
<1>17. CASE Resume
  <2>1. ThreadTypes'
    BY <1>17, ConnectorAssumption
    DEF Resume, TypeOK, ThreadTypes, SharedTypes, ServerTypes, HistoryTypes,
        ConnectorInv, ProtocolInv, CountInv, Calling, Unset, Garbage, Ended,
        Over, Signalled, thread, shared, pipes, server, history
  <2>2. SharedTypes'
    BY <1>17, ConnectorAssumption
    DEF Resume, TypeOK, ThreadTypes, SharedTypes, ServerTypes, HistoryTypes,
        ConnectorInv, ProtocolInv, CountInv, Calling, Unset, Garbage, Ended,
        Over, Signalled, thread, shared, pipes, server, history
  <2>3. ServerTypes'
    <3>1. forked \in 0..call /\ forked' = forked
      BY <1>17, ConnectorAssumption
      DEF Resume, ConnectorInv, ProtocolInv, CountInv, TypeOK, ThreadTypes,
          ServerTypes
    <3>2. forked' \in 0..call' /\ st_pid' \in 0..forked'
      BY <1>17, <3>1, ConnectorAssumption
      DEF Resume, thread, ConnectorInv, TypeOK, ThreadTypes
    <3>. QED
      BY <1>17, <3>2 DEF Resume, ConnectorInv, TypeOK, ServerTypes, Ended, Over, Signalled
  <2>4. HistoryTypes'
    BY <1>17, ConnectorAssumption
    DEF Resume, TypeOK, ThreadTypes, SharedTypes, ServerTypes, HistoryTypes,
        ConnectorInv, ProtocolInv, CountInv, Calling, Unset, Garbage, Ended,
        Over, Signalled, thread, shared, pipes, server, history
  <2>. QED  BY <2>1, <2>2, <2>3, <2>4 DEF TypeOK
<1>18. CASE PassStatus
  BY <1>18, ConnectorAssumption
  DEF PassStatus, TypeOK, ThreadTypes, SharedTypes, ServerTypes,
      HistoryTypes, ConnectorInv, ProtocolInv, CountInv, Calling, Unset,
      Garbage, Ended, Over, Signalled, thread, shared, pipes, server, history
<1>19. CASE Write
  BY <1>19, ConnectorAssumption
  DEF Write, TypeOK, ThreadTypes, SharedTypes, ServerTypes, HistoryTypes,
      ConnectorInv, ProtocolInv, CountInv, Calling, Unset, Garbage, Ended,
      Over, Signalled, thread, shared, pipes, server, history
<1>20. CASE Stop
  BY <1>20, ConnectorAssumption
  DEF Stop, TypeOK, ThreadTypes, SharedTypes, ServerTypes, HistoryTypes,
      ConnectorInv, ProtocolInv, CountInv, Calling, Unset, Garbage, Ended,
      Over, Signalled, thread, shared, pipes, server, history
<1>21. CASE Die
  BY <1>21, ConnectorAssumption
  DEF Die, TypeOK, ThreadTypes, SharedTypes, ServerTypes, HistoryTypes,
      ConnectorInv, ProtocolInv, CountInv, Calling, Unset, Garbage, Ended,
      Over, Signalled, thread, shared, pipes, server, history
<1>22. CASE GoDown
  BY <1>22, ConnectorAssumption
  DEF GoDown, TypeOK, ThreadTypes, SharedTypes, ServerTypes, HistoryTypes,
      ConnectorInv, ProtocolInv, CountInv, Calling, Unset, Garbage, Ended,
      Over, Signalled, thread, shared, pipes, server, history
<1>23. CASE UNCHANGED vars
  BY <1>23, ConnectorAssumption
  DEF vars, TypeOK, ThreadTypes, SharedTypes, ServerTypes, HistoryTypes,
      ConnectorInv, ProtocolInv, CountInv, Calling, Unset, Garbage, Ended,
      Over, Signalled, thread, shared, pipes, server, history
<1>. QED
  BY <1>1, <1>2, <1>3, <1>4, <1>5, <1>6, <1>7, <1>8, <1>9, <1>10, <1>11,
     <1>12, <1>13, <1>14, <1>15, <1>16, <1>17, <1>18, <1>19, <1>20, <1>21,
     <1>22, <1>23
  DEF Next, Boot, Ask, Await, ForkServer, Shell

(* Every step keeps the counts.                                            *)
LEMMA CountKept ==
  ASSUME ConnectorInv, [Next]_vars
  PROVE  CountInv'
<1>1. CASE handle_timeout
  BY <1>1, ConnectorAssumption
  DEF handle_timeout, Kill, CountInv, ConnectorInv, ProtocolInv, TypeOK,
      ThreadTypes, SharedTypes, ServerTypes, HistoryTypes, PipeInv, BootInv,
      Fresh, ChildInv, Alive, Calling, Unset, Ended, Over, Signalled, thread,
      shared, pipes, server, history
<1>2. CASE restart_dbms
  BY <1>2, ConnectorAssumption
  DEF restart_dbms, CountInv, ConnectorInv, ProtocolInv, TypeOK, ThreadTypes,
      SharedTypes, ServerTypes, HistoryTypes, PipeInv, BootInv, Fresh,
      ChildInv, Alive, Calling, Unset, Ended, Over, Signalled, thread, shared,
      pipes, server, history
<1>3. CASE init_forkserver
  BY <1>3, ConnectorAssumption
  DEF init_forkserver, CountInv, ConnectorInv, ProtocolInv, TypeOK,
      ThreadTypes, SharedTypes, ServerTypes, HistoryTypes, PipeInv, BootInv,
      Fresh, ChildInv, Alive, Calling, Unset, Ended, Over, Signalled, thread,
      shared, pipes, server, history
<1>4. CASE ReadHello
  BY <1>4, ConnectorAssumption
  DEF ReadHello, CountInv, ConnectorInv, ProtocolInv, TypeOK, ThreadTypes,
      SharedTypes, ServerTypes, HistoryTypes, PipeInv, BootInv, Fresh,
      ChildInv, Alive, Calling, Unset, Ended, Over, Signalled, thread, shared,
      pipes, server, history
<1>5. CASE MissHello
  BY <1>5, ConnectorAssumption
  DEF MissHello, CountInv, ConnectorInv, ProtocolInv, TypeOK, ThreadTypes,
      SharedTypes, ServerTypes, HistoryTypes, PipeInv, BootInv, Fresh,
      ChildInv, Alive, Calling, Unset, Ended, Over, Signalled, thread, shared,
      pipes, server, history
<1>6. CASE run_target
  BY <1>6, ConnectorAssumption
  DEF run_target, CountInv, ConnectorInv, ProtocolInv, TypeOK, ThreadTypes,
      SharedTypes, ServerTypes, HistoryTypes, PipeInv, BootInv, Fresh,
      ChildInv, Alive, Calling, Unset, Ended, Over, Signalled, thread, shared,
      pipes, server, history
<1>7. CASE WriteRequest
  BY <1>7, ConnectorAssumption
  DEF WriteRequest, CountInv, ConnectorInv, ProtocolInv, TypeOK, ThreadTypes,
      SharedTypes, ServerTypes, HistoryTypes, PipeInv, BootInv, Fresh,
      ChildInv, Alive, Calling, Unset, Ended, Over, Signalled, thread, shared,
      pipes, server, history
<1>8. CASE RequestFails
  BY <1>8, ConnectorAssumption
  DEF RequestFails, CountInv, ConnectorInv, ProtocolInv, TypeOK, ThreadTypes,
      SharedTypes, ServerTypes, HistoryTypes, PipeInv, BootInv, Fresh,
      ChildInv, Alive, Calling, Unset, Ended, Over, Signalled, thread, shared,
      pipes, server, history
<1>9. CASE ReadPid
  BY <1>9, ConnectorAssumption
  DEF ReadPid, CountInv, ConnectorInv, ProtocolInv, TypeOK, ThreadTypes,
      SharedTypes, ServerTypes, HistoryTypes, PipeInv, BootInv, Fresh,
      ChildInv, Alive, Calling, Unset, Ended, Over, Signalled, thread, shared,
      pipes, server, history
<1>10. CASE KillForReset
  BY <1>10, ConnectorAssumption
  DEF KillForReset, Kill, CountInv, ConnectorInv, ProtocolInv, TypeOK,
      ThreadTypes, SharedTypes, ServerTypes, HistoryTypes, PipeInv, BootInv,
      Fresh, ChildInv, Alive, Calling, Unset, Ended, Over, Signalled, thread,
      shared, pipes, server, history
<1>11. CASE ReadStatus
  BY <1>11, ConnectorAssumption
  DEF ReadStatus, CountInv, ConnectorInv, ProtocolInv, TypeOK, ThreadTypes,
      SharedTypes, ServerTypes, HistoryTypes, PipeInv, BootInv, Fresh,
      ChildInv, Alive, Calling, Unset, Ended, Over, Signalled, thread, shared,
      pipes, server, history
<1>12. CASE StatusFails
  BY <1>12, ConnectorAssumption
  DEF StatusFails, CountInv, ConnectorInv, ProtocolInv, TypeOK, ThreadTypes,
      SharedTypes, ServerTypes, HistoryTypes, PipeInv, BootInv, Fresh,
      ChildInv, Alive, Calling, Unset, Ended, Over, Signalled, thread, shared,
      pipes, server, history
<1>13. CASE ForgetChild
  BY <1>13, ConnectorAssumption
  DEF ForgetChild, CountInv, ConnectorInv, ProtocolInv, TypeOK, ThreadTypes,
      SharedTypes, ServerTypes, HistoryTypes, PipeInv, BootInv, Fresh,
      ChildInv, Alive, Calling, Unset, Ended, Over, Signalled, thread, shared,
      pipes, server, history
<1>14. CASE Report
  BY <1>14, ConnectorAssumption
  DEF Report, FaultOf, read_sqlite_output_and_reset_output_file, CountInv,
      ConnectorInv, ProtocolInv, TypeOK, ThreadTypes, SharedTypes,
      ServerTypes, HistoryTypes, PipeInv, BootInv, Fresh, ChildInv, Alive,
      Calling, Unset, Ended, Over, Signalled, thread, shared, pipes, server,
      history
<1>15. CASE Greet
  BY <1>15, ConnectorAssumption
  DEF Greet, CountInv, ConnectorInv, ProtocolInv, TypeOK, ThreadTypes,
      SharedTypes, ServerTypes, HistoryTypes, PipeInv, BootInv, Fresh,
      ChildInv, Alive, Calling, Unset, Ended, Over, Signalled, thread, shared,
      pipes, server, history
<1>16. CASE Fork
  BY <1>16, ConnectorAssumption
  DEF Fork, CountInv, ConnectorInv, ProtocolInv, TypeOK, ThreadTypes,
      SharedTypes, ServerTypes, HistoryTypes, PipeInv, BootInv, Fresh,
      ChildInv, Alive, Calling, Unset, Ended, Over, Signalled, thread, shared,
      pipes, server, history
<1>17. CASE Resume
  BY <1>17, ConnectorAssumption
  DEF Resume, CountInv, ConnectorInv, ProtocolInv, TypeOK, ThreadTypes,
      SharedTypes, ServerTypes, HistoryTypes, PipeInv, BootInv, Fresh,
      ChildInv, Alive, Calling, Unset, Ended, Over, Signalled, thread, shared,
      pipes, server, history
<1>18. CASE PassStatus
  BY <1>18, ConnectorAssumption
  DEF PassStatus, CountInv, ConnectorInv, ProtocolInv, TypeOK, ThreadTypes,
      SharedTypes, ServerTypes, HistoryTypes, PipeInv, BootInv, Fresh,
      ChildInv, Alive, Calling, Unset, Ended, Over, Signalled, thread, shared,
      pipes, server, history
<1>19. CASE Write
  BY <1>19, ConnectorAssumption
  DEF Write, CountInv, ConnectorInv, ProtocolInv, TypeOK, ThreadTypes,
      SharedTypes, ServerTypes, HistoryTypes, PipeInv, BootInv, Fresh,
      ChildInv, Alive, Calling, Unset, Ended, Over, Signalled, thread, shared,
      pipes, server, history
<1>20. CASE Stop
  BY <1>20, ConnectorAssumption
  DEF Stop, CountInv, ConnectorInv, ProtocolInv, TypeOK, ThreadTypes,
      SharedTypes, ServerTypes, HistoryTypes, PipeInv, BootInv, Fresh,
      ChildInv, Alive, Calling, Unset, Ended, Over, Signalled, thread, shared,
      pipes, server, history
<1>21. CASE Die
  BY <1>21, ConnectorAssumption
  DEF Die, CountInv, ConnectorInv, ProtocolInv, TypeOK, ThreadTypes,
      SharedTypes, ServerTypes, HistoryTypes, PipeInv, BootInv, Fresh,
      ChildInv, Alive, Calling, Unset, Ended, Over, Signalled, thread, shared,
      pipes, server, history
<1>22. CASE GoDown
  BY <1>22, ConnectorAssumption
  DEF GoDown, CountInv, ConnectorInv, ProtocolInv, TypeOK, ThreadTypes,
      SharedTypes, ServerTypes, HistoryTypes, PipeInv, BootInv, Fresh,
      ChildInv, Alive, Calling, Unset, Ended, Over, Signalled, thread, shared,
      pipes, server, history
<1>23. CASE UNCHANGED vars
  BY <1>23, ConnectorAssumption
  DEF vars, CountInv, ConnectorInv, ProtocolInv, TypeOK, ThreadTypes,
      SharedTypes, ServerTypes, HistoryTypes, PipeInv, BootInv, Fresh,
      ChildInv, Alive, Calling, Unset, Ended, Over, Signalled, thread, shared,
      pipes, server, history
<1>. QED
  BY <1>1, <1>2, <1>3, <1>4, <1>5, <1>6, <1>7, <1>8, <1>9, <1>10, <1>11,
     <1>12, <1>13, <1>14, <1>15, <1>16, <1>17, <1>18, <1>19, <1>20, <1>21,
     <1>22, <1>23
  DEF Next, Boot, Ask, Await, ForkServer, Shell

(* Every step keeps what is said of the pipes.                             *)
LEMMA PipesKept ==
  ASSUME ConnectorInv, [Next]_vars
  PROVE  PipeInv'
<1>1. CASE handle_timeout
  BY <1>1
  DEF handle_timeout, Kill, PipeInv, ConnectorInv, ProtocolInv, TypeOK,
      ThreadTypes, SharedTypes, ServerTypes, HistoryTypes, CountInv, BootInv,
      Alive, Calling, Unset, Ended, Over, Signalled, thread, shared, pipes,
      server, history
<1>2. CASE restart_dbms
  BY <1>2
  DEF restart_dbms, PipeInv, ConnectorInv, ProtocolInv, TypeOK, ThreadTypes,
      SharedTypes, ServerTypes, HistoryTypes, CountInv, BootInv, Alive,
      Calling, Unset, Ended, Over, Signalled, thread, shared, pipes, server,
      history
<1>3. CASE init_forkserver
  BY <1>3
  DEF init_forkserver, PipeInv, ConnectorInv, ProtocolInv, TypeOK,
      ThreadTypes, SharedTypes, ServerTypes, HistoryTypes, CountInv, BootInv,
      Alive, Calling, Unset, Ended, Over, Signalled, thread, shared, pipes,
      server, history
<1>4. CASE ReadHello
  BY <1>4
  DEF ReadHello, PipeInv, ConnectorInv, ProtocolInv, TypeOK, ThreadTypes,
      SharedTypes, ServerTypes, HistoryTypes, CountInv, BootInv, Alive,
      Calling, Unset, Ended, Over, Signalled, thread, shared, pipes, server,
      history
<1>5. CASE MissHello
  BY <1>5
  DEF MissHello, PipeInv, ConnectorInv, ProtocolInv, TypeOK, ThreadTypes,
      SharedTypes, ServerTypes, HistoryTypes, CountInv, BootInv, Alive,
      Calling, Unset, Ended, Over, Signalled, thread, shared, pipes, server,
      history
<1>6. CASE run_target
  BY <1>6
  DEF run_target, PipeInv, ConnectorInv, ProtocolInv, TypeOK, ThreadTypes,
      SharedTypes, ServerTypes, HistoryTypes, CountInv, BootInv, Alive,
      Calling, Unset, Ended, Over, Signalled, thread, shared, pipes, server,
      history
<1>7. CASE WriteRequest
  BY <1>7
  DEF WriteRequest, PipeInv, ConnectorInv, ProtocolInv, TypeOK, ThreadTypes,
      SharedTypes, ServerTypes, HistoryTypes, CountInv, BootInv, Alive,
      Calling, Unset, Ended, Over, Signalled, thread, shared, pipes, server,
      history
<1>8. CASE RequestFails
  BY <1>8
  DEF RequestFails, PipeInv, ConnectorInv, ProtocolInv, TypeOK, ThreadTypes,
      SharedTypes, ServerTypes, HistoryTypes, CountInv, BootInv, Alive,
      Calling, Unset, Ended, Over, Signalled, thread, shared, pipes, server,
      history
<1>9. CASE ReadPid
  BY <1>9
  DEF ReadPid, PipeInv, ConnectorInv, ProtocolInv, TypeOK, ThreadTypes,
      SharedTypes, ServerTypes, HistoryTypes, CountInv, BootInv, Alive,
      Calling, Unset, Ended, Over, Signalled, thread, shared, pipes, server,
      history
<1>10. CASE KillForReset
  BY <1>10
  DEF KillForReset, Kill, PipeInv, ConnectorInv, ProtocolInv, TypeOK,
      ThreadTypes, SharedTypes, ServerTypes, HistoryTypes, CountInv, BootInv,
      Alive, Calling, Unset, Ended, Over, Signalled, thread, shared, pipes,
      server, history
<1>11. CASE ReadStatus
  BY <1>11
  DEF ReadStatus, PipeInv, ConnectorInv, ProtocolInv, TypeOK, ThreadTypes,
      SharedTypes, ServerTypes, HistoryTypes, CountInv, BootInv, Alive,
      Calling, Unset, Ended, Over, Signalled, thread, shared, pipes, server,
      history
<1>12. CASE StatusFails
  BY <1>12
  DEF StatusFails, PipeInv, ConnectorInv, ProtocolInv, TypeOK, ThreadTypes,
      SharedTypes, ServerTypes, HistoryTypes, CountInv, BootInv, Alive,
      Calling, Unset, Ended, Over, Signalled, thread, shared, pipes, server,
      history
<1>13. CASE ForgetChild
  BY <1>13
  DEF ForgetChild, PipeInv, ConnectorInv, ProtocolInv, TypeOK, ThreadTypes,
      SharedTypes, ServerTypes, HistoryTypes, CountInv, BootInv, Alive,
      Calling, Unset, Ended, Over, Signalled, thread, shared, pipes, server,
      history
<1>14. CASE Report
  BY <1>14
  DEF Report, FaultOf, read_sqlite_output_and_reset_output_file, PipeInv,
      ConnectorInv, ProtocolInv, TypeOK, ThreadTypes, SharedTypes,
      ServerTypes, HistoryTypes, CountInv, BootInv, Alive, Calling, Unset,
      Ended, Over, Signalled, thread, shared, pipes, server, history
<1>15. CASE Greet
  BY <1>15
  DEF Greet, PipeInv, ConnectorInv, ProtocolInv, TypeOK, ThreadTypes,
      SharedTypes, ServerTypes, HistoryTypes, CountInv, BootInv, Alive,
      Calling, Unset, Ended, Over, Signalled, thread, shared, pipes, server,
      history
<1>16. CASE Fork
  BY <1>16
  DEF Fork, PipeInv, ConnectorInv, ProtocolInv, TypeOK, ThreadTypes,
      SharedTypes, ServerTypes, HistoryTypes, CountInv, BootInv, Alive,
      Calling, Unset, Ended, Over, Signalled, thread, shared, pipes, server,
      history
<1>17. CASE Resume
  BY <1>17
  DEF Resume, PipeInv, ConnectorInv, ProtocolInv, TypeOK, ThreadTypes,
      SharedTypes, ServerTypes, HistoryTypes, CountInv, BootInv, Alive,
      Calling, Unset, Ended, Over, Signalled, thread, shared, pipes, server,
      history
<1>18. CASE PassStatus
  BY <1>18
  DEF PassStatus, PipeInv, ConnectorInv, ProtocolInv, TypeOK, ThreadTypes,
      SharedTypes, ServerTypes, HistoryTypes, CountInv, BootInv, Alive,
      Calling, Unset, Ended, Over, Signalled, thread, shared, pipes, server,
      history
<1>19. CASE Write
  BY <1>19
  DEF Write, PipeInv, ConnectorInv, ProtocolInv, TypeOK, ThreadTypes,
      SharedTypes, ServerTypes, HistoryTypes, CountInv, BootInv, Alive,
      Calling, Unset, Ended, Over, Signalled, thread, shared, pipes, server,
      history
<1>20. CASE Stop
  BY <1>20
  DEF Stop, PipeInv, ConnectorInv, ProtocolInv, TypeOK, ThreadTypes,
      SharedTypes, ServerTypes, HistoryTypes, CountInv, BootInv, Alive,
      Calling, Unset, Ended, Over, Signalled, thread, shared, pipes, server,
      history
<1>21. CASE Die
  BY <1>21
  DEF Die, PipeInv, ConnectorInv, ProtocolInv, TypeOK, ThreadTypes,
      SharedTypes, ServerTypes, HistoryTypes, CountInv, BootInv, Alive,
      Calling, Unset, Ended, Over, Signalled, thread, shared, pipes, server,
      history
<1>22. CASE GoDown
  BY <1>22
  DEF GoDown, PipeInv, ConnectorInv, ProtocolInv, TypeOK, ThreadTypes,
      SharedTypes, ServerTypes, HistoryTypes, CountInv, BootInv, Alive,
      Calling, Unset, Ended, Over, Signalled, thread, shared, pipes, server,
      history
<1>23. CASE UNCHANGED vars
  BY <1>23
  DEF vars, PipeInv, ConnectorInv, ProtocolInv, TypeOK, ThreadTypes,
      SharedTypes, ServerTypes, HistoryTypes, CountInv, BootInv, Alive,
      Calling, Unset, Ended, Over, Signalled, thread, shared, pipes, server,
      history
<1>. QED
  BY <1>1, <1>2, <1>3, <1>4, <1>5, <1>6, <1>7, <1>8, <1>9, <1>10, <1>11,
     <1>12, <1>13, <1>14, <1>15, <1>16, <1>17, <1>18, <1>19, <1>20, <1>21,
     <1>22, <1>23
  DEF Next, Boot, Ask, Await, ForkServer, Shell

(* Every step keeps what is said of the start.                             *)
LEMMA BootKept ==
  ASSUME ConnectorInv, [Next]_vars
  PROVE  BootInv'
<1>1. CASE handle_timeout
  BY <1>1
  DEF handle_timeout, Kill, BootInv, ConnectorInv, ProtocolInv, TypeOK,
      ThreadTypes, SharedTypes, ServerTypes, HistoryTypes, PipeInv, Fresh,
      Alive, Calling, Unset, Ended, Over, Signalled, thread, shared, pipes,
      server, history
<1>2. CASE restart_dbms
  BY <1>2
  DEF restart_dbms, BootInv, ConnectorInv, ProtocolInv, TypeOK, ThreadTypes,
      SharedTypes, ServerTypes, HistoryTypes, PipeInv, Fresh, Alive, Calling,
      Unset, Ended, Over, Signalled, thread, shared, pipes, server, history
<1>3. CASE init_forkserver
  BY <1>3
  DEF init_forkserver, BootInv, ConnectorInv, ProtocolInv, TypeOK,
      ThreadTypes, SharedTypes, ServerTypes, HistoryTypes, PipeInv, Fresh,
      Alive, Calling, Unset, Ended, Over, Signalled, thread, shared, pipes,
      server, history
<1>4. CASE ReadHello
  BY <1>4
  DEF ReadHello, BootInv, ConnectorInv, ProtocolInv, TypeOK, ThreadTypes,
      SharedTypes, ServerTypes, HistoryTypes, PipeInv, Fresh, Alive, Calling,
      Unset, Ended, Over, Signalled, thread, shared, pipes, server, history
<1>5. CASE MissHello
  BY <1>5
  DEF MissHello, BootInv, ConnectorInv, ProtocolInv, TypeOK, ThreadTypes,
      SharedTypes, ServerTypes, HistoryTypes, PipeInv, Fresh, Alive, Calling,
      Unset, Ended, Over, Signalled, thread, shared, pipes, server, history
<1>6. CASE run_target
  BY <1>6
  DEF run_target, BootInv, ConnectorInv, ProtocolInv, TypeOK, ThreadTypes,
      SharedTypes, ServerTypes, HistoryTypes, PipeInv, Fresh, Alive, Calling,
      Unset, Ended, Over, Signalled, thread, shared, pipes, server, history
<1>7. CASE WriteRequest
  BY <1>7
  DEF WriteRequest, BootInv, ConnectorInv, ProtocolInv, TypeOK, ThreadTypes,
      SharedTypes, ServerTypes, HistoryTypes, PipeInv, Fresh, Alive, Calling,
      Unset, Ended, Over, Signalled, thread, shared, pipes, server, history
<1>8. CASE RequestFails
  BY <1>8
  DEF RequestFails, BootInv, ConnectorInv, ProtocolInv, TypeOK, ThreadTypes,
      SharedTypes, ServerTypes, HistoryTypes, PipeInv, Fresh, Alive, Calling,
      Unset, Ended, Over, Signalled, thread, shared, pipes, server, history
<1>9. CASE ReadPid
  BY <1>9
  DEF ReadPid, BootInv, ConnectorInv, ProtocolInv, TypeOK, ThreadTypes,
      SharedTypes, ServerTypes, HistoryTypes, PipeInv, Fresh, Alive, Calling,
      Unset, Ended, Over, Signalled, thread, shared, pipes, server, history
<1>10. CASE KillForReset
  BY <1>10
  DEF KillForReset, Kill, BootInv, ConnectorInv, ProtocolInv, TypeOK,
      ThreadTypes, SharedTypes, ServerTypes, HistoryTypes, PipeInv, Fresh,
      Alive, Calling, Unset, Ended, Over, Signalled, thread, shared, pipes,
      server, history
<1>11. CASE ReadStatus
  BY <1>11
  DEF ReadStatus, BootInv, ConnectorInv, ProtocolInv, TypeOK, ThreadTypes,
      SharedTypes, ServerTypes, HistoryTypes, PipeInv, Fresh, Alive, Calling,
      Unset, Ended, Over, Signalled, thread, shared, pipes, server, history
<1>12. CASE StatusFails
  BY <1>12
  DEF StatusFails, BootInv, ConnectorInv, ProtocolInv, TypeOK, ThreadTypes,
      SharedTypes, ServerTypes, HistoryTypes, PipeInv, Fresh, Alive, Calling,
      Unset, Ended, Over, Signalled, thread, shared, pipes, server, history
<1>13. CASE ForgetChild
  BY <1>13
  DEF ForgetChild, BootInv, ConnectorInv, ProtocolInv, TypeOK, ThreadTypes,
      SharedTypes, ServerTypes, HistoryTypes, PipeInv, Fresh, Alive, Calling,
      Unset, Ended, Over, Signalled, thread, shared, pipes, server, history
<1>14. CASE Report
  BY <1>14
  DEF Report, FaultOf, read_sqlite_output_and_reset_output_file, BootInv,
      ConnectorInv, ProtocolInv, TypeOK, ThreadTypes, SharedTypes,
      ServerTypes, HistoryTypes, PipeInv, Fresh, Alive, Calling, Unset,
      Ended, Over, Signalled, thread, shared, pipes, server, history
<1>15. CASE Greet
  BY <1>15
  DEF Greet, BootInv, ConnectorInv, ProtocolInv, TypeOK, ThreadTypes,
      SharedTypes, ServerTypes, HistoryTypes, PipeInv, Fresh, Alive, Calling,
      Unset, Ended, Over, Signalled, thread, shared, pipes, server, history
<1>16. CASE Fork
  BY <1>16
  DEF Fork, BootInv, ConnectorInv, ProtocolInv, TypeOK, ThreadTypes,
      SharedTypes, ServerTypes, HistoryTypes, PipeInv, Fresh, Alive, Calling,
      Unset, Ended, Over, Signalled, thread, shared, pipes, server, history
<1>17. CASE Resume
  BY <1>17
  DEF Resume, BootInv, ConnectorInv, ProtocolInv, TypeOK, ThreadTypes,
      SharedTypes, ServerTypes, HistoryTypes, PipeInv, Fresh, Alive, Calling,
      Unset, Ended, Over, Signalled, thread, shared, pipes, server, history
<1>18. CASE PassStatus
  BY <1>18
  DEF PassStatus, BootInv, ConnectorInv, ProtocolInv, TypeOK, ThreadTypes,
      SharedTypes, ServerTypes, HistoryTypes, PipeInv, Fresh, Alive, Calling,
      Unset, Ended, Over, Signalled, thread, shared, pipes, server, history
<1>19. CASE Write
  BY <1>19
  DEF Write, BootInv, ConnectorInv, ProtocolInv, TypeOK, ThreadTypes,
      SharedTypes, ServerTypes, HistoryTypes, PipeInv, Fresh, Alive, Calling,
      Unset, Ended, Over, Signalled, thread, shared, pipes, server, history
<1>20. CASE Stop
  BY <1>20
  DEF Stop, BootInv, ConnectorInv, ProtocolInv, TypeOK, ThreadTypes,
      SharedTypes, ServerTypes, HistoryTypes, PipeInv, Fresh, Alive, Calling,
      Unset, Ended, Over, Signalled, thread, shared, pipes, server, history
<1>21. CASE Die
  BY <1>21
  DEF Die, BootInv, ConnectorInv, ProtocolInv, TypeOK, ThreadTypes,
      SharedTypes, ServerTypes, HistoryTypes, PipeInv, Fresh, Alive, Calling,
      Unset, Ended, Over, Signalled, thread, shared, pipes, server, history
<1>22. CASE GoDown
  BY <1>22
  DEF GoDown, BootInv, ConnectorInv, ProtocolInv, TypeOK, ThreadTypes,
      SharedTypes, ServerTypes, HistoryTypes, PipeInv, Fresh, Alive, Calling,
      Unset, Ended, Over, Signalled, thread, shared, pipes, server, history
<1>23. CASE UNCHANGED vars
  BY <1>23
  DEF vars, BootInv, ConnectorInv, ProtocolInv, TypeOK, ThreadTypes,
      SharedTypes, ServerTypes, HistoryTypes, PipeInv, Fresh, Alive, Calling,
      Unset, Ended, Over, Signalled, thread, shared, pipes, server, history
<1>. QED
  BY <1>1, <1>2, <1>3, <1>4, <1>5, <1>6, <1>7, <1>8, <1>9, <1>10, <1>11,
     <1>12, <1>13, <1>14, <1>15, <1>16, <1>17, <1>18, <1>19, <1>20, <1>21,
     <1>22, <1>23
  DEF Next, Boot, Ask, Await, ForkServer, Shell

(* Every step keeps what is said of the timer.                             *)
LEMMA TimerKept ==
  ASSUME ConnectorInv, [Next]_vars
  PROVE  TimerInv'
<1>1. CASE handle_timeout
  BY <1>1
  DEF handle_timeout, Kill, TimerInv, ConnectorInv, ProtocolInv, TypeOK,
      ThreadTypes, SharedTypes, ServerTypes, HistoryTypes, PipeInv, BootInv,
      Alive, Calling, Unset, thread, shared, pipes, server, history
<1>2. CASE restart_dbms
  BY <1>2
  DEF restart_dbms, TimerInv, ConnectorInv, ProtocolInv, TypeOK,
      ThreadTypes, SharedTypes, ServerTypes, HistoryTypes, PipeInv, BootInv,
      Alive, Calling, Unset, thread, shared, pipes, server, history
<1>3. CASE init_forkserver
  BY <1>3
  DEF init_forkserver, TimerInv, ConnectorInv, ProtocolInv, TypeOK,
      ThreadTypes, SharedTypes, ServerTypes, HistoryTypes, PipeInv, BootInv,
      Alive, Calling, Unset, thread, shared, pipes, server, history
<1>4. CASE ReadHello
  BY <1>4
  DEF ReadHello, TimerInv, ConnectorInv, ProtocolInv, TypeOK, ThreadTypes,
      SharedTypes, ServerTypes, HistoryTypes, PipeInv, BootInv, Alive,
      Calling, Unset, thread, shared, pipes, server, history
<1>5. CASE MissHello
  BY <1>5
  DEF MissHello, TimerInv, ConnectorInv, ProtocolInv, TypeOK, ThreadTypes,
      SharedTypes, ServerTypes, HistoryTypes, PipeInv, BootInv, Alive,
      Calling, Unset, thread, shared, pipes, server, history
<1>6. CASE run_target
  BY <1>6
  DEF run_target, TimerInv, ConnectorInv, ProtocolInv, TypeOK, ThreadTypes,
      SharedTypes, ServerTypes, HistoryTypes, PipeInv, BootInv, Alive,
      Calling, Unset, thread, shared, pipes, server, history
<1>7. CASE WriteRequest
  BY <1>7
  DEF WriteRequest, TimerInv, ConnectorInv, ProtocolInv, TypeOK,
      ThreadTypes, SharedTypes, ServerTypes, HistoryTypes, PipeInv, BootInv,
      Alive, Calling, Unset, thread, shared, pipes, server, history
<1>8. CASE RequestFails
  BY <1>8
  DEF RequestFails, TimerInv, ConnectorInv, ProtocolInv, TypeOK,
      ThreadTypes, SharedTypes, ServerTypes, HistoryTypes, PipeInv, BootInv,
      Alive, Calling, Unset, thread, shared, pipes, server, history
<1>9. CASE ReadPid
  BY <1>9
  DEF ReadPid, TimerInv, ConnectorInv, ProtocolInv, TypeOK, ThreadTypes,
      SharedTypes, ServerTypes, HistoryTypes, PipeInv, BootInv, Alive,
      Calling, Unset, thread, shared, pipes, server, history
<1>10. CASE KillForReset
  BY <1>10
  DEF KillForReset, Kill, TimerInv, ConnectorInv, ProtocolInv, TypeOK,
      ThreadTypes, SharedTypes, ServerTypes, HistoryTypes, PipeInv, BootInv,
      Alive, Calling, Unset, thread, shared, pipes, server, history
<1>11. CASE ReadStatus
  BY <1>11
  DEF ReadStatus, TimerInv, ConnectorInv, ProtocolInv, TypeOK, ThreadTypes,
      SharedTypes, ServerTypes, HistoryTypes, PipeInv, BootInv, Alive,
      Calling, Unset, thread, shared, pipes, server, history
<1>12. CASE StatusFails
  BY <1>12
  DEF StatusFails, TimerInv, ConnectorInv, ProtocolInv, TypeOK, ThreadTypes,
      SharedTypes, ServerTypes, HistoryTypes, PipeInv, BootInv, Alive,
      Calling, Unset, thread, shared, pipes, server, history
<1>13. CASE ForgetChild
  BY <1>13
  DEF ForgetChild, TimerInv, ConnectorInv, ProtocolInv, TypeOK, ThreadTypes,
      SharedTypes, ServerTypes, HistoryTypes, PipeInv, BootInv, Alive,
      Calling, Unset, thread, shared, pipes, server, history
<1>14. CASE Report
  BY <1>14
  DEF Report, FaultOf, read_sqlite_output_and_reset_output_file, TimerInv,
      ConnectorInv, ProtocolInv, TypeOK, ThreadTypes, SharedTypes,
      ServerTypes, HistoryTypes, PipeInv, BootInv, Alive, Calling, Unset,
      thread, shared, pipes, server, history
<1>15. CASE Greet
  BY <1>15
  DEF Greet, TimerInv, ConnectorInv, ProtocolInv, TypeOK, ThreadTypes,
      SharedTypes, ServerTypes, HistoryTypes, PipeInv, BootInv, Alive,
      Calling, Unset, thread, shared, pipes, server, history
<1>16. CASE Fork
  BY <1>16
  DEF Fork, TimerInv, ConnectorInv, ProtocolInv, TypeOK, ThreadTypes,
      SharedTypes, ServerTypes, HistoryTypes, PipeInv, BootInv, Alive,
      Calling, Unset, thread, shared, pipes, server, history
<1>17. CASE Resume
  BY <1>17
  DEF Resume, TimerInv, ConnectorInv, ProtocolInv, TypeOK, ThreadTypes,
      SharedTypes, ServerTypes, HistoryTypes, PipeInv, BootInv, Alive,
      Calling, Unset, thread, shared, pipes, server, history
<1>18. CASE PassStatus
  BY <1>18
  DEF PassStatus, TimerInv, ConnectorInv, ProtocolInv, TypeOK, ThreadTypes,
      SharedTypes, ServerTypes, HistoryTypes, PipeInv, BootInv, Alive,
      Calling, Unset, thread, shared, pipes, server, history
<1>19. CASE Write
  BY <1>19
  DEF Write, TimerInv, ConnectorInv, ProtocolInv, TypeOK, ThreadTypes,
      SharedTypes, ServerTypes, HistoryTypes, PipeInv, BootInv, Alive,
      Calling, Unset, thread, shared, pipes, server, history
<1>20. CASE Stop
  BY <1>20
  DEF Stop, TimerInv, ConnectorInv, ProtocolInv, TypeOK, ThreadTypes,
      SharedTypes, ServerTypes, HistoryTypes, PipeInv, BootInv, Alive,
      Calling, Unset, thread, shared, pipes, server, history
<1>21. CASE Die
  BY <1>21
  DEF Die, TimerInv, ConnectorInv, ProtocolInv, TypeOK, ThreadTypes,
      SharedTypes, ServerTypes, HistoryTypes, PipeInv, BootInv, Alive,
      Calling, Unset, thread, shared, pipes, server, history
<1>22. CASE GoDown
  BY <1>22
  DEF GoDown, TimerInv, ConnectorInv, ProtocolInv, TypeOK, ThreadTypes,
      SharedTypes, ServerTypes, HistoryTypes, PipeInv, BootInv, Alive,
      Calling, Unset, thread, shared, pipes, server, history
<1>23. CASE UNCHANGED vars
  BY <1>23
  DEF vars, TimerInv, ConnectorInv, ProtocolInv, TypeOK, ThreadTypes,
      SharedTypes, ServerTypes, HistoryTypes, PipeInv, BootInv, Alive,
      Calling, Unset, thread, shared, pipes, server, history
<1>. QED
  BY <1>1, <1>2, <1>3, <1>4, <1>5, <1>6, <1>7, <1>8, <1>9, <1>10, <1>11,
     <1>12, <1>13, <1>14, <1>15, <1>16, <1>17, <1>18, <1>19, <1>20, <1>21,
     <1>22, <1>23
  DEF Next, Boot, Ask, Await, ForkServer, Shell

(* Every step keeps what is said of the child between two requests.        *)
LEMMA ChildKept ==
  ASSUME ConnectorInv, [Next]_vars
  PROVE  ChildInv'
<1>1. CASE handle_timeout
  BY <1>1
  DEF handle_timeout, Kill, ChildInv, ConnectorInv, ProtocolInv, TypeOK,
      ThreadTypes, SharedTypes, ServerTypes, HistoryTypes, PipeInv, BootInv,
      TimerInv, StatusInv, Fresh, Tells, Served, Alive, Calling, Unset,
      Ended, Over, Signalled, thread, shared, pipes, server, history
<1>2. CASE restart_dbms
  BY <1>2
  DEF restart_dbms, ChildInv, ConnectorInv, ProtocolInv, TypeOK,
      ThreadTypes, SharedTypes, ServerTypes, HistoryTypes, PipeInv, BootInv,
      TimerInv, StatusInv, Fresh, Tells, Served, Alive, Calling, Unset,
      Ended, Over, Signalled, thread, shared, pipes, server, history
<1>3. CASE init_forkserver
  BY <1>3
  DEF init_forkserver, ChildInv, ConnectorInv, ProtocolInv, TypeOK,
      ThreadTypes, SharedTypes, ServerTypes, HistoryTypes, PipeInv, BootInv,
      TimerInv, StatusInv, Fresh, Tells, Served, Alive, Calling, Unset,
      Ended, Over, Signalled, thread, shared, pipes, server, history
<1>4. CASE ReadHello
  BY <1>4
  DEF ReadHello, ChildInv, ConnectorInv, ProtocolInv, TypeOK, ThreadTypes,
      SharedTypes, ServerTypes, HistoryTypes, PipeInv, BootInv, TimerInv,
      StatusInv, Fresh, Tells, Served, Alive, Calling, Unset, Ended, Over,
      Signalled, thread, shared, pipes, server, history
<1>5. CASE MissHello
  BY <1>5
  DEF MissHello, ChildInv, ConnectorInv, ProtocolInv, TypeOK, ThreadTypes,
      SharedTypes, ServerTypes, HistoryTypes, PipeInv, BootInv, TimerInv,
      StatusInv, Fresh, Tells, Served, Alive, Calling, Unset, Ended, Over,
      Signalled, thread, shared, pipes, server, history
<1>6. CASE run_target
  BY <1>6
  DEF run_target, ChildInv, ConnectorInv, ProtocolInv, TypeOK, ThreadTypes,
      SharedTypes, ServerTypes, HistoryTypes, PipeInv, BootInv, TimerInv,
      StatusInv, Fresh, Tells, Served, Alive, Calling, Unset, Ended, Over,
      Signalled, thread, shared, pipes, server, history
<1>7. CASE WriteRequest
  BY <1>7
  DEF WriteRequest, ChildInv, ConnectorInv, ProtocolInv, TypeOK,
      ThreadTypes, SharedTypes, ServerTypes, HistoryTypes, PipeInv, BootInv,
      TimerInv, StatusInv, Fresh, Tells, Served, Alive, Calling, Unset,
      Ended, Over, Signalled, thread, shared, pipes, server, history
<1>8. CASE RequestFails
  BY <1>8
  DEF RequestFails, ChildInv, ConnectorInv, ProtocolInv, TypeOK,
      ThreadTypes, SharedTypes, ServerTypes, HistoryTypes, PipeInv, BootInv,
      TimerInv, StatusInv, Fresh, Tells, Served, Alive, Calling, Unset,
      Ended, Over, Signalled, thread, shared, pipes, server, history
<1>9. CASE ReadPid
  BY <1>9
  DEF ReadPid, ChildInv, ConnectorInv, ProtocolInv, TypeOK, ThreadTypes,
      SharedTypes, ServerTypes, HistoryTypes, PipeInv, BootInv, TimerInv,
      StatusInv, Fresh, Tells, Served, Alive, Calling, Unset, Ended, Over,
      Signalled, thread, shared, pipes, server, history
<1>10. CASE KillForReset
  BY <1>10
  DEF KillForReset, Kill, ChildInv, ConnectorInv, ProtocolInv, TypeOK,
      ThreadTypes, SharedTypes, ServerTypes, HistoryTypes, PipeInv, BootInv,
      TimerInv, StatusInv, Fresh, Tells, Served, Alive, Calling, Unset,
      Ended, Over, Signalled, thread, shared, pipes, server, history
<1>11. CASE ReadStatus
  BY <1>11
  DEF ReadStatus, ChildInv, ConnectorInv, ProtocolInv, TypeOK, ThreadTypes,
      SharedTypes, ServerTypes, HistoryTypes, PipeInv, BootInv, TimerInv,
      StatusInv, Fresh, Tells, Served, Alive, Calling, Unset, Ended, Over,
      Signalled, thread, shared, pipes, server, history
<1>12. CASE StatusFails
  BY <1>12
  DEF StatusFails, ChildInv, ConnectorInv, ProtocolInv, TypeOK, ThreadTypes,
      SharedTypes, ServerTypes, HistoryTypes, PipeInv, BootInv, TimerInv,
      StatusInv, Fresh, Tells, Served, Alive, Calling, Unset, Ended, Over,
      Signalled, thread, shared, pipes, server, history
<1>13. CASE ForgetChild
  BY <1>13
  DEF ForgetChild, ChildInv, ConnectorInv, ProtocolInv, TypeOK, ThreadTypes,
      SharedTypes, ServerTypes, HistoryTypes, PipeInv, BootInv, TimerInv,
      StatusInv, Fresh, Tells, Served, Alive, Calling, Unset, Ended, Over,
      Signalled, thread, shared, pipes, server, history
<1>14. CASE Report
  BY <1>14
  DEF Report, FaultOf, read_sqlite_output_and_reset_output_file, ChildInv,
      ConnectorInv, ProtocolInv, TypeOK, ThreadTypes, SharedTypes,
      ServerTypes, HistoryTypes, PipeInv, BootInv, TimerInv, StatusInv, Fresh,
      Tells, Served, Alive, Calling, Unset, Ended, Over, Signalled, thread,
      shared, pipes, server, history
<1>15. CASE Greet
  BY <1>15
  DEF Greet, ChildInv, ConnectorInv, ProtocolInv, TypeOK, ThreadTypes,
      SharedTypes, ServerTypes, HistoryTypes, PipeInv, BootInv, TimerInv,
      StatusInv, Fresh, Tells, Served, Alive, Calling, Unset, Ended, Over,
      Signalled, thread, shared, pipes, server, history
<1>16. CASE Fork
  BY <1>16
  DEF Fork, ChildInv, ConnectorInv, ProtocolInv, TypeOK, ThreadTypes,
      SharedTypes, ServerTypes, HistoryTypes, PipeInv, BootInv, TimerInv,
      StatusInv, Fresh, Tells, Served, Alive, Calling, Unset, Ended, Over,
      Signalled, thread, shared, pipes, server, history
<1>17. CASE Resume
  BY <1>17
  DEF Resume, ChildInv, ConnectorInv, ProtocolInv, TypeOK, ThreadTypes,
      SharedTypes, ServerTypes, HistoryTypes, PipeInv, BootInv, TimerInv,
      StatusInv, Fresh, Tells, Served, Alive, Calling, Unset, Ended, Over,
      Signalled, thread, shared, pipes, server, history
<1>18. CASE PassStatus
  BY <1>18
  DEF PassStatus, ChildInv, ConnectorInv, ProtocolInv, TypeOK, ThreadTypes,
      SharedTypes, ServerTypes, HistoryTypes, PipeInv, BootInv, TimerInv,
      StatusInv, Fresh, Tells, Served, Alive, Calling, Unset, Ended, Over,
      Signalled, thread, shared, pipes, server, history
<1>19. CASE Write
  BY <1>19
  DEF Write, ChildInv, ConnectorInv, ProtocolInv, TypeOK, ThreadTypes,
      SharedTypes, ServerTypes, HistoryTypes, PipeInv, BootInv, TimerInv,
      StatusInv, Fresh, Tells, Served, Alive, Calling, Unset, Ended, Over,
      Signalled, thread, shared, pipes, server, history
<1>20. CASE Stop
  BY <1>20
  DEF Stop, ChildInv, ConnectorInv, ProtocolInv, TypeOK, ThreadTypes,
      SharedTypes, ServerTypes, HistoryTypes, PipeInv, BootInv, TimerInv,
      StatusInv, Fresh, Tells, Served, Alive, Calling, Unset, Ended, Over,
      Signalled, thread, shared, pipes, server, history
<1>21. CASE Die
  BY <1>21
  DEF Die, ChildInv, ConnectorInv, ProtocolInv, TypeOK, ThreadTypes,
      SharedTypes, ServerTypes, HistoryTypes, PipeInv, BootInv, TimerInv,
      StatusInv, Fresh, Tells, Served, Alive, Calling, Unset, Ended, Over,
      Signalled, thread, shared, pipes, server, history
<1>22. CASE GoDown
  BY <1>22
  DEF GoDown, ChildInv, ConnectorInv, ProtocolInv, TypeOK, ThreadTypes,
      SharedTypes, ServerTypes, HistoryTypes, PipeInv, BootInv, TimerInv,
      StatusInv, Fresh, Tells, Served, Alive, Calling, Unset, Ended, Over,
      Signalled, thread, shared, pipes, server, history
<1>23. CASE UNCHANGED vars
  BY <1>23
  DEF vars, ChildInv, ConnectorInv, ProtocolInv, TypeOK, ThreadTypes,
      SharedTypes, ServerTypes, HistoryTypes, PipeInv, BootInv, TimerInv,
      StatusInv, Fresh, Tells, Served, Alive, Calling, Unset, Ended, Over,
      Signalled, thread, shared, pipes, server, history
<1>. QED
  BY <1>1, <1>2, <1>3, <1>4, <1>5, <1>6, <1>7, <1>8, <1>9, <1>10, <1>11,
     <1>12, <1>13, <1>14, <1>15, <1>16, <1>17, <1>18, <1>19, <1>20, <1>21,
     <1>22, <1>23
  DEF Next, Boot, Ask, Await, ForkServer, Shell

(* Every step keeps what is said of the status.                            *)
LEMMA StatusKept ==
  ASSUME ConnectorInv, [Next]_vars
  PROVE  StatusInv'
<1>1. CASE handle_timeout
  BY <1>1
  DEF handle_timeout, Kill, StatusInv, ConnectorInv, ProtocolInv, TypeOK,
      ThreadTypes, SharedTypes, ServerTypes, HistoryTypes, PipeInv, BootInv,
      TimerInv, ChildInv, Fresh, Tells, Served, Alive, Calling, Unset,
      Ended, Over, Signalled, thread, shared, pipes, server, history
<1>2. CASE restart_dbms
  BY <1>2
  DEF restart_dbms, StatusInv, ConnectorInv, ProtocolInv, TypeOK,
      ThreadTypes, SharedTypes, ServerTypes, HistoryTypes, PipeInv, BootInv,
      TimerInv, ChildInv, Fresh, Tells, Served, Alive, Calling, Unset,
      Ended, Over, Signalled, thread, shared, pipes, server, history
<1>3. CASE init_forkserver
  BY <1>3
  DEF init_forkserver, StatusInv, ConnectorInv, ProtocolInv, TypeOK,
      ThreadTypes, SharedTypes, ServerTypes, HistoryTypes, PipeInv, BootInv,
      TimerInv, ChildInv, Fresh, Tells, Served, Alive, Calling, Unset,
      Ended, Over, Signalled, thread, shared, pipes, server, history
<1>4. CASE ReadHello
  BY <1>4
  DEF ReadHello, StatusInv, ConnectorInv, ProtocolInv, TypeOK, ThreadTypes,
      SharedTypes, ServerTypes, HistoryTypes, PipeInv, BootInv, TimerInv,
      ChildInv, Fresh, Tells, Served, Alive, Calling, Unset, Ended, Over,
      Signalled, thread, shared, pipes, server, history
<1>5. CASE MissHello
  BY <1>5
  DEF MissHello, StatusInv, ConnectorInv, ProtocolInv, TypeOK, ThreadTypes,
      SharedTypes, ServerTypes, HistoryTypes, PipeInv, BootInv, TimerInv,
      ChildInv, Fresh, Tells, Served, Alive, Calling, Unset, Ended, Over,
      Signalled, thread, shared, pipes, server, history
<1>6. CASE run_target
  BY <1>6
  DEF run_target, StatusInv, ConnectorInv, ProtocolInv, TypeOK, ThreadTypes,
      SharedTypes, ServerTypes, HistoryTypes, PipeInv, BootInv, TimerInv,
      ChildInv, Fresh, Tells, Served, Alive, Calling, Unset, Ended, Over,
      Signalled, thread, shared, pipes, server, history
<1>7. CASE WriteRequest
  BY <1>7
  DEF WriteRequest, StatusInv, ConnectorInv, ProtocolInv, TypeOK,
      ThreadTypes, SharedTypes, ServerTypes, HistoryTypes, PipeInv, BootInv,
      TimerInv, ChildInv, Fresh, Tells, Served, Alive, Calling, Unset,
      Ended, Over, Signalled, thread, shared, pipes, server, history
<1>8. CASE RequestFails
  BY <1>8
  DEF RequestFails, StatusInv, ConnectorInv, ProtocolInv, TypeOK,
      ThreadTypes, SharedTypes, ServerTypes, HistoryTypes, PipeInv, BootInv,
      TimerInv, ChildInv, Fresh, Tells, Served, Alive, Calling, Unset,
      Ended, Over, Signalled, thread, shared, pipes, server, history
<1>9. CASE ReadPid
  BY <1>9
  DEF ReadPid, StatusInv, ConnectorInv, ProtocolInv, TypeOK, ThreadTypes,
      SharedTypes, ServerTypes, HistoryTypes, PipeInv, BootInv, TimerInv,
      ChildInv, Fresh, Tells, Served, Alive, Calling, Unset, Ended, Over,
      Signalled, thread, shared, pipes, server, history
<1>10. CASE KillForReset
  BY <1>10
  DEF KillForReset, Kill, StatusInv, ConnectorInv, ProtocolInv, TypeOK,
      ThreadTypes, SharedTypes, ServerTypes, HistoryTypes, PipeInv, BootInv,
      TimerInv, ChildInv, Fresh, Tells, Served, Alive, Calling, Unset,
      Ended, Over, Signalled, thread, shared, pipes, server, history
<1>11. CASE ReadStatus
  BY <1>11
  DEF ReadStatus, StatusInv, ConnectorInv, ProtocolInv, TypeOK, ThreadTypes,
      SharedTypes, ServerTypes, HistoryTypes, PipeInv, BootInv, TimerInv,
      ChildInv, Fresh, Tells, Served, Alive, Calling, Unset, Ended, Over,
      Signalled, thread, shared, pipes, server, history
<1>12. CASE StatusFails
  BY <1>12
  DEF StatusFails, StatusInv, ConnectorInv, ProtocolInv, TypeOK,
      ThreadTypes, SharedTypes, ServerTypes, HistoryTypes, PipeInv, BootInv,
      TimerInv, ChildInv, Fresh, Tells, Served, Alive, Calling, Unset,
      Ended, Over, Signalled, thread, shared, pipes, server, history
<1>13. CASE ForgetChild
  BY <1>13
  DEF ForgetChild, StatusInv, ConnectorInv, ProtocolInv, TypeOK,
      ThreadTypes, SharedTypes, ServerTypes, HistoryTypes, PipeInv, BootInv,
      TimerInv, ChildInv, Fresh, Tells, Served, Alive, Calling, Unset,
      Ended, Over, Signalled, thread, shared, pipes, server, history
<1>14. CASE Report
  BY <1>14
  DEF Report, FaultOf, read_sqlite_output_and_reset_output_file, StatusInv,
      ConnectorInv, ProtocolInv, TypeOK, ThreadTypes, SharedTypes,
      ServerTypes, HistoryTypes, PipeInv, BootInv, TimerInv, ChildInv, Fresh,
      Tells, Served, Alive, Calling, Unset, Ended, Over, Signalled, thread,
      shared, pipes, server, history
<1>15. CASE Greet
  BY <1>15
  DEF Greet, StatusInv, ConnectorInv, ProtocolInv, TypeOK, ThreadTypes,
      SharedTypes, ServerTypes, HistoryTypes, PipeInv, BootInv, TimerInv,
      ChildInv, Fresh, Tells, Served, Alive, Calling, Unset, Ended, Over,
      Signalled, thread, shared, pipes, server, history
<1>16. CASE Fork
  BY <1>16
  DEF Fork, StatusInv, ConnectorInv, ProtocolInv, TypeOK, ThreadTypes,
      SharedTypes, ServerTypes, HistoryTypes, PipeInv, BootInv, TimerInv,
      ChildInv, Fresh, Tells, Served, Alive, Calling, Unset, Ended, Over,
      Signalled, thread, shared, pipes, server, history
<1>17. CASE Resume
  BY <1>17
  DEF Resume, StatusInv, ConnectorInv, ProtocolInv, TypeOK, ThreadTypes,
      SharedTypes, ServerTypes, HistoryTypes, PipeInv, BootInv, TimerInv,
      ChildInv, Fresh, Tells, Served, Alive, Calling, Unset, Ended, Over,
      Signalled, thread, shared, pipes, server, history
<1>18. CASE PassStatus
  BY <1>18
  DEF PassStatus, StatusInv, ConnectorInv, ProtocolInv, TypeOK, ThreadTypes,
      SharedTypes, ServerTypes, HistoryTypes, PipeInv, BootInv, TimerInv,
      ChildInv, Fresh, Tells, Served, Alive, Calling, Unset, Ended, Over,
      Signalled, thread, shared, pipes, server, history
<1>19. CASE Write
  BY <1>19
  DEF Write, StatusInv, ConnectorInv, ProtocolInv, TypeOK, ThreadTypes,
      SharedTypes, ServerTypes, HistoryTypes, PipeInv, BootInv, TimerInv,
      ChildInv, Fresh, Tells, Served, Alive, Calling, Unset, Ended, Over,
      Signalled, thread, shared, pipes, server, history
<1>20. CASE Stop
  BY <1>20
  DEF Stop, StatusInv, ConnectorInv, ProtocolInv, TypeOK, ThreadTypes,
      SharedTypes, ServerTypes, HistoryTypes, PipeInv, BootInv, TimerInv,
      ChildInv, Fresh, Tells, Served, Alive, Calling, Unset, Ended, Over,
      Signalled, thread, shared, pipes, server, history
<1>21. CASE Die
  BY <1>21
  DEF Die, StatusInv, ConnectorInv, ProtocolInv, TypeOK, ThreadTypes,
      SharedTypes, ServerTypes, HistoryTypes, PipeInv, BootInv, TimerInv,
      ChildInv, Fresh, Tells, Served, Alive, Calling, Unset, Ended, Over,
      Signalled, thread, shared, pipes, server, history
<1>22. CASE GoDown
  BY <1>22
  DEF GoDown, StatusInv, ConnectorInv, ProtocolInv, TypeOK, ThreadTypes,
      SharedTypes, ServerTypes, HistoryTypes, PipeInv, BootInv, TimerInv,
      ChildInv, Fresh, Tells, Served, Alive, Calling, Unset, Ended, Over,
      Signalled, thread, shared, pipes, server, history
<1>23. CASE UNCHANGED vars
  BY <1>23
  DEF vars, StatusInv, ConnectorInv, ProtocolInv, TypeOK, ThreadTypes,
      SharedTypes, ServerTypes, HistoryTypes, PipeInv, BootInv, TimerInv,
      ChildInv, Fresh, Tells, Served, Alive, Calling, Unset, Ended, Over,
      Signalled, thread, shared, pipes, server, history
<1>. QED
  BY <1>1, <1>2, <1>3, <1>4, <1>5, <1>6, <1>7, <1>8, <1>9, <1>10, <1>11,
     <1>12, <1>13, <1>14, <1>15, <1>16, <1>17, <1>18, <1>19, <1>20, <1>21,
     <1>22, <1>23
  DEF Next, Boot, Ask, Await, ForkServer, Shell

(* Every step keeps what is said of the output file.                       *)
LEMMA OutputKept ==
  ASSUME ConnectorInv, [Next]_vars
  PROVE  OutputInv'
<1>1. CASE handle_timeout
  BY <1>1
  DEF handle_timeout, Kill, OutputInv, ConnectorInv, ProtocolInv, TypeOK,
      ThreadTypes, ServerTypes, PipeInv, BootInv, ChildInv, Fresh, Alive,
      Calling, Ended, Over, Signalled, thread, shared, pipes, server, history
<1>2. CASE restart_dbms
  BY <1>2
  DEF restart_dbms, OutputInv, ConnectorInv, ProtocolInv, TypeOK,
      ThreadTypes, ServerTypes, PipeInv, BootInv, ChildInv, Fresh, Alive,
      Calling, Ended, Over, Signalled, thread, shared, pipes, server, history
<1>3. CASE init_forkserver
  BY <1>3
  DEF init_forkserver, OutputInv, ConnectorInv, ProtocolInv, TypeOK,
      ThreadTypes, ServerTypes, PipeInv, BootInv, ChildInv, Fresh, Alive,
      Calling, Ended, Over, Signalled, thread, shared, pipes, server, history
<1>4. CASE ReadHello
  BY <1>4
  DEF ReadHello, OutputInv, ConnectorInv, ProtocolInv, TypeOK, ThreadTypes,
      ServerTypes, PipeInv, BootInv, ChildInv, Fresh, Alive, Calling, Ended,
      Over, Signalled, thread, shared, pipes, server, history
<1>5. CASE MissHello
  BY <1>5
  DEF MissHello, OutputInv, ConnectorInv, ProtocolInv, TypeOK, ThreadTypes,
      ServerTypes, PipeInv, BootInv, ChildInv, Fresh, Alive, Calling, Ended,
      Over, Signalled, thread, shared, pipes, server, history
<1>6. CASE run_target
  BY <1>6
  DEF run_target, OutputInv, ConnectorInv, ProtocolInv, TypeOK, ThreadTypes,
      ServerTypes, PipeInv, BootInv, ChildInv, Fresh, Alive, Calling, Ended,
      Over, Signalled, thread, shared, pipes, server, history
<1>7. CASE WriteRequest
  BY <1>7
  DEF WriteRequest, OutputInv, ConnectorInv, ProtocolInv, TypeOK,
      ThreadTypes, ServerTypes, PipeInv, BootInv, ChildInv, Fresh, Alive,
      Calling, Ended, Over, Signalled, thread, shared, pipes, server, history
<1>8. CASE RequestFails
  BY <1>8
  DEF RequestFails, OutputInv, ConnectorInv, ProtocolInv, TypeOK,
      ThreadTypes, ServerTypes, PipeInv, BootInv, ChildInv, Fresh, Alive,
      Calling, Ended, Over, Signalled, thread, shared, pipes, server, history
<1>9. CASE ReadPid
  BY <1>9
  DEF ReadPid, OutputInv, ConnectorInv, ProtocolInv, TypeOK, ThreadTypes,
      ServerTypes, PipeInv, BootInv, ChildInv, Fresh, Alive, Calling, Ended,
      Over, Signalled, thread, shared, pipes, server, history
<1>10. CASE KillForReset
  BY <1>10
  DEF KillForReset, Kill, OutputInv, ConnectorInv, ProtocolInv, TypeOK,
      ThreadTypes, ServerTypes, PipeInv, BootInv, ChildInv, Fresh, Alive,
      Calling, Ended, Over, Signalled, thread, shared, pipes, server, history
<1>11. CASE ReadStatus
  BY <1>11
  DEF ReadStatus, OutputInv, ConnectorInv, ProtocolInv, TypeOK, ThreadTypes,
      ServerTypes, PipeInv, BootInv, ChildInv, Fresh, Alive, Calling, Ended,
      Over, Signalled, thread, shared, pipes, server, history
<1>12. CASE StatusFails
  BY <1>12
  DEF StatusFails, OutputInv, ConnectorInv, ProtocolInv, TypeOK,
      ThreadTypes, ServerTypes, PipeInv, BootInv, ChildInv, Fresh, Alive,
      Calling, Ended, Over, Signalled, thread, shared, pipes, server, history
<1>13. CASE ForgetChild
  BY <1>13
  DEF ForgetChild, OutputInv, ConnectorInv, ProtocolInv, TypeOK,
      ThreadTypes, ServerTypes, PipeInv, BootInv, ChildInv, Fresh, Alive,
      Calling, Ended, Over, Signalled, thread, shared, pipes, server, history
<1>14. CASE Report
  BY <1>14
  DEF Report, FaultOf, read_sqlite_output_and_reset_output_file, OutputInv,
      ConnectorInv, ProtocolInv, TypeOK, ThreadTypes, ServerTypes, PipeInv,
      BootInv, ChildInv, Fresh, Alive, Calling, Ended, Over, Signalled,
      thread, shared, pipes, server, history
<1>15. CASE Greet
  BY <1>15
  DEF Greet, OutputInv, ConnectorInv, ProtocolInv, TypeOK, ThreadTypes,
      ServerTypes, PipeInv, BootInv, ChildInv, Fresh, Alive, Calling, Ended,
      Over, Signalled, thread, shared, pipes, server, history
<1>16. CASE Fork
  BY <1>16
  DEF Fork, OutputInv, ConnectorInv, ProtocolInv, TypeOK, ThreadTypes,
      ServerTypes, PipeInv, BootInv, ChildInv, Fresh, Alive, Calling, Ended,
      Over, Signalled, thread, shared, pipes, server, history
<1>17. CASE Resume
  BY <1>17
  DEF Resume, OutputInv, ConnectorInv, ProtocolInv, TypeOK, ThreadTypes,
      ServerTypes, PipeInv, BootInv, ChildInv, Fresh, Alive, Calling, Ended,
      Over, Signalled, thread, shared, pipes, server, history
<1>18. CASE PassStatus
  BY <1>18
  DEF PassStatus, OutputInv, ConnectorInv, ProtocolInv, TypeOK, ThreadTypes,
      ServerTypes, PipeInv, BootInv, ChildInv, Fresh, Alive, Calling, Ended,
      Over, Signalled, thread, shared, pipes, server, history
<1>19. CASE Write
  BY <1>19
  DEF Write, OutputInv, ConnectorInv, ProtocolInv, TypeOK, ThreadTypes,
      ServerTypes, PipeInv, BootInv, ChildInv, Fresh, Alive, Calling, Ended,
      Over, Signalled, thread, shared, pipes, server, history
<1>20. CASE Stop
  BY <1>20
  DEF Stop, OutputInv, ConnectorInv, ProtocolInv, TypeOK, ThreadTypes,
      ServerTypes, PipeInv, BootInv, ChildInv, Fresh, Alive, Calling, Ended,
      Over, Signalled, thread, shared, pipes, server, history
<1>21. CASE Die
  BY <1>21
  DEF Die, OutputInv, ConnectorInv, ProtocolInv, TypeOK, ThreadTypes,
      ServerTypes, PipeInv, BootInv, ChildInv, Fresh, Alive, Calling, Ended,
      Over, Signalled, thread, shared, pipes, server, history
<1>22. CASE GoDown
  BY <1>22
  DEF GoDown, OutputInv, ConnectorInv, ProtocolInv, TypeOK, ThreadTypes,
      ServerTypes, PipeInv, BootInv, ChildInv, Fresh, Alive, Calling, Ended,
      Over, Signalled, thread, shared, pipes, server, history
<1>23. CASE UNCHANGED vars
  BY <1>23
  DEF vars, OutputInv, ConnectorInv, ProtocolInv, TypeOK, ThreadTypes,
      ServerTypes, PipeInv, BootInv, ChildInv, Fresh, Alive, Calling, Ended,
      Over, Signalled, thread, shared, pipes, server, history
<1>. QED
  BY <1>1, <1>2, <1>3, <1>4, <1>5, <1>6, <1>7, <1>8, <1>9, <1>10, <1>11,
     <1>12, <1>13, <1>14, <1>15, <1>16, <1>17, <1>18, <1>19, <1>20, <1>21,
     <1>22, <1>23
  DEF Next, Boot, Ask, Await, ForkServer, Shell

(* Every step keeps what is said of the result.                            *)
LEMMA FaultKept ==
  ASSUME ConnectorInv, [Next]_vars
  PROVE  FaultInv'
<1>1. CASE handle_timeout
  BY <1>1
  DEF handle_timeout, Kill, FaultInv, ResultIsOwn, ConnectorInv, ProtocolInv,
      TypeOK, ThreadTypes, SharedTypes, ServerTypes, HistoryTypes, PipeInv,
      BootInv, TimerInv, ChildInv, StatusInv, OutputInv, Fresh, Tells, Alive,
      Calling, Unset, Ended, Over, Signalled, thread, shared, pipes, server,
      history
<1>2. CASE restart_dbms
  BY <1>2
  DEF restart_dbms, FaultInv, ResultIsOwn, ConnectorInv, ProtocolInv, TypeOK,
      ThreadTypes, SharedTypes, ServerTypes, HistoryTypes, PipeInv, BootInv,
      TimerInv, ChildInv, StatusInv, OutputInv, Fresh, Tells, Alive, Calling,
      Unset, Ended, Over, Signalled, thread, shared, pipes, server, history
<1>3. CASE init_forkserver
  BY <1>3
  DEF init_forkserver, FaultInv, ResultIsOwn, ConnectorInv, ProtocolInv,
      TypeOK, ThreadTypes, SharedTypes, ServerTypes, HistoryTypes, PipeInv,
      BootInv, TimerInv, ChildInv, StatusInv, OutputInv, Fresh, Tells, Alive,
      Calling, Unset, Ended, Over, Signalled, thread, shared, pipes, server,
      history
<1>4. CASE ReadHello
  BY <1>4
  DEF ReadHello, FaultInv, ResultIsOwn, ConnectorInv, ProtocolInv, TypeOK,
      ThreadTypes, SharedTypes, ServerTypes, HistoryTypes, PipeInv, BootInv,
      TimerInv, ChildInv, StatusInv, OutputInv, Fresh, Tells, Alive, Calling,
      Unset, Ended, Over, Signalled, thread, shared, pipes, server, history
<1>5. CASE MissHello
  BY <1>5
  DEF MissHello, FaultInv, ResultIsOwn, ConnectorInv, ProtocolInv, TypeOK,
      ThreadTypes, SharedTypes, ServerTypes, HistoryTypes, PipeInv, BootInv,
      TimerInv, ChildInv, StatusInv, OutputInv, Fresh, Tells, Alive, Calling,
      Unset, Ended, Over, Signalled, thread, shared, pipes, server, history
<1>6. CASE run_target
  BY <1>6
  DEF run_target, FaultInv, ResultIsOwn, ConnectorInv, ProtocolInv, TypeOK,
      ThreadTypes, SharedTypes, ServerTypes, HistoryTypes, PipeInv, BootInv,
      TimerInv, ChildInv, StatusInv, OutputInv, Fresh, Tells, Alive, Calling,
      Unset, Ended, Over, Signalled, thread, shared, pipes, server, history
<1>7. CASE WriteRequest
  BY <1>7
  DEF WriteRequest, FaultInv, ResultIsOwn, ConnectorInv, ProtocolInv, TypeOK,
      ThreadTypes, SharedTypes, ServerTypes, HistoryTypes, PipeInv, BootInv,
      TimerInv, ChildInv, StatusInv, OutputInv, Fresh, Tells, Alive, Calling,
      Unset, Ended, Over, Signalled, thread, shared, pipes, server, history
<1>8. CASE RequestFails
  BY <1>8
  DEF RequestFails, FaultInv, ResultIsOwn, ConnectorInv, ProtocolInv, TypeOK,
      ThreadTypes, SharedTypes, ServerTypes, HistoryTypes, PipeInv, BootInv,
      TimerInv, ChildInv, StatusInv, OutputInv, Fresh, Tells, Alive, Calling,
      Unset, Ended, Over, Signalled, thread, shared, pipes, server, history
<1>9. CASE ReadPid
  BY <1>9
  DEF ReadPid, FaultInv, ResultIsOwn, ConnectorInv, ProtocolInv, TypeOK,
      ThreadTypes, SharedTypes, ServerTypes, HistoryTypes, PipeInv, BootInv,
      TimerInv, ChildInv, StatusInv, OutputInv, Fresh, Tells, Alive, Calling,
      Unset, Ended, Over, Signalled, thread, shared, pipes, server, history
<1>10. CASE KillForReset
  BY <1>10
  DEF KillForReset, Kill, FaultInv, ResultIsOwn, ConnectorInv, ProtocolInv,
      TypeOK, ThreadTypes, SharedTypes, ServerTypes, HistoryTypes, PipeInv,
      BootInv, TimerInv, ChildInv, StatusInv, OutputInv, Fresh, Tells, Alive,
      Calling, Unset, Ended, Over, Signalled, thread, shared, pipes, server,
      history
<1>11. CASE ReadStatus
  BY <1>11
  DEF ReadStatus, FaultInv, ResultIsOwn, ConnectorInv, ProtocolInv, TypeOK,
      ThreadTypes, SharedTypes, ServerTypes, HistoryTypes, PipeInv, BootInv,
      TimerInv, ChildInv, StatusInv, OutputInv, Fresh, Tells, Alive, Calling,
      Unset, Ended, Over, Signalled, thread, shared, pipes, server, history
<1>12. CASE StatusFails
  BY <1>12
  DEF StatusFails, FaultInv, ResultIsOwn, ConnectorInv, ProtocolInv, TypeOK,
      ThreadTypes, SharedTypes, ServerTypes, HistoryTypes, PipeInv, BootInv,
      TimerInv, ChildInv, StatusInv, OutputInv, Fresh, Tells, Alive, Calling,
      Unset, Ended, Over, Signalled, thread, shared, pipes, server, history
<1>13. CASE ForgetChild
  BY <1>13
  DEF ForgetChild, FaultInv, ResultIsOwn, ConnectorInv, ProtocolInv, TypeOK,
      ThreadTypes, SharedTypes, ServerTypes, HistoryTypes, PipeInv, BootInv,
      TimerInv, ChildInv, StatusInv, OutputInv, Fresh, Tells, Alive, Calling,
      Unset, Ended, Over, Signalled, thread, shared, pipes, server, history
<1>14. CASE Report
  BY <1>14
  DEF Report, FaultOf, read_sqlite_output_and_reset_output_file, FaultInv,
      ResultIsOwn, ConnectorInv, ProtocolInv, TypeOK, ThreadTypes,
      SharedTypes, ServerTypes, HistoryTypes, PipeInv, BootInv, TimerInv,
      ChildInv, StatusInv, OutputInv, Fresh, Tells, Alive, Calling, Unset,
      Ended, Over, Signalled, thread, shared, pipes, server, history
<1>15. CASE Greet
  BY <1>15
  DEF Greet, FaultInv, ResultIsOwn, ConnectorInv, ProtocolInv, TypeOK,
      ThreadTypes, SharedTypes, ServerTypes, HistoryTypes, PipeInv, BootInv,
      TimerInv, ChildInv, StatusInv, OutputInv, Fresh, Tells, Alive, Calling,
      Unset, Ended, Over, Signalled, thread, shared, pipes, server, history
<1>16. CASE Fork
  BY <1>16
  DEF Fork, FaultInv, ResultIsOwn, ConnectorInv, ProtocolInv, TypeOK,
      ThreadTypes, SharedTypes, ServerTypes, HistoryTypes, PipeInv, BootInv,
      TimerInv, ChildInv, StatusInv, OutputInv, Fresh, Tells, Alive, Calling,
      Unset, Ended, Over, Signalled, thread, shared, pipes, server, history
<1>17. CASE Resume
  BY <1>17
  DEF Resume, FaultInv, ResultIsOwn, ConnectorInv, ProtocolInv, TypeOK,
      ThreadTypes, SharedTypes, ServerTypes, HistoryTypes, PipeInv, BootInv,
      TimerInv, ChildInv, StatusInv, OutputInv, Fresh, Tells, Alive, Calling,
      Unset, Ended, Over, Signalled, thread, shared, pipes, server, history
<1>18. CASE PassStatus
  BY <1>18
  DEF PassStatus, FaultInv, ResultIsOwn, ConnectorInv, ProtocolInv, TypeOK,
      ThreadTypes, SharedTypes, ServerTypes, HistoryTypes, PipeInv, BootInv,
      TimerInv, ChildInv, StatusInv, OutputInv, Fresh, Tells, Alive, Calling,
      Unset, Ended, Over, Signalled, thread, shared, pipes, server, history
<1>19. CASE Write
  BY <1>19
  DEF Write, FaultInv, ResultIsOwn, ConnectorInv, ProtocolInv, TypeOK,
      ThreadTypes, SharedTypes, ServerTypes, HistoryTypes, PipeInv, BootInv,
      TimerInv, ChildInv, StatusInv, OutputInv, Fresh, Tells, Alive, Calling,
      Unset, Ended, Over, Signalled, thread, shared, pipes, server, history
<1>20. CASE Stop
  BY <1>20
  DEF Stop, FaultInv, ResultIsOwn, ConnectorInv, ProtocolInv, TypeOK,
      ThreadTypes, SharedTypes, ServerTypes, HistoryTypes, PipeInv, BootInv,
      TimerInv, ChildInv, StatusInv, OutputInv, Fresh, Tells, Alive, Calling,
      Unset, Ended, Over, Signalled, thread, shared, pipes, server, history
<1>21. CASE Die
  BY <1>21
  DEF Die, FaultInv, ResultIsOwn, ConnectorInv, ProtocolInv, TypeOK,
      ThreadTypes, SharedTypes, ServerTypes, HistoryTypes, PipeInv, BootInv,
      TimerInv, ChildInv, StatusInv, OutputInv, Fresh, Tells, Alive, Calling,
      Unset, Ended, Over, Signalled, thread, shared, pipes, server, history
<1>22. CASE GoDown
  BY <1>22
  DEF GoDown, FaultInv, ResultIsOwn, ConnectorInv, ProtocolInv, TypeOK,
      ThreadTypes, SharedTypes, ServerTypes, HistoryTypes, PipeInv, BootInv,
      TimerInv, ChildInv, StatusInv, OutputInv, Fresh, Tells, Alive, Calling,
      Unset, Ended, Over, Signalled, thread, shared, pipes, server, history
<1>23. CASE UNCHANGED vars
  BY <1>23
  DEF vars, FaultInv, ResultIsOwn, ConnectorInv, ProtocolInv, TypeOK,
      ThreadTypes, SharedTypes, ServerTypes, HistoryTypes, PipeInv, BootInv,
      TimerInv, ChildInv, StatusInv, OutputInv, Fresh, Tells, Alive, Calling,
      Unset, Ended, Over, Signalled, thread, shared, pipes, server, history
<1>. QED
  BY <1>1, <1>2, <1>3, <1>4, <1>5, <1>6, <1>7, <1>8, <1>9, <1>10, <1>11,
     <1>12, <1>13, <1>14, <1>15, <1>16, <1>17, <1>18, <1>19, <1>20, <1>21,
     <1>22, <1>23
  DEF Next, Boot, Ask, Await, ForkServer, Shell

(* The invariant holds in every reachable state.                           *)
THEOREM ConnectorInvariant == Spec => []ConnectorInv
<1>1. ConnectorInv /\ [Next]_vars => ConnectorInv'
  <2>. SUFFICES ASSUME ConnectorInv, [Next]_vars PROVE ConnectorInv'
    OBVIOUS
  <2>1. TypeOK' /\ CountInv' /\ PipeInv' /\ BootInv' /\ TimerInv'
    BY TypesKept, CountKept, PipesKept, BootKept, TimerKept
  <2>2. ChildInv' /\ StatusInv' /\ OutputInv' /\ FaultInv'
    BY ChildKept, StatusKept, OutputKept, FaultKept
  <2>. QED  BY <2>1, <2>2 DEF ConnectorInv, ProtocolInv
<1>. QED  BY InvInit, <1>1, PTL DEF Spec

(* Every variable keeps its type, for any number of calls.                 *)
THEOREM TypeCorrect == Spec => []TypeOK
<1>1. ConnectorInv => TypeOK
  BY DEF ConnectorInv
<1>. QED  BY ConnectorInvariant, <1>1, PTL

(* What run_target returns is always about its own statement, however the  *)
(* alarm, the child and the fork server interleave and however often the   *)
(* latter goes down.                                                       *)
THEOREM ResultsAreOwn == Spec => []ResultIsOwn
<1>1. ConnectorInv => ResultIsOwn
  BY DEF ConnectorInv, ProtocolInv, FaultInv
<1>. QED  BY ConnectorInvariant, <1>1, PTL

-----------------------------------------------------------------------------
(* Every step keeps what is said of who waits for whom.  What a step may   *)
(* use of the invariant is collected once.                                 *)
WaitFacts ==
  CountInv /\ PipeInv /\ BootInv /\ TimerInv /\ ChildInv /\ StatusInv

LEMMA WaitKept ==
  ASSUME ConnectorInv, WaitInv, [Next]_vars
  PROVE  WaitInv'
<1>0. WaitFacts /\ forked \in Nat /\ prev_timed_out \in {0, 1}
  BY DEF ConnectorInv, ProtocolInv, TypeOK, ThreadTypes, SharedTypes,
         ServerTypes, WaitFacts
<1>1. CASE handle_timeout
  BY <1>0, <1>1
  DEF handle_timeout, Kill, WaitFacts, WaitInv, PipeOwes, KilledIsAtRest,
      AlarmReaches, AtRest, CountInv, PipeInv, BootInv, Fresh, TimerInv,
      ChildInv, StatusInv, Served, Alive, Calling, Unset, Ended, Over,
      Signalled, thread, shared, pipes, server, history
<1>2. CASE restart_dbms
  BY <1>0, <1>2
  DEF restart_dbms, WaitFacts, WaitInv, PipeOwes, KilledIsAtRest,
      AlarmReaches, AtRest, CountInv, PipeInv, BootInv, Fresh, TimerInv,
      ChildInv, StatusInv, Served, Alive, Calling, Unset, Ended, Over,
      Signalled, thread, shared, pipes, server, history
<1>3. CASE init_forkserver
  BY <1>0, <1>3
  DEF init_forkserver, WaitFacts, WaitInv, PipeOwes, KilledIsAtRest,
      AlarmReaches, AtRest, CountInv, PipeInv, BootInv, Fresh, TimerInv,
      ChildInv, StatusInv, Served, Alive, Calling, Unset, Ended, Over,
      Signalled, thread, shared, pipes, server, history
<1>4. CASE ReadHello
  BY <1>0, <1>4
  DEF ReadHello, WaitFacts, WaitInv, PipeOwes, KilledIsAtRest, AlarmReaches,
      AtRest, CountInv, PipeInv, BootInv, Fresh, TimerInv, ChildInv,
      StatusInv, Served, Alive, Calling, Unset, Ended, Over, Signalled,
      thread, shared, pipes, server, history
<1>5. CASE MissHello
  BY <1>0, <1>5
  DEF MissHello, WaitFacts, WaitInv, PipeOwes, KilledIsAtRest, AlarmReaches,
      AtRest, CountInv, PipeInv, BootInv, Fresh, TimerInv, ChildInv,
      StatusInv, Served, Alive, Calling, Unset, Ended, Over, Signalled,
      thread, shared, pipes, server, history
<1>6. CASE run_target
  BY <1>0, <1>6
  DEF run_target, WaitFacts, WaitInv, PipeOwes, KilledIsAtRest, AlarmReaches,
      AtRest, CountInv, PipeInv, BootInv, Fresh, TimerInv, ChildInv,
      StatusInv, Served, Alive, Calling, Unset, Ended, Over, Signalled,
      thread, shared, pipes, server, history
<1>7. CASE WriteRequest
  BY <1>0, <1>7
  DEF WriteRequest, WaitFacts, WaitInv, PipeOwes, KilledIsAtRest,
      AlarmReaches, AtRest, CountInv, PipeInv, BootInv, Fresh, TimerInv,
      ChildInv, StatusInv, Served, Alive, Calling, Unset, Ended, Over,
      Signalled, thread, shared, pipes, server, history
<1>8. CASE RequestFails
  BY <1>0, <1>8
  DEF RequestFails, WaitFacts, WaitInv, PipeOwes, KilledIsAtRest,
      AlarmReaches, AtRest, CountInv, PipeInv, BootInv, Fresh, TimerInv,
      ChildInv, StatusInv, Served, Alive, Calling, Unset, Ended, Over,
      Signalled, thread, shared, pipes, server, history
<1>9. CASE ReadPid
  BY <1>0, <1>9
  DEF ReadPid, WaitFacts, WaitInv, PipeOwes, KilledIsAtRest, AlarmReaches,
      AtRest, CountInv, PipeInv, BootInv, Fresh, TimerInv, ChildInv,
      StatusInv, Served, Alive, Calling, Unset, Ended, Over, Signalled,
      thread, shared, pipes, server, history
<1>10. CASE KillForReset
  BY <1>0, <1>10
  DEF KillForReset, Kill, WaitFacts, WaitInv, PipeOwes, KilledIsAtRest,
      AlarmReaches, AtRest, CountInv, PipeInv, BootInv, Fresh, TimerInv,
      ChildInv, StatusInv, Served, Alive, Calling, Unset, Ended, Over,
      Signalled, thread, shared, pipes, server, history
<1>11. CASE ReadStatus
  BY <1>0, <1>11
  DEF ReadStatus, WaitFacts, WaitInv, PipeOwes, KilledIsAtRest, AlarmReaches,
      AtRest, CountInv, PipeInv, BootInv, Fresh, TimerInv, ChildInv,
      StatusInv, Served, Alive, Calling, Unset, Ended, Over, Signalled,
      thread, shared, pipes, server, history
<1>12. CASE StatusFails
  BY <1>0, <1>12
  DEF StatusFails, WaitFacts, WaitInv, PipeOwes, KilledIsAtRest, AlarmReaches,
      AtRest, CountInv, PipeInv, BootInv, Fresh, TimerInv, ChildInv,
      StatusInv, Served, Alive, Calling, Unset, Ended, Over, Signalled,
      thread, shared, pipes, server, history
<1>13. CASE ForgetChild
  BY <1>0, <1>13
  DEF ForgetChild, WaitFacts, WaitInv, PipeOwes, KilledIsAtRest, AlarmReaches,
      AtRest, CountInv, PipeInv, BootInv, Fresh, TimerInv, ChildInv,
      StatusInv, Served, Alive, Calling, Unset, Ended, Over, Signalled,
      thread, shared, pipes, server, history
<1>14. CASE Report
  BY <1>0, <1>14
  DEF Report, read_sqlite_output_and_reset_output_file, WaitFacts, WaitInv,
      PipeOwes, KilledIsAtRest, AlarmReaches, AtRest, CountInv, PipeInv,
      BootInv, Fresh, TimerInv, ChildInv, StatusInv, Served, Alive, Calling,
      Unset, Ended, Over, Signalled, thread, shared, pipes, server, history
<1>15. CASE Greet
  BY <1>0, <1>15
  DEF Greet, WaitFacts, WaitInv, PipeOwes, KilledIsAtRest, AlarmReaches,
      AtRest, CountInv, PipeInv, BootInv, Fresh, TimerInv, ChildInv,
      StatusInv, Served, Alive, Calling, Unset, Ended, Over, Signalled,
      thread, shared, pipes, server, history
<1>16. CASE Fork
  BY <1>0, <1>16
  DEF Fork, WaitFacts, WaitInv, PipeOwes, KilledIsAtRest, AlarmReaches,
      AtRest, CountInv, PipeInv, BootInv, Fresh, TimerInv, ChildInv,
      StatusInv, Served, Alive, Calling, Unset, Ended, Over, Signalled,
      thread, shared, pipes, server, history
<1>17. CASE Resume
  BY <1>0, <1>17
  DEF Resume, WaitFacts, WaitInv, PipeOwes, KilledIsAtRest, AlarmReaches,
      AtRest, CountInv, PipeInv, BootInv, Fresh, TimerInv, ChildInv,
      StatusInv, Served, Alive, Calling, Unset, Ended, Over, Signalled,
      thread, shared, pipes, server, history
<1>18. CASE PassStatus
  BY <1>0, <1>18
  DEF PassStatus, WaitFacts, WaitInv, PipeOwes, KilledIsAtRest, AlarmReaches,
      AtRest, CountInv, PipeInv, BootInv, Fresh, TimerInv, ChildInv,
      StatusInv, Served, Alive, Calling, Unset, Ended, Over, Signalled,
      thread, shared, pipes, server, history
<1>19. CASE Write
  BY <1>0, <1>19
  DEF Write, WaitFacts, WaitInv, PipeOwes, KilledIsAtRest, AlarmReaches,
      AtRest, CountInv, PipeInv, BootInv, Fresh, TimerInv, ChildInv,
      StatusInv, Served, Alive, Calling, Unset, Ended, Over, Signalled,
      thread, shared, pipes, server, history
<1>20. CASE Stop
  BY <1>0, <1>20
  DEF Stop, WaitFacts, WaitInv, PipeOwes, KilledIsAtRest, AlarmReaches,
      AtRest, CountInv, PipeInv, BootInv, Fresh, TimerInv, ChildInv,
      StatusInv, Served, Alive, Calling, Unset, Ended, Over, Signalled,
      thread, shared, pipes, server, history
<1>21. CASE Die
  BY <1>0, <1>21
  DEF Die, WaitFacts, WaitInv, PipeOwes, KilledIsAtRest, AlarmReaches, AtRest,
      CountInv, PipeInv, BootInv, Fresh, TimerInv, ChildInv, StatusInv,
      Served, Alive, Calling, Unset, Ended, Over, Signalled, thread, shared,
      pipes, server, history
<1>22. CASE GoDown
  BY <1>0, <1>22
  DEF GoDown, WaitFacts, WaitInv, PipeOwes, KilledIsAtRest, AlarmReaches,
      AtRest, CountInv, PipeInv, BootInv, Fresh, TimerInv, ChildInv,
      StatusInv, Served, Alive, Calling, Unset, Ended, Over, Signalled,
      thread, shared, pipes, server, history
<1>23. CASE UNCHANGED vars
  BY <1>0, <1>23
  DEF vars, WaitFacts, WaitInv, PipeOwes, KilledIsAtRest, AlarmReaches,
      AtRest, CountInv, PipeInv, BootInv, Fresh, TimerInv, ChildInv,
      StatusInv, Served, Alive, Calling, Unset, Ended, Over, Signalled,
      thread, shared, pipes, server, history
<1>. QED
  BY <1>1, <1>2, <1>3, <1>4, <1>5, <1>6, <1>7, <1>8, <1>9, <1>10, <1>11,
     <1>12, <1>13, <1>14, <1>15, <1>16, <1>17, <1>18, <1>19, <1>20, <1>21,
     <1>22, <1>23
  DEF Next, Boot, Ask, Await, ForkServer, Shell

(* The initial state satisfies it, and the invariant adds what it needs.   *)
LEMMA WaitInit == Init => WaitInv
  BY DEF Init, WaitInv, PipeOwes, KilledIsAtRest, AlarmReaches, Served, Alive

LEMMA WaitInvariant == Spec => []WaitInv
<1>1. ConnectorInv /\ WaitInv /\ [Next]_vars => WaitInv'
  BY WaitKept
<1>. QED  BY ConnectorInvariant, WaitInit, <1>1, PTL DEF Spec

(* Thread, fork server and child never wait for one another, whatever the  *)
(* alarm, a crash, a reset and the death of the fork server come between:  *)
(* the step one of them waits for is a step another can take, or the alarm *)
(* is set for the child that runs.                                         *)
THEOREM NobodyEverWaitsInVain == Spec => []NobodyWaitsInVain
<1>1. ConnectorInv /\ WaitInv => NobodyWaitsInVain
  <2>. SUFFICES ASSUME ConnectorInv, WaitInv PROVE NobodyWaitsInVain
    OBVIOUS
  <2>0. WaitFacts /\ fsrv \in {"none", "booting", "idle", "wait", "down"}
        /\ ctl \in {Unset, 0, 1}
    BY DEF ConnectorInv, ProtocolInv, TypeOK, ServerTypes, WaitFacts
  <2>1. pc = "hello" => fsrv \in {"booting", "idle", "down"}
    BY <2>0 DEF WaitFacts, WaitInv, PipeOwes, PipeInv, Alive
  <2>2. ASSUME pc = "pid", st_pid = 0, fsrv # "down"
        PROVE  /\ fsrv = "idle" /\ ctl # Unset
               /\ child_stopped /\ ctl = 1 => child \in Over
    BY <2>0, <2>2
    DEF WaitFacts, WaitInv, PipeOwes, KilledIsAtRest, AtRest, PipeInv,
        BootInv, ChildInv, Served, Alive, Over, Signalled
  <2>3. ASSUME pc = "await", st_status = "none", fsrv # "down"
        PROVE  fsrv = "wait" /\ (child \in Ended \/ (timer /\ child_pid = forked))
    BY <2>0, <2>3
    DEF WaitFacts, WaitInv, PipeOwes, AlarmReaches, AtRest, PipeInv, BootInv,
        StatusInv, Ended, Over, Signalled, Alive
  <2>. QED  BY <2>1, <2>2, <2>3 DEF NobodyWaitsInVain
<1>. QED  BY ConnectorInvariant, WaitInvariant, <1>1, PTL

-----------------------------------------------------------------------------
(* Resets.  A child forked before the last reset was over stands still as  *)
(* soon as the reset has killed it; the kill finds it, because the pid the *)
(* thread was given is its own unless the alarm has killed it already.     *)
SoilInv ==
  /\ soiled /\ (~is_reset_server \/ pc \in {"idle", "await", "ended", "disarm"})
       => AtRest
  /\ pc = "kill" => child_pid = forked \/ AtRest

(* A child at rest stays so: only a fork ends that.                        *)
LEMMA RestIsKept ==
  ASSUME AtRest, Next, ~Fork
  PROVE  AtRest'
<1>1. CASE handle_timeout
  BY <1>1 DEF handle_timeout, Kill, AtRest
<1>2. CASE KillForReset
  BY <1>2 DEF KillForReset, Kill, AtRest
<1>3. CASE Resume \/ PassStatus \/ Write \/ Stop \/ Die
  BY <1>3 DEF Resume, PassStatus, Write, Stop, Die, AtRest
<1>4. CASE \/ Boot \/ run_target \/ WriteRequest \/ RequestFails \/ ReadPid
           \/ Await \/ Greet \/ GoDown
  <2>1. UNCHANGED child
    BY <1>4
    DEF Boot, restart_dbms, init_forkserver, ReadHello, MissHello, run_target,
        WriteRequest, RequestFails, ReadPid, Await, ReadStatus, StatusFails,
        ForgetChild, Report, Greet, GoDown
  <2>. QED  BY <2>1 DEF AtRest
<1>. QED
  BY <1>1, <1>2, <1>3, <1>4 DEF Next, Ask, ForkServer, Shell

(* The steps that neither begin a call nor fork keep what is said of a     *)
(* child forked before the reset, unless they let the reset go on.         *)
LEMMA SoilCarried ==
  ASSUME SoilInv, Next, ~Fork, UNCHANGED <<soiled, is_reset_server>>,
         pc' \in {"idle", "await", "ended", "disarm"} =>
           pc \in {"idle", "await", "ended", "disarm"} \/ AtRest
  PROVE  soiled' /\ (~is_reset_server' \/ pc' \in {"idle", "await", "ended", "disarm"})
           => AtRest'
<1>. SUFFICES ASSUME soiled,
                     ~is_reset_server \/ pc' \in {"idle", "await", "ended", "disarm"}
              PROVE  AtRest'
  OBVIOUS
<1>1. AtRest
  BY DEF SoilInv
<1>. QED  BY <1>1, RestIsKept

(* Every step keeps what is said of resets.                                *)
LEMMA SoilKept == ConnectorInv /\ WaitInv /\ SoilInv /\ [Next]_vars => SoilInv'
<1>. SUFFICES ASSUME ConnectorInv, WaitInv, SoilInv, [Next]_vars PROVE SoilInv'
  OBVIOUS
<1>0. /\ PipeInv /\ BootInv /\ TimerInv
      /\ st_pid # 0 => st_pid = forked
  BY DEF ConnectorInv, ProtocolInv, WaitInv, PipeOwes
<1>1. CASE handle_timeout
  <2>1. /\ UNCHANGED <<soiled, is_reset_server, forked>> /\ ~Fork
        /\ pc' \in {pc, "killed"}
    BY <1>1 DEF handle_timeout, Fork, server, shared
  <2>2. pc' = "kill" => child_pid' = forked' \/ AtRest'
    BY <1>1, <2>1 DEF handle_timeout, Kill, SoilInv, AtRest
  <2>. QED  BY <1>1, <2>1, <2>2, SoilCarried DEF Next, SoilInv
<1>2. CASE Boot \/ WriteRequest \/ RequestFails
  <2>1. UNCHANGED soiled /\ pc' \notin {"kill", "idle", "await", "ended", "disarm"}
    BY <1>2
    DEF Boot, restart_dbms, init_forkserver, ReadHello, MissHello,
        WriteRequest, RequestFails, history
  <2>2. ~Fork /\ (UNCHANGED is_reset_server \/ restart_dbms)
    BY <1>2
    DEF Boot, restart_dbms, init_forkserver, ReadHello, MissHello,
        WriteRequest, RequestFails, Fork, thread, pipes, server
  <2>3. CASE UNCHANGED is_reset_server
    BY <1>2, <2>1, <2>2, <2>3, SoilCarried DEF Next, Ask, SoilInv
  <2>4. CASE restart_dbms
    BY <2>1, <2>4 DEF restart_dbms, SoilInv
  <2>. QED  BY <2>2, <2>3, <2>4
<1>3. CASE run_target
  <2>1. CASE is_reset_server'
    BY <1>3, <2>1 DEF run_target, SoilInv
  <2>2. CASE ~is_reset_server'
    <3>1. pc \in {"greeted", "idle"} /\ UNCHANGED child /\ (soiled' => soiled)
      BY <1>3, <2>2 DEF run_target
    <3>2. pc = "greeted" => AtRest
      BY <1>0 DEF BootInv, Fresh, AtRest
    <3>3. pc' = "request"
      BY <1>3 DEF run_target
    <3>. QED  BY <3>1, <3>2, <3>3 DEF SoilInv, AtRest
  <2>. QED  BY <2>1, <2>2
<1>4. CASE ReadPid
  <2>1. UNCHANGED <<soiled, is_reset_server, forked, child>> /\ child_pid' = forked
    BY <1>0, <1>4 DEF ReadPid, server, history
  <2>2. pc' = "await" => ~is_reset_server
    BY <1>4 DEF ReadPid
  <2>3. pc' \in {"kill", "await"}
    BY <1>4 DEF ReadPid
  <2>. QED  BY <2>1, <2>2, <2>3 DEF SoilInv, AtRest
<1>5. CASE KillForReset
  <2>1. /\ UNCHANGED <<soiled, is_reset_server, forked>> /\ is_reset_server
        /\ pc' \in {"await", "killed"}
    BY <1>0, <1>5 DEF KillForReset, TimerInv, server
  <2>2. AtRest'
    BY <1>5 DEF KillForReset, Kill, SoilInv, AtRest
  <2>. QED  BY <2>1, <2>2 DEF SoilInv
<1>6. CASE Await
  <2>1. /\ UNCHANGED <<soiled, is_reset_server>> /\ ~Fork
        /\ pc \in {"await", "ended", "disarm"} /\ pc' # "kill"
    BY <1>6
    DEF Await, ReadStatus, StatusFails, ForgetChild, Report, Fork, server,
        history
  <2>. QED  BY <1>6, <2>1, SoilCarried DEF Next, SoilInv
<1>7. CASE Fork
  <2>1. /\ soiled' = is_reset_server
        /\ UNCHANGED <<pc, is_reset_server, child_pid>>
    BY <1>7 DEF Fork, thread, shared
  <2>2. pc \notin {"kill", "idle", "await", "ended", "disarm"}
    BY <1>0, <1>7 DEF Fork, PipeInv, Alive
  <2>. QED  BY <2>1, <2>2 DEF SoilInv
<1>8. CASE Greet \/ Resume \/ PassStatus \/ Shell \/ GoDown
  <2>1. /\ UNCHANGED <<soiled, is_reset_server, pc, child_pid, forked>>
    BY <1>8
    DEF Greet, Resume, PassStatus, Shell, Write, Stop, Die, GoDown, thread,
        shared, server, history
  <2>2. CASE Fork
    BY <1>7, <2>2
  <2>3. CASE ~Fork
    <3>1. AtRest => AtRest'
      BY <1>8, <2>3, RestIsKept DEF Next, ForkServer
    <3>. QED  BY <1>8, <2>1, <2>3, <3>1, SoilCarried DEF Next, ForkServer, SoilInv
  <2>. QED  BY <2>2, <2>3
<1>9. CASE UNCHANGED vars
  BY <1>9 DEF vars, thread, shared, server, history, SoilInv, AtRest
<1>. QED
  BY <1>1, <1>2, <1>3, <1>4, <1>5, <1>6, <1>7, <1>8, <1>9
  DEF Next, Ask, ForkServer

(* After a reset no statement runs on what an earlier run left behind,     *)
(* wherever the child was when it was killed and whatever the fork server  *)
(* knew of it.                                                             *)
THEOREM ResetsAreComplete == Spec => []ResetIsComplete
<1>1. Init => SoilInv
  BY DEF Init, SoilInv, AtRest
<1>2. SoilInv => ResetIsComplete
  BY DEF SoilInv, ResetIsComplete, AtRest
<1>. QED
  BY <1>1, <1>2, SoilKept, ConnectorInvariant, WaitInvariant, PTL DEF Spec
=============================================================================
