----------------------- MODULE PostgreSQLConnectorProofs -----------------------
(***************************************************************************)
(* What holds of PostgreSQLConnector for every number of runs, calls,      *)
(* crashes and pieces.                                                     *)
(*                                                                         *)
(* LinkInv says that between two commands nothing is under way on the      *)
(* connection, and that what is under way is the current command of the    *)
(* current call.  With that, GoodInv can count: the commands executed are  *)
(* those read, one more while an answer waits, fewer only if the text says *)
(* so.  DiedInv follows a crash from the command it hits to the text.      *)
(***************************************************************************)
EXTENDS PostgreSQLConnector, SequenceTheorems, TLAPS

Texts == {"none", "limit", "statement", "head", "empty"}
Busy == {"running", "hung", "copying"}
Current == [call |-> calls, text |-> cmd_vec[cmd]]
Idling == {"ready", "resetting", "restarting"}

LinkInv ==
  /\ pc \notin {"sent", "results"} => answer = "none" /\ backend \notin Busy
  /\ backend \in {"running", "hung"} => answer = "none"
  /\ backend = "copying" => answer = "copy"
  /\ pc \in {"sent", "results"} /\ (backend \in Busy \/ answer # "none") => job = Current
  /\ pc = "waiting" => run > 0
  /\ InCall => run > 0 /\ cmd_vec \in Commands /\ cmd > 0 /\ backend # "none"
  /\ pc = "end" => cmd = Len(cmd_vec)

TextInv ==
  /\ fault # "FAULT_ERROR"
  /\ res_call = calls
  /\ InCall => fault = "FAULT_NONE"
  /\ pc \in Idling /\ fault = "FAULT_TMOUT" => "ERROR" \in tmp_cur_res

(* How many commands of the call were answered, and not with an error.     *)
Read ==
  IF pc = "end" \/ answer \in {"ok", "tuples", "empty"} THEN cmd ELSE cmd - 1

Clean(text) == "ERROR" \notin text /\ "unexpectedly" \notin text

GoodInv ==
  /\ pc = "waiting" => good = 0
  /\ InCall => good <= Read /\ (Clean(result_str) => good = Read)
  /\ pc \in Idling /\ calls > 0 /\ fault = "FAULT_NONE" /\ Clean(tmp_cur_res) =>
       good = Len(cmd_vec)

DiedInv ==
  /\ pc = "waiting" => ~died
  /\ InCall /\ died =>
       \/ "unexpectedly" \in result_str
       \/ Dead /\ pc # "end" /\ ~(cmd = Len(cmd_vec) /\ answer # "none")
  /\ pc \in Idling /\ calls > 0 /\ died =>
       fault \in {"FAULT_CRASH", "FAULT_TMOUT"} \/ "unexpectedly" \in tmp_cur_res

PgInv == TypeOK /\ LinkInv /\ TextInv /\ GoodInv /\ DiedInv

-----------------------------------------------------------------------------
(* Basic facts                                                             *)

(* A statement becomes at least three commands, and the first is the       *)
(* limit.                                                                  *)
LEMMA CommandsFacts ==
  ASSUME NEW v \in Commands
  PROVE  /\ Len(v) \in 3..(MaxPieces + 2)
         /\ \A i \in 1..Len(v) : v[i] \in Texts /\ (v[i] = "limit" => i = 1)
         /\ v[1] = "limit"
         /\ Len(v) = 3 => v[3] = "empty"
<1>. USE PostgreSQLAssumption
<1>1. CASE v = <<"limit", "statement", "empty">>
  <2>1. Len(v) = 3 /\ v[1] = "limit" /\ v[2] = "statement" /\ v[3] = "empty"
    BY <1>1
  <2>2. 3 \in 3..(MaxPieces + 2) /\ \A i \in 1..3 : i = 1 \/ i = 2 \/ i = 3
    OBVIOUS
  <2>. QED  BY <2>1, <2>2 DEF Texts
<1>2. ASSUME NEW n \in 2..MaxPieces, v = <<"limit">> \o Pieces(n) \o <<"empty">>
      PROVE  /\ Len(v) = n + 2 /\ n \in Nat
             /\ v[1] = "limit"
             /\ \A i \in 2..Len(v) : v[i] \in {"head", "statement", "empty"}
  <2>. DEFINE front == <<"limit">> \o Pieces(n)
  <2>1. /\ Pieces(n) \in Seq(Texts) /\ Len(Pieces(n)) = n
        /\ \A i \in 1..n : Pieces(n)[i] \in {"head", "statement"}
    <3>1. Pieces(n) \in [1..n -> {"head", "statement"}] /\ n \in Nat
      BY DEF Pieces
    <3>2. Pieces(n) \in [1..n -> Texts]
      BY <3>1 DEF Texts
    <3>3. Pieces(n) \in Seq(Texts)
      BY <3>1, <3>2, SeqDef
    <3>4. /\ DOMAIN Pieces(n) = 1..Len(Pieces(n)) /\ Len(Pieces(n)) \in Nat
          /\ DOMAIN Pieces(n) = 1..n
      BY <3>1, <3>3, LenProperties
    <3>. QED  BY <3>1, <3>3, <3>4
  <2>2. /\ <<"limit">> \in Seq(Texts) /\ <<"empty">> \in Seq(Texts)
        /\ Len(<<"limit">>) = 1 /\ Len(<<"empty">>) = 1
        /\ <<"limit">>[1] = "limit" /\ <<"empty">>[1] = "empty"
    BY DEF Texts
  <2>3. /\ front \in Seq(Texts) /\ Len(front) = n + 1
        /\ \A i \in 1..(n + 1) : front[i] = IF i <= 1 THEN <<"limit">>[i] ELSE Pieces(n)[i - 1]
    BY <2>1, <2>2, ConcatProperties
  <2>. HIDE DEF front
  <2>4. v = front \o <<"empty">>
    BY <1>2 DEF front
  <2>5. /\ Len(v) = n + 2
        /\ \A i \in 1..(n + 2) : v[i] = IF i <= n + 1 THEN front[i] ELSE <<"empty">>[i - (n + 1)]
    BY <2>2, <2>3, <2>4, ConcatProperties
  <2>6. v[1] = "limit"
    BY <2>2, <2>3, <2>5
  <2>7. ASSUME NEW i \in 2..(n + 2)
        PROVE  v[i] \in {"head", "statement", "empty"}
    <3>1. CASE i <= n + 1
      <4>1. v[i] = Pieces(n)[i - 1] /\ i - 1 \in 1..n
        BY <2>3, <2>5, <3>1
      <4>. QED  BY <2>1, <4>1
    <3>2. CASE i = n + 2
      <4>1. v[i] = <<"empty">>[1]
        BY <2>5, <3>2
      <4>. QED  BY <2>2, <4>1
    <3>. QED  BY <3>1, <3>2
  <2>. QED  BY <2>5, <2>6, <2>7
<1>3. ASSUME NEW n \in 2..MaxPieces, v = <<"limit">> \o Pieces(n) \o <<"empty">>
      PROVE  /\ Len(v) \in 3..(MaxPieces + 2) /\ Len(v) # 3 /\ v[1] = "limit"
             /\ \A i \in 1..Len(v) : v[i] \in Texts /\ (v[i] = "limit" => i = 1)
  <2>1. /\ Len(v) = n + 2 /\ n \in Nat /\ v[1] = "limit"
        /\ \A i \in 2..Len(v) : v[i] \in {"head", "statement", "empty"}
    BY <1>2, <1>3
  <2>2. \A i \in 1..Len(v) : i = 1 \/ i \in 2..Len(v)
    BY <2>1
  <2>. QED  BY <2>1, <2>2 DEF Texts
<1>. QED  BY <1>1, <1>3 DEF Commands

(* Where the index of the current command is, and its text.                *)
LEMMA CallFacts ==
  ASSUME PgInv, InCall
  PROVE  /\ Len(cmd_vec) \in 3..(MaxPieces + 2) /\ MaxPieces \in Nat
         /\ cmd \in 1..Len(cmd_vec) /\ cmd \in Nat
         /\ cmd_vec \in Commands /\ cmd_vec[cmd] \in Texts
         /\ run \in 1..MaxRuns
         /\ good \in Nat /\ good <= Read /\ backend # "none"
<1>1. cmd_vec \in Commands /\ cmd > 0 /\ cmd \in 0..Len(cmd_vec)
      /\ run \in 0..MaxRuns /\ run > 0 /\ backend # "none"
  BY DEF PgInv, TypeOK, CallTypes, LinkInv
<1>2. Len(cmd_vec) \in 3..(MaxPieces + 2) /\ \A i \in 1..Len(cmd_vec) : cmd_vec[i] \in Texts
  BY <1>1, CommandsFacts
<1>3. MaxPieces \in Nat /\ MaxRuns \in Nat
  BY PostgreSQLAssumption
<1>4. good \in Nat /\ good <= Read
  <2>1. good \in 0..(MaxPieces + 2)
    BY DEF PgInv, TypeOK, CallTypes
  <2>. QED  BY <1>3, <2>1 DEF PgInv, GoodInv
<1>. QED  BY <1>1, <1>2, <1>3, <1>4

(* What was read of the call stays within the bound.                       *)
LEMMA GoodInBounds ==
  ASSUME PgInv, InCall
  PROVE  Read \in Nat /\ Read <= Len(cmd_vec) /\ Len(cmd_vec) <= MaxPieces + 2
BY CallFacts DEF Read

-----------------------------------------------------------------------------
(* The server                                                              *)

(* A process that answers served the current command of the call.          *)
LEMMA AnswerKeeps ==
  ASSUME PgInv, backend \in {"running", "hung"},
         NEW a \in {"ok", "tuples", "error", "empty"}, Answer(a),
         tx' \in {"none", "open", "failed"}, limited' \in BOOLEAN, lifted' \in BOOLEAN,
         committed' \subseteq 1..MaxRuns, work' \subseteq 1..MaxRuns,
         UNCHANGED <<pc, callVars, link, textVars, slow, job, serverVars, died>>
  PROVE  PgInv'
<1>. USE DEF callVars, textVars, serverVars
<1>1. /\ pc \in {"sent", "results"} /\ answer = "none" /\ job = Current /\ InCall
      /\ Read = cmd - 1 /\ job.call = calls
  BY DEF PgInv, LinkInv, Busy, InCall, Read, Current
<1>2. /\ cmd \in 1..Len(cmd_vec) /\ Len(cmd_vec) \in 3..(MaxPieces + 2) /\ MaxPieces \in Nat
      /\ good \in Nat /\ good <= cmd - 1
  BY <1>1, CallFacts
<1>3. answer' = a /\ backend' = "idle" /\ good' = good + (IF a # "error" THEN 1 ELSE 0)
  BY <1>1 DEF Answer
<1>4. Read' = IF a # "error" THEN cmd ELSE cmd - 1
  BY <1>1, <1>3 DEF Read
<1>5. good' \in 0..(MaxPieces + 2) /\ good' <= Read'
      /\ (good = cmd - 1 => good' = Read')
  BY <1>2, <1>3, <1>4
<1>6. TypeOK'
  <2>1. CallTypes'
    BY <1>5 DEF PgInv, TypeOK, CallTypes
  <2>2. TextTypes'
    BY DEF PgInv, TypeOK, TextTypes
  <2>3. SessionTypes'
    BY <1>3 DEF PgInv, TypeOK, SessionTypes, Processes
  <2>. QED  BY <2>1, <2>2, <2>3 DEF TypeOK
<1>7. LinkInv'
  BY <1>1, <1>3 DEF PgInv, LinkInv, Busy, InCall, Current
<1>8. TextInv'
  BY DEF PgInv, TextInv, InCall
<1>9. GoodInv'
  BY <1>1, <1>5 DEF PgInv, GoodInv, InCall, Clean, Idling
<1>10. DiedInv'
  <2>1. ~Dead
    BY DEF Dead
  <2>. QED  BY <1>1, <2>1 DEF PgInv, DiedInv, InCall, Idling
<1>. QED  BY <1>6, <1>7, <1>8, <1>9, <1>10 DEF PgInv

(* The statements that end, one way or another.                            *)
LEMMA ServeKeeps ==
  ASSUME PgInv, Serve \/ CancelSlow
  PROVE  PgInv'
<1>. USE DEF sessionVars, serverVars, historyVars
<1>0. /\ tx \in {"none", "open", "failed"} /\ limited \in BOOLEAN
      /\ committed \subseteq 1..MaxRuns /\ work \subseteq 1..MaxRuns
      /\ lifted \in BOOLEAN /\ calls \in Nat
  BY PostgreSQLAssumption DEF PgInv, TypeOK, SessionTypes, CallTypes
<1>1. CASE ServeLimit
  <2>1. PICK a \in {"ok", "error"} : Answer(a) /\ limited' \in BOOLEAN
    BY <1>0, <1>1 DEF ServeLimit
  <2>. QED  BY <1>0, <1>1, <2>1, AnswerKeeps DEF ServeLimit
<1>2. CASE ServeEmpty
  BY <1>0, <1>2, AnswerKeeps DEF ServeEmpty
<1>3. CASE ServeError
  <2>1. tx' \in {"none", "open", "failed"} /\ limited' \in BOOLEAN
    BY <1>0, <1>3 DEF ServeError, Fail
  <2>. QED  BY <1>0, <1>3, <2>1, AnswerKeeps DEF ServeError, Fail
<1>9. ASSUME NEW answers \in SUBSET {"ok", "tuples"}, Succeed(answers),
             tx' \in {"none", "open", "failed"}, limited' \in BOOLEAN,
             work' \subseteq 1..MaxRuns, committed' \subseteq 1..MaxRuns
      PROVE  PgInv'
  <2>1. PICK a \in answers : Answer(a)
    BY <1>9 DEF Succeed
  <2>2. a \in {"ok", "tuples", "error", "empty"}
    OBVIOUS
  <2>3. lifted' \in BOOLEAN
    BY <1>9 DEF Succeed
  <2>. QED  BY <1>9, <2>1, <2>2, <2>3, AnswerKeeps DEF Succeed
<1>4. CASE ServeStatement
  <2>1. run \in 1..MaxRuns
    <3>1. InCall
      BY <1>4 DEF ServeStatement, Succeed, PgInv, LinkInv, Busy, InCall
    <3>. QED  BY <3>1, CallFacts
  <2>2. work' \subseteq 1..MaxRuns /\ committed' \subseteq 1..MaxRuns
    BY <1>0, <1>4, <2>1 DEF ServeStatement
  <2>3. Succeed({"ok", "tuples"}) /\ tx' \in {"none", "open", "failed"} /\ limited' \in BOOLEAN
    BY <1>0, <1>4 DEF ServeStatement
  <2>. QED  BY <1>9, <2>2, <2>3
<1>5. CASE ServeBegin
  <2>1. /\ Succeed({"ok"}) /\ tx' \in {"none", "open", "failed"} /\ limited' \in BOOLEAN
        /\ work' \subseteq 1..MaxRuns /\ committed' \subseteq 1..MaxRuns
    BY <1>0, <1>5 DEF ServeBegin
  <2>2. {"ok"} \in SUBSET {"ok", "tuples"}
    OBVIOUS
  <2>. QED  BY <1>9, <2>1, <2>2
<1>6. CASE ServeEnd
  <2>1. work' \subseteq 1..MaxRuns /\ committed' \subseteq 1..MaxRuns
    BY <1>0, <1>6 DEF ServeEnd
  <2>2. Succeed({"ok"}) /\ tx' \in {"none", "open", "failed"} /\ limited' \in BOOLEAN
    BY <1>6 DEF ServeEnd
  <2>3. {"ok"} \in SUBSET {"ok", "tuples"}
    OBVIOUS
  <2>. QED  BY <1>9, <2>1, <2>2, <2>3
<1>7. CASE CancelSlow
  <2>1. tx' \in {"none", "open", "failed"} /\ limited' \in BOOLEAN
    BY <1>0, <1>7 DEF CancelSlow, Fail
  <2>. QED  BY <1>0, <1>7, <2>1, AnswerKeeps DEF CancelSlow, Fail
<1>8. CASE ServeForEver \/ ServeCopy
  <2>. USE DEF callVars, textVars
  <2>1. /\ backend = "running" /\ answer = "none" /\ pc \in {"sent", "results"} /\ job = Current
        /\ backend' \in {"hung", "copying"}
        /\ answer' = (IF backend' = "copying" THEN "copy" ELSE "none")
        /\ UNCHANGED <<pc, callVars, link, textVars, slow, job, tx, limited, committed, work,
                       serverVars, historyVars>>
    BY <1>8 DEF ServeForEver, ServeCopy, PgInv, LinkInv, Busy
  <2>2. TypeOK'
    <3>1. CallTypes' /\ TextTypes'
      BY <2>1 DEF PgInv, TypeOK, CallTypes, TextTypes
    <3>2. SessionTypes'
      BY <2>1 DEF PgInv, TypeOK, SessionTypes, Processes
    <3>. QED  BY <3>1, <3>2 DEF TypeOK
  <2>3. LinkInv'
    BY <2>1 DEF PgInv, LinkInv, Busy, InCall, Current
  <2>4. TextInv'
    BY <2>1 DEF PgInv, TextInv, InCall
  <2>5. GoodInv'
    <3>1. Read' = Read
      BY <2>1 DEF Read
    <3>. QED  BY <2>1, <3>1 DEF PgInv, GoodInv, InCall, Clean, Idling
  <2>6. DiedInv'
    BY <2>1 DEF PgInv, DiedInv, InCall, Idling, Dead
  <2>. QED  BY <2>2, <2>3, <2>4, <2>5, <2>6 DEF PgInv
<1>. QED  BY <1>1, <1>2, <1>3, <1>4, <1>5, <1>6, <1>7, <1>8 DEF Serve

(* A crash makes the process dead before the last answer, or is too late.  *)
LEMMA CrashKeeps ==
  ASSUME PgInv, Crash
  PROVE  PgInv'
<1>. USE DEF callVars, textVars, serverVars
<1>1. /\ UNCHANGED <<pc, callVars, link, textVars, slow, answer, job, limited, committed, good, lifted>>
      /\ backend' = IF backend \in {"none", "reaped"} THEN backend ELSE "exited"
  BY DEF Crash
<1>2. TypeOK'
  <2>1. crashes' \in 0..MaxCrashes
    BY PostgreSQLAssumption DEF Crash, PgInv, TypeOK, SessionTypes
  <2>2. CallTypes' /\ TextTypes'
    <3>1. died' \in BOOLEAN
      BY DEF Crash
    <3>. QED  BY <1>1, <3>1 DEF PgInv, TypeOK, CallTypes, TextTypes
  <2>3. SessionTypes'
    BY <1>1, <2>1 DEF Crash, PgInv, TypeOK, SessionTypes, Processes
  <2>. QED  BY <2>2, <2>3 DEF TypeOK
<1>3. LinkInv'
  BY <1>1 DEF PgInv, LinkInv, Busy, InCall, Current
<1>4. TextInv'
  BY <1>1 DEF PgInv, TextInv, InCall
<1>5. GoodInv'
  <2>1. Read' = Read
    BY <1>1 DEF Read
  <2>. QED  BY <1>1, <2>1 DEF PgInv, GoodInv, InCall, Clean, Idling
<1>6. DiedInv'
  <2>1. CASE InCall
    <3>1. Dead'
      BY <1>1, <2>1 DEF PgInv, LinkInv, Dead
    <3>2. died' => died \/ (pc # "end" /\ ~(cmd = Len(cmd_vec) /\ answer # "none"))
      BY DEF Crash
    <3>3. died' => "unexpectedly" \in result_str
                   \/ (pc # "end" /\ ~(cmd = Len(cmd_vec) /\ answer # "none"))
      BY <2>1, <3>2 DEF PgInv, DiedInv
    <3>. QED  BY <1>1, <2>1, <3>1, <3>3 DEF DiedInv, InCall, Idling
  <2>2. CASE ~InCall
    <3>1. died' = died
      BY <2>2 DEF Crash, PgInv, TypeOK, CallTypes
    <3>. QED  BY <1>1, <2>2, <3>1 DEF PgInv, DiedInv, InCall, Idling
  <2>. QED  BY <2>1, <2>2
<1>. QED  BY <1>2, <1>3, <1>4, <1>5, <1>6 DEF PgInv

(* The postmaster's other steps and the clock.                             *)
LEMMA PostmasterKeeps ==
  ASSUME PgInv, Reap \/ Recover \/ TimePasses
  PROVE  PgInv'
<1>. USE DEF callVars, textVars, serverVars, sessionVars, historyVars
<1>1. /\ UNCHANGED <<pc, callVars, link, textVars, answer, sessionVars, crashes, historyVars>>
      /\ backend' = backend \/ (backend = "exited" /\ backend' = "reaped")
      /\ slow' \in BOOLEAN /\ server' \in {"up", "recovering", "down"}
  BY DEF Reap, Recover, TimePasses, PgInv, TypeOK, CallTypes, SessionTypes
<1>2. TypeOK'
  <2>1. CallTypes' /\ TextTypes'
    BY <1>1 DEF PgInv, TypeOK, CallTypes, TextTypes
  <2>2. SessionTypes'
    BY <1>1 DEF PgInv, TypeOK, SessionTypes, Processes
  <2>. QED  BY <2>1, <2>2 DEF TypeOK
<1>3. LinkInv'
  BY <1>1 DEF PgInv, LinkInv, Busy, InCall, Current
<1>4. TextInv'
  BY <1>1 DEF PgInv, TextInv, InCall
<1>5. GoodInv'
  <2>1. Read' = Read
    BY <1>1 DEF Read
  <2>. QED  BY <1>1, <2>1 DEF PgInv, GoodInv, InCall, Clean, Idling
<1>6. DiedInv'
  BY <1>1 DEF PgInv, DiedInv, InCall, Idling, Dead
<1>. QED  BY <1>2, <1>3, <1>4, <1>5, <1>6 DEF PgInv

-----------------------------------------------------------------------------
(* The fuzzing thread, outside a call                                      *)

(* Closing a connection, to open another one or not.                       *)
LEMMA DisconnectFacts ==
  ASSUME PgInv, NEW b \in {"none", "idle"}, NEW l \in {"ok", "bad"}, Disconnect(b, l),
         UNCHANGED serverVars
  PROVE  SessionTypes' /\ answer' = "none" /\ backend' \notin Busy
<1>. USE DEF serverVars
<1>1. backend = "copying" => run \in 1..MaxRuns
  <2>1. backend = "copying" => InCall
    BY DEF PgInv, LinkInv, Busy, InCall
  <2>. QED  BY <2>1, CallFacts
<1>2. committed' \subseteq 1..MaxRuns /\ work' = committed'
  <2>1. committed \subseteq 1..MaxRuns
    BY DEF PgInv, TypeOK, SessionTypes
  <2>2. PICK late \in IF backend = "copying" /\ tx = "none" THEN {{}, {run}} ELSE {{}} :
          committed' = committed \cup late
    BY DEF Disconnect
  <2>. QED  BY <1>1, <2>1, <2>2 DEF Disconnect
<1>3. NoJob \in [call : 0..MaxCalls, text : {"none", "limit", "statement", "head", "empty"}]
  BY PostgreSQLAssumption DEF NoJob
<1>4. SessionTypes'
  BY <1>2, <1>3 DEF Disconnect, PgInv, TypeOK, SessionTypes, Processes
<1>. QED  BY <1>4 DEF Disconnect, Busy

(* Steps between two calls keep what the last one left.                    *)
LEMMA OutsideKeeps ==
  ASSUME PgInv,
         (pc \in Idling /\ pc' \in Idling) \/ (pc = "waiting" /\ pc' = "waiting"),
         UNCHANGED <<calls, cmd_vec, cmd, textVars, slow, historyVars>>,
         run' \in 0..MaxRuns, run' >= run,
         SessionTypes', answer' = "none", backend' \notin Busy
  PROVE  PgInv'
<1>. USE DEF textVars, historyVars
<1>1. CallTypes' /\ TextTypes'
  BY DEF PgInv, TypeOK, CallTypes, TextTypes, Idling
<1>2. run \in Nat /\ run' \in Nat
  BY PostgreSQLAssumption DEF PgInv, TypeOK, CallTypes
<1>3. LinkInv'
  BY <1>2 DEF PgInv, LinkInv, InCall, Idling, Busy
<1>4. TextInv'
  BY DEF PgInv, TextInv, InCall, Idling
<1>5. GoodInv'
  BY DEF PgInv, GoodInv, InCall, Idling
<1>6. DiedInv'
  BY DEF PgInv, DiedInv, InCall, Idling
<1>. QED  BY <1>1, <1>3, <1>4, <1>5, <1>6 DEF PgInv, TypeOK

(* Waiting for a connection, and the two halves of restart_dbms.           *)
LEMMA RestartKeeps ==
  ASSUME PgInv, RestartDbms \/ Restart
  PROVE  PgInv'
<1>. USE DEF callVars, sessionVars, serverVars
<1>0. /\ run \in 0..MaxRuns
      /\ MaxRuns \in Nat
      /\ SessionTypes
      /\ committed \subseteq 1..MaxRuns
      /\ {} \subseteq 1..MaxRuns
      /\ pc \notin {"sent", "results"} => answer = "none" /\ backend \notin Busy
  BY PostgreSQLAssumption DEF PgInv, TypeOK, CallTypes, SessionTypes, LinkInv
<1>1. CASE RestartDbms
  <2>1. SessionTypes' /\ answer' = "none" /\ backend' \notin Busy
    <3>1. SessionTypes'
      BY <1>0, <1>1 DEF RestartDbms, SessionTypes
    <3>2. answer' = "none" /\ backend' \notin Busy
      BY <1>0, <1>1 DEF RestartDbms, Busy
    <3>. QED  BY <3>1, <3>2
  <2>2. run' \in 0..MaxRuns /\ run' >= run
    BY <1>0, <1>1 DEF RestartDbms
  <2>. QED  BY <1>1, <2>1, <2>2, OutsideKeeps DEF RestartDbms, Idling
<1>2. CASE Reconnect
  <2>1. SessionTypes' /\ answer' = "none" /\ backend' \notin Busy
    <3>1. Disconnect("idle", "ok") \/ Disconnect("none", "bad")
      BY <1>2 DEF Reconnect
    <3>2. UNCHANGED serverVars
      BY <1>2 DEF Reconnect
    <3>. QED  BY <3>1, <3>2, DisconnectFacts
  <2>2. run' \in 0..MaxRuns /\ run' >= run
    BY <1>0, <1>2 DEF Reconnect
  <2>. QED  BY <1>2, <2>1, <2>2, OutsideKeeps DEF Reconnect, Waiting, Idling
<1>3. CASE ResetDatabase
  <2>1. work' \subseteq 1..MaxRuns /\ committed' \subseteq 1..MaxRuns
    <3>1. work' \in {{}, committed} /\ committed' = work'
      BY <1>3 DEF ResetDatabase
    <3>. QED  BY <1>0, <3>1
  <2>2. SessionTypes' /\ answer' = "none" /\ backend' \notin Busy
    <3>1. SessionTypes'
      BY <1>0, <1>3, <2>1 DEF ResetDatabase, SessionTypes
    <3>2. answer' = "none" /\ backend' \notin Busy
      BY <1>0, <1>3 DEF ResetDatabase, Busy
    <3>. QED  BY <3>1, <3>2
  <2>3. run' \in 0..MaxRuns /\ run' >= run
    BY <1>0, <1>3 DEF ResetDatabase
  <2>. QED  BY <1>3, <2>2, <2>3, OutsideKeeps DEF ResetDatabase, Idling
<1>4. CASE RestartDone
  <2>1. SessionTypes' /\ answer' = "none" /\ backend' \notin Busy
    <3>1. SessionTypes'
      BY <1>0, <1>4 DEF RestartDone, SessionTypes
    <3>2. answer' = "none" /\ backend' \notin Busy
      BY <1>0, <1>4 DEF RestartDone, Busy
    <3>. QED  BY <3>1, <3>2
  <2>2. run' \in 0..MaxRuns /\ run' >= run
    BY <1>0, <1>4 DEF RestartDone
  <2>. QED  BY <1>4, <2>1, <2>2, OutsideKeeps DEF RestartDone, Idling
<1>. QED  BY <1>1, <1>2, <1>3, <1>4 DEF Restart

(* A call begins with no text and nothing executed.                        *)
LEMMA RunTargetKeeps ==
  ASSUME PgInv, RunTarget
  PROVE  PgInv'
<1>. USE DEF sessionVars, serverVars
<1>1. calls' \in 0..MaxCalls /\ calls' = calls + 1
  <2>1. calls \in 0..MaxCalls /\ MaxCalls \in Nat
    BY PostgreSQLAssumption DEF PgInv, TypeOK, CallTypes
  <2>2. calls < MaxCalls /\ calls' = calls + 1
    BY DEF RunTarget
  <2>. QED  BY <2>1, <2>2
<1>2. CallTypes'
  <2>1. 0 \in 0..(MaxPieces + 2)
    BY PostgreSQLAssumption
  <2>2. /\ pc' = "waiting" /\ good' = 0 /\ died' = FALSE /\ lifted' = FALSE
        /\ UNCHANGED <<run, cmd_vec, cmd, slow>>
    BY DEF RunTarget
  <2>. QED  BY <1>1, <2>1, <2>2 DEF PgInv, TypeOK, CallTypes
<1>3. TextTypes' /\ SessionTypes'
  BY <1>1 DEF RunTarget, PgInv, TypeOK, TextTypes, SessionTypes
<1>4. LinkInv'
  BY DEF RunTarget, PgInv, LinkInv, InCall
<1>5. TextInv'
  BY <1>1 DEF RunTarget, PgInv, TextInv, InCall, Idling
<1>6. GoodInv' /\ DiedInv'
  BY DEF RunTarget, GoodInv, DiedInv, InCall, Idling
<1>. QED  BY <1>2, <1>3, <1>4, <1>5, <1>6 DEF PgInv, TypeOK

-----------------------------------------------------------------------------
(* The fuzzing thread, in a call                                           *)

(* A connection that is there is idle.                                     *)
LEMMA PrepareKeeps ==
  ASSUME PgInv, Prepare
  PROVE  PgInv'
<1>. USE DEF sessionVars, serverVars, historyVars
<1>1. cmd_vec' \in Commands /\ cmd' = 1 /\ Len(cmd_vec') \in 3..(MaxPieces + 2)
      /\ cmd' \in 0..Len(cmd_vec') /\ MaxPieces \in Nat
  BY CommandsFacts, PostgreSQLAssumption DEF Prepare
<1>2. CallTypes'
  BY <1>1 DEF Prepare, PgInv, TypeOK, CallTypes
<1>3. TextTypes' /\ SessionTypes'
  BY DEF Prepare, PgInv, TypeOK, TextTypes, SessionTypes
<1>4. LinkInv'
  BY <1>1 DEF Prepare, PgInv, LinkInv, InCall, check_server_alive
<1>5. TextInv'
  BY DEF Prepare, PgInv, TextInv, InCall, Idling
<1>6. GoodInv'
  <2>1. good = 0 /\ answer = "none"
    BY DEF Prepare, PgInv, GoodInv, LinkInv
  <2>2. Read' = 0 /\ good' = 0
    BY <1>1, <2>1 DEF Prepare, Read
  <2>. QED  BY <2>2 DEF Prepare, GoodInv, Idling
<1>7. DiedInv'
  BY DEF Prepare, PgInv, DiedInv, Idling
<1>. QED  BY <1>2, <1>3, <1>4, <1>5, <1>6, <1>7 DEF PgInv, TypeOK

(* What is sent is the current command, to a process that is idle.         *)
LEMMA SendQueryKeeps ==
  ASSUME PgInv, SendQuery
  PROVE  PgInv'
<1>. USE DEF callVars, textVars, serverVars, historyVars
<1>1. InCall /\ pc = "send" /\ pc' = "sent" /\ answer = "none" /\ answer' = "none"
      /\ UNCHANGED <<callVars, textVars, slow, answer, tx, limited, committed, work,
                     serverVars, historyVars>>
  BY DEF SendQuery, InCall, PgInv, LinkInv
<1>2. \/ backend = "idle" /\ backend' = "running" /\ job' = Current /\ link' = link
      \/ backend' = backend /\ job' = job /\ link' \in {"ok", "bad"}
  BY DEF SendQuery, Current, PgInv, TypeOK, SessionTypes
<1>3. Current \in [call : 0..MaxCalls, text : Texts]
  BY <1>1, CallFacts DEF Current, PgInv, TypeOK, CallTypes
<1>4. CallTypes' /\ TextTypes'
  BY <1>1 DEF PgInv, TypeOK, CallTypes, TextTypes
<1>5. SessionTypes'
  BY <1>1, <1>2, <1>3 DEF PgInv, TypeOK, SessionTypes, Processes, Texts
<1>6. LinkInv'
  BY <1>1, <1>2 DEF PgInv, LinkInv, InCall, Busy, Current
<1>7. TextInv'
  BY <1>1 DEF PgInv, TextInv, InCall, Idling
<1>8. GoodInv'
  <2>1. Read' = Read
    BY <1>1 DEF Read
  <2>. QED  BY <1>1, <2>1 DEF PgInv, GoodInv, Idling, InCall, Clean
<1>9. DiedInv'
  BY <1>1, <1>2 DEF PgInv, DiedInv, Idling, InCall, Dead
<1>. QED  BY <1>4, <1>5, <1>6, <1>7, <1>8, <1>9 DEF PgInv, TypeOK

(* A call that gives up closes the connection.                             *)
LEMMA GivingUpKeeps ==
  ASSUME PgInv, InCall, Disconnect("none", "bad"),
         NEW f \in {"FAULT_CRASH", "FAULT_TMOUT"}, Return(f),
         tmp_cur_res' \subseteq {"ERROR", "unexpectedly", "kServerCrash", "single row"},
         res_call' = calls, f = "FAULT_TMOUT" => "ERROR" \in tmp_cur_res'
  PROVE  PgInv'
<1>. USE DEF callVars, serverVars, historyVars
<1>1. pc' = "ready" /\ fault' = f
      /\ UNCHANGED <<callVars, result_str, slow, serverVars, historyVars>>
  BY DEF Return
<1>2. SessionTypes' /\ answer' = "none" /\ backend' \notin Busy
  BY <1>1, DisconnectFacts
<1>3. CallTypes'
  BY <1>1 DEF PgInv, TypeOK, CallTypes
<1>4. TextTypes'
  BY <1>1 DEF PgInv, TypeOK, TextTypes, CallTypes
<1>5. LinkInv'
  BY <1>1, <1>2 DEF LinkInv, InCall, Busy
<1>6. TextInv' /\ GoodInv' /\ DiedInv'
  BY <1>1 DEF TextInv, GoodInv, DiedInv, InCall, Idling
<1>. QED  BY <1>2, <1>3, <1>4, <1>5, <1>6 DEF PgInv, TypeOK

(* The two ways to notice a lost connection before results are read.       *)
LEMMA LostKeeps ==
  ASSUME PgInv, BackendGone \/ StatusBad
  PROVE  PgInv'
<1>1. InCall /\ Disconnect("none", "bad") /\ Return("FAULT_CRASH")
  BY DEF BackendGone, StatusBad, InCall
<1>2. tmp_cur_res' \subseteq {"ERROR", "unexpectedly", "kServerCrash", "single row"}
      /\ res_call' = calls
  BY DEF BackendGone, StatusBad, SetResult, PgInv, TypeOK, TextTypes, TextInv
<1>. QED  BY <1>1, <1>2, GivingUpKeeps

(* A copy of an earlier command is never under way.                        *)
LEMMA AwaitResultsKeeps ==
  ASSUME PgInv, AwaitResults
  PROVE  PgInv'
<1>. USE DEF callVars, textVars, sessionVars, serverVars, historyVars
<1>1. ~(answer = "copy" /\ job # [call |-> calls, text |-> cmd_vec[cmd]])
  BY DEF AwaitResults, PgInv, LinkInv, Current
<1>2. /\ pc = "sent" /\ pc' = "results"
      /\ UNCHANGED <<callVars, link, textVars, slow, backend, answer, sessionVars,
                     serverVars, historyVars>>
  BY <1>1 DEF AwaitResults
<1>3. CallTypes' /\ TextTypes' /\ SessionTypes'
  <2>1. CallTypes'
    BY <1>2 DEF PgInv, TypeOK, CallTypes
  <2>2. TextTypes'
    BY <1>2 DEF PgInv, TypeOK, TextTypes
  <2>3. SessionTypes'
    BY <1>2 DEF PgInv, TypeOK, SessionTypes
  <2>. QED  BY <2>1, <2>2, <2>3
<1>4. LinkInv'
  BY <1>2 DEF PgInv, LinkInv, InCall, Busy, Current
<1>5. TextInv'
  BY <1>2 DEF PgInv, TextInv, InCall, Idling
<1>6. GoodInv'
  <2>1. Read' = Read
    BY <1>2 DEF Read
  <2>. QED  BY <1>2, <2>1 DEF PgInv, GoodInv, Idling, InCall, Clean
<1>7. DiedInv'
  BY <1>2 DEF PgInv, DiedInv, Idling, InCall, Dead
<1>. QED  BY <1>3, <1>4, <1>5, <1>6, <1>7 DEF PgInv, TypeOK

(* A result that was read, or its loss, leads to the next command.         *)
LEMMA ReadKeeps ==
  ASSUME PgInv, pc = "results", NextCommand, answer' = "none", backend \notin Busy,
         NEW extra \in SUBSET {"ERROR", "unexpectedly"}, result_str' = result_str \cup extra,
         link' \in {"ok", "bad"},
         UNCHANGED <<run, calls, cmd_vec, tmp_cur_res, res_call, fault, slow, backend,
                     sessionVars, serverVars, historyVars>>,
         extra = {} => answer \in {"ok", "tuples", "empty"},
         "unexpectedly" \in extra \/ answer # "none"
  PROVE  PgInv'
<1>. USE DEF sessionVars, serverVars, historyVars
<1>0. InCall
  BY DEF InCall
<1>1. /\ Len(cmd_vec) \in Nat /\ cmd \in 1..Len(cmd_vec) /\ cmd \in Nat
      /\ run > 0 /\ cmd_vec \in Commands /\ backend # "none" /\ good <= Read /\ good \in Nat
  BY <1>0, CallFacts
<1>2. \/ cmd = Len(cmd_vec) /\ pc' = "end" /\ cmd' = cmd
      \/ cmd # Len(cmd_vec) /\ pc' = "send" /\ cmd' = cmd + 1
  BY DEF NextCommand
<1>3. cmd' \in 1..Len(cmd_vec) /\ Read' = cmd /\ Read <= cmd
      /\ (answer \in {"ok", "tuples", "empty"} => Read = cmd)
  BY <1>1, <1>2 DEF Read
<1>4. CallTypes'
  BY <1>2, <1>3 DEF PgInv, TypeOK, CallTypes
<1>5. TextTypes'
  BY DEF PgInv, TypeOK, TextTypes
<1>6. SessionTypes'
  BY DEF PgInv, TypeOK, SessionTypes
<1>7. LinkInv'
  BY <1>1, <1>2, <1>3 DEF LinkInv, InCall, Busy
<1>8. TextInv'
  BY <1>0, <1>2 DEF PgInv, TextInv, InCall, Idling
<1>9. GoodInv'
  <2>1. good <= Read'
    <3>1. Read \in Nat
      BY <1>0, GoodInBounds
    <3>. QED  BY <1>1, <1>3, <3>1
  <2>2. Clean(result_str') => extra = {} /\ Clean(result_str)
    BY DEF Clean
  <2>3. Clean(result_str') => good = Read'
    BY <1>0, <1>3, <2>2 DEF PgInv, GoodInv
  <2>. QED  BY <1>2, <2>1, <2>3 DEF GoodInv, Idling
<1>10. DiedInv'
  BY <1>0, <1>2 DEF PgInv, DiedInv, Idling, Dead
<1>. QED  BY <1>4, <1>5, <1>6, <1>7, <1>8, <1>9, <1>10 DEF PgInv, TypeOK

(* Rows add words to the text.                                             *)
LEMMA ReadRowKeeps ==
  ASSUME PgInv, ReadRow
  PROVE  PgInv'
<1>. USE DEF callVars, sessionVars, serverVars, historyVars
<1>0. InCall /\ pc = "results"
  BY DEF InCall, ReadRow
<1>1. PICK words \in {{}} \cup {{w} : w \in RowWords} :
        IF slow
        THEN TimeOut(result_str \cup words)
        ELSE /\ result_str' = result_str \cup words
             /\ UNCHANGED <<pc, callVars, link, tmp_cur_res, res_call, fault, slow, backend,
                            answer, sessionVars, serverVars, historyVars>>
  BY DEF ReadRow
<1>2. result_str \cup words \subseteq {"ERROR", "unexpectedly"}
  BY PostgreSQLAssumption DEF PgInv, TypeOK, TextTypes
<1>3. CASE slow
  <2>1. /\ tmp_cur_res' = (result_str \cup words) \cup {"ERROR"} /\ res_call' = calls
        /\ Disconnect("none", "bad") /\ Return("FAULT_TMOUT")
    BY <1>1, <1>3 DEF TimeOut, SetResult
  <2>. QED  BY <1>0, <1>2, <2>1, GivingUpKeeps
<1>4. CASE ~slow
  <2>1. /\ result_str' = result_str \cup words
        /\ UNCHANGED <<pc, callVars, link, tmp_cur_res, res_call, fault, slow, backend,
                       answer, sessionVars, serverVars, historyVars>>
    BY <1>1, <1>4
  <2>2. CallTypes' /\ TextTypes' /\ SessionTypes'
    <3>1. CallTypes'
      BY <1>2, <2>1 DEF PgInv, TypeOK, CallTypes
    <3>2. TextTypes'
      BY <1>2, <2>1 DEF PgInv, TypeOK, TextTypes
    <3>3. SessionTypes'
      BY <1>2, <2>1 DEF PgInv, TypeOK, SessionTypes
    <3>. QED  BY <3>1, <3>2, <3>3
  <2>3. LinkInv'
    BY <2>1 DEF PgInv, LinkInv, InCall, Busy, Current
  <2>4. TextInv'
    BY <2>1 DEF PgInv, TextInv, InCall, Idling
  <2>5. GoodInv'
    <3>1. Read' = Read /\ (Clean(result_str') => Clean(result_str))
      BY <2>1 DEF Read, Clean
    <3>. QED  BY <1>0, <2>1, <3>1 DEF PgInv, GoodInv, Idling, InCall
  <2>6. DiedInv'
    BY <1>0, <2>1 DEF PgInv, DiedInv, Idling, InCall, Dead
  <2>. QED  BY <2>2, <2>3, <2>4, <2>5, <2>6 DEF PgInv, TypeOK
<1>. QED  BY <1>3, <1>4

(* The other results.                                                      *)
LEMMA ReadOtherKeeps ==
  ASSUME PgInv, ReadResult \/ ReadOther \/ ReadFailure
  PROVE  PgInv'
<1>. USE DEF sessionVars, serverVars, historyVars, textVars
<1>0. InCall /\ pc = "results" /\ link \in {"ok", "bad"}
      /\ result_str \subseteq {"ERROR", "unexpectedly"}
  BY DEF InCall, ReadResult, ReadOther, ReadFailure, PgInv, TypeOK, SessionTypes, TextTypes
<1>1. CASE ReadResult
  <2>. DEFINE extra == IF answer = "error" THEN {"ERROR"} ELSE {}
  <2>1. extra \in SUBSET {"ERROR", "unexpectedly"} /\ result_str' = result_str \cup extra
        /\ (extra = {} => answer \in {"ok", "tuples", "empty"}) /\ answer # "none"
    BY <1>1 DEF ReadResult
  <2>2. backend \notin Busy
    BY <1>1 DEF ReadResult, PgInv, LinkInv, Busy
  <2>. HIDE DEF extra
  <2>. QED  BY <1>0, <1>1, <2>1, <2>2, ReadKeeps DEF ReadResult
<1>2. CASE ReadOther /\ slow
  <2>1. /\ tmp_cur_res' = result_str \cup {"ERROR"} /\ res_call' = calls
        /\ Disconnect("none", "bad") /\ Return("FAULT_TMOUT")
    BY <1>2 DEF ReadOther, TimeOut, SetResult
  <2>. QED  BY <1>0, <2>1, GivingUpKeeps
<1>3. CASE ReadOther /\ ~slow
  <2>. DEFINE extra == {}
  <2>1. extra \in SUBSET {"ERROR", "unexpectedly"} /\ result_str' = result_str \cup extra
        /\ answer = "empty"
    BY <1>3 DEF ReadOther
  <2>2. backend \notin Busy
    BY <2>1 DEF PgInv, LinkInv, Busy
  <2>. HIDE DEF extra
  <2>. QED  BY <1>0, <1>3, <2>1, <2>2, ReadKeeps DEF ReadOther
<1>4. CASE ReadFailure
  <2>. DEFINE extra == {"unexpectedly"}
  <2>1. extra \in SUBSET {"ERROR", "unexpectedly"} /\ result_str' = result_str \cup extra
        /\ extra # {} /\ "unexpectedly" \in extra
    BY <1>4 DEF ReadFailure
  <2>2. backend \notin Busy
    BY <1>4 DEF ReadFailure, Dead, Busy
  <2>. HIDE DEF extra
  <2>. QED  BY <1>0, <1>4, <2>1, <2>2, ReadKeeps DEF ReadFailure
<1>. QED  BY <1>1, <1>2, <1>3, <1>4

(* The call returns what it collected.                                     *)
LEMMA FinishKeeps ==
  ASSUME PgInv, Finish
  PROVE  PgInv'
<1>. USE DEF callVars, sessionVars, serverVars, historyVars
<1>0. InCall /\ pc = "end"
  BY DEF InCall, Finish
<1>1. /\ pc' = "ready" /\ tmp_cur_res' = result_str /\ res_call' = calls
      /\ fault' \in {"FAULT_CRASH", "FAULT_NONE"}
      /\ UNCHANGED <<callVars, result_str, slow, link, backend, answer, sessionVars,
                     serverVars, historyVars>>
  BY <1>0 DEF Finish, SetResult, Return, PgInv, TextInv
<1>2. CallTypes' /\ TextTypes' /\ SessionTypes'
  <2>1. CallTypes'
    BY <1>1 DEF PgInv, TypeOK, CallTypes
  <2>2. TextTypes'
    BY <1>1 DEF PgInv, TypeOK, TextTypes, CallTypes
  <2>3. SessionTypes'
    BY <1>1 DEF PgInv, TypeOK, SessionTypes
  <2>. QED  BY <2>1, <2>2, <2>3
<1>3. LinkInv'
  BY <1>0, <1>1 DEF PgInv, LinkInv, InCall, Busy
<1>4. TextInv'
  BY <1>1 DEF TextInv, InCall, Idling
<1>5. GoodInv'
  <2>1. Read = Len(cmd_vec)
    BY <1>0 DEF Read, PgInv, LinkInv
  <2>2. Clean(result_str) => good = Len(cmd_vec)
    BY <1>0, <2>1 DEF PgInv, GoodInv
  <2>. QED  BY <1>1, <2>2 DEF GoodInv, InCall
<1>6. DiedInv'
  BY <1>0, <1>1 DEF PgInv, DiedInv, InCall
<1>. QED  BY <1>2, <1>3, <1>4, <1>5, <1>6 DEF PgInv, TypeOK

-----------------------------------------------------------------------------
(* The theorems                                                            *)

(* At first there is no connection.                                        *)
LEMMA PgInit == Init => PgInv
<1>. SUFFICES ASSUME Init  PROVE PgInv
  OBVIOUS
<1>. USE PostgreSQLAssumption
<1>1. CallTypes
  <2>1. 0 \in 0..MaxRuns /\ 0 \in 0..MaxCalls /\ 0 \in 0..(MaxPieces + 2) /\ 0 \in 0..Len(<<>>)
    OBVIOUS
  <2>. QED  BY <2>1 DEF Init, CallTypes
<1>2. TextTypes
  BY DEF Init, TextTypes
<1>3. SessionTypes
  <2>1. 0 \in 0..MaxCalls /\ 0 \in 0..MaxCrashes /\ {} \subseteq 1..MaxRuns
    OBVIOUS
  <2>2. NoJob \in [call : 0..MaxCalls, text : {"none", "limit", "statement", "head", "empty"}]
    BY <2>1 DEF NoJob
  <2>. QED  BY <2>1, <2>2 DEF Init, SessionTypes, Processes
<1>4. LinkInv
  BY DEF Init, LinkInv, InCall, Busy
<1>5. TextInv /\ GoodInv /\ DiedInv
  BY DEF Init, TextInv, GoodInv, DiedInv, InCall
<1>. QED  BY <1>1, <1>2, <1>3, <1>4, <1>5 DEF PgInv, TypeOK

(* Every step keeps the invariant.                                         *)
LEMMA PgNext == PgInv /\ [Next]_vars => PgInv'
<1>. SUFFICES ASSUME PgInv, [Next]_vars  PROVE PgInv'
  OBVIOUS
<1>1. CASE Next
  BY <1>1, CrashKeeps, PostmasterKeeps, ServeKeeps, RestartKeeps, RunTargetKeeps,
     PrepareKeeps, SendQueryKeeps, LostKeeps, AwaitResultsKeeps, ReadRowKeeps,
     ReadOtherKeeps, FinishKeeps DEF Next, Send, Receive
<1>2. CASE UNCHANGED vars
  <2>. USE <1>2 DEF vars, callVars, textVars, sessionVars, serverVars, historyVars
  <2>1. CallTypes' /\ TextTypes' /\ SessionTypes'
    <3>1. CallTypes'
      BY DEF PgInv, TypeOK, CallTypes
    <3>2. TextTypes'
      BY DEF PgInv, TypeOK, TextTypes
    <3>3. SessionTypes'
      BY DEF PgInv, TypeOK, SessionTypes
    <3>. QED  BY <3>1, <3>2, <3>3
  <2>2. LinkInv' /\ TextInv'
    BY DEF PgInv, LinkInv, TextInv, InCall, Current
  <2>3. GoodInv' /\ DiedInv'
    <3>1. Read' = Read
      BY DEF Read
    <3>. QED  BY <3>1 DEF PgInv, GoodInv, DiedInv, InCall, Dead
  <2>. QED  BY <2>1, <2>2, <2>3 DEF PgInv, TypeOK
<1>. QED  BY <1>1, <1>2

(* The inductive invariant holds throughout.                               *)
THEOREM PgInvariant == Spec => []PgInv
BY PgInit, PgNext, PTL DEF Spec

(* The types of the state.                                                 *)
THEOREM PgTypes == Spec => []TypeOK
<1>1. PgInv => TypeOK
  BY DEF PgInv
<1>. QED  BY <1>1, PgInvariant, PTL

(* What is classified is of this call, and what reads as a success was     *)
(* neither given up nor executed in part.                                  *)
THEOREM SuccessIsReal == Spec => []NoPhantomSuccess
<1>1. PgInv => NoPhantomSuccess
  BY DEF PgInv, GoodInv, TextInv, NoPhantomSuccess, Answered, res_type, Clean, Idling
<1>. QED  BY <1>1, PgInvariant, PTL

(* A server that goes down before everything is answered is noticed.       *)
THEOREM CrashesAreReported == Spec => []CrashIsReported
<1>1. PgInv => CrashIsReported
  BY DEF PgInv, DiedInv, CrashIsReported, Answered, res_type, Idling
<1>. QED  BY <1>1, PgInvariant, PTL

(* A query is only sent over an idle connection.                           *)
THEOREM NeverFatalHolds == Spec => []NeverFatal
<1>1. PgInv => NeverFatal
  BY DEF PgInv, TextInv, NeverFatal
<1>. QED  BY <1>1, PgInvariant, PTL

-----------------------------------------------------------------------------
(* What a call may wait for.  OwedInv says that a command was sent or the  *)
(* server is gone; LimitInv that a statement is only executed once the     *)
(* limit before it was answered, and that what takes the limit away after  *)
(* that is a piece of the statement.                                       *)
Settled == limited \/ (lifted /\ Len(cmd_vec) > 3) \/ tx = "failed" \/ Dead

OwedInv ==
  /\ InCall => link = "ok" \/ Dead
  /\ pc \in {"sent", "results"} => answer # "none" \/ backend \in Busy \/ Dead

(* The limit was answered, and there may be a statement ahead.             *)
PastLimit ==
  /\ pc \in {"send", "sent", "results"}
  /\ \/ cmd = 1 /\ answer # "none"
     \/ cmd > 1 /\ (Len(cmd_vec) > 3 \/ (cmd = 2 /\ answer = "none"))

LimitInv ==
  /\ PastLimit => Settled
  /\ backend = "hung" => limited \/ (lifted /\ Len(cmd_vec) > 3)

WaitInv == OwedInv /\ LimitInv

(* The steps of the backend: what it answers is the job of this call.      *)
LEMMA ServeOwes ==
  ASSUME PgInv, WaitInv, Serve \/ CancelSlow
  PROVE  WaitInv'
<1>. USE DEF callVars, sessionVars
<1>1. /\ backend \in {"running", "hung"} /\ answer = "none" /\ pc \in {"sent", "results"}
      /\ job = Current /\ ~Dead
  <2>1. backend \in {"running", "hung"}
    BY DEF Serve, ServeLimit, ServeEmpty, ServeError, ServeStatement, ServeBegin, ServeEnd,
           ServeForEver, ServeCopy, CancelSlow, Succeed
  <2>. QED  BY <2>1 DEF PgInv, LinkInv, Busy, Dead
<1>2. UNCHANGED <<pc, cmd_vec, cmd, link>> /\ backend' \in {"idle", "hung", "copying"}
      /\ (backend' = "idle" => answer' # "none")
  BY DEF Serve, ServeLimit, ServeEmpty, ServeError, ServeStatement, ServeBegin, ServeEnd,
         ServeForEver, ServeCopy, CancelSlow, Answer, Fail, Succeed
<1>3. OwedInv'
  BY <1>1, <1>2 DEF WaitInv, OwedInv, InCall, Busy, Dead
<1>4. /\ job.text = cmd_vec[cmd] /\ job.call = calls
      /\ cmd \in 1..Len(cmd_vec) /\ Len(cmd_vec) \in Nat /\ Len(cmd_vec) >= 3
      /\ (cmd = 1 <=> job.text = "limit")
      /\ (Len(cmd_vec) = 3 /\ cmd = 3 => job.text = "empty")
  <2>1. InCall
    BY <1>1 DEF InCall
  <2>. QED  BY <1>1, <2>1, CallFacts, CommandsFacts DEF Current
<1>5. CASE ServeLimit
  <2>1. Settled'
    BY <1>5 DEF ServeLimit, Settled
  <2>2. backend' # "hung"
    BY <1>5 DEF ServeLimit, Answer
  <2>. QED  BY <1>3, <2>1, <2>2 DEF WaitInv, LimitInv
<1>6. CASE ServeForEver
  <2>1. PastLimit /\ tx # "failed"
    <3>1. job.text = "statement" /\ tx # "failed"
      BY <1>6 DEF ServeForEver
    <3>2. cmd > 1 /\ ~(Len(cmd_vec) = 3 /\ cmd = 3)
      BY <1>4, <3>1
    <3>3. Len(cmd_vec) > 3 \/ cmd = 2
      <4>1. \A n, c \in Nat : n >= 3 /\ c \in 1..n /\ c > 1 /\ ~(n = 3 /\ c = 3) => n > 3 \/ c = 2
        OBVIOUS
      <4>2. cmd \in Nat
        BY <1>4
      <4>. QED  BY <1>4, <3>2, <4>1, <4>2
    <3>. QED  BY <1>1, <3>1, <3>2, <3>3 DEF PastLimit
  <2>2. limited \/ (lifted /\ Len(cmd_vec) > 3)
    BY <1>1, <2>1 DEF WaitInv, LimitInv, Settled
  <2>3. UNCHANGED <<limited, cmd_vec, tx, lifted>>
    BY <1>6 DEF ServeForEver, historyVars
  <2>4. Settled'
    BY <2>2, <2>3 DEF Settled
  <2>. QED  BY <1>3, <2>2, <2>3, <2>4 DEF WaitInv, LimitInv
<1>7. CASE ServeEmpty \/ ServeError \/ ServeStatement \/ ServeBegin \/ ServeEnd \/ ServeCopy
  <2>1. cmd # 1 /\ answer' # "none" /\ backend' # "hung"
    BY <1>4, <1>7
    DEF ServeEmpty, ServeError, ServeStatement, ServeBegin, ServeEnd, ServeCopy, Answer, Fail,
        Succeed
  <2>2. ASSUME PastLimit'  PROVE Settled'
    <3>1. Len(cmd_vec) > 3 /\ PastLimit
      BY <1>1, <1>2, <1>4, <2>1, <2>2 DEF PastLimit
    <3>2. limited \/ lifted \/ tx = "failed"
      BY <1>1, <3>1 DEF WaitInv, LimitInv, Settled
    <3>3. CASE ServeEmpty \/ ServeCopy
      BY <3>1, <3>2, <3>3 DEF ServeEmpty, ServeCopy, Settled, historyVars
    <3>4. CASE ServeError
      <4>1. lifted' = lifted /\ cmd_vec' = cmd_vec
        BY <3>4 DEF ServeError, Fail
      <4>2. CASE tx = "open"
        BY <3>4, <4>2 DEF ServeError, Fail, Settled
      <4>3. CASE tx # "open"
        BY <3>1, <3>2, <3>4, <4>1, <4>3 DEF ServeError, Fail, Settled
      <4>. QED  BY <4>2, <4>3
    <3>5. CASE ServeStatement \/ ServeBegin \/ ServeEnd
      <4>1. \E answers \in SUBSET {"ok", "tuples"} : Succeed(answers)
        <5>1. {"ok"} \in SUBSET {"ok", "tuples"} /\ {"ok", "tuples"} \in SUBSET {"ok", "tuples"}
          OBVIOUS
        <5>. QED  BY <3>5, <5>1 DEF ServeStatement, ServeBegin, ServeEnd
      <4>2. lifted' = (lifted \/ (job.call = calls /\ ~limited')) /\ cmd_vec' = cmd_vec
        BY <4>1 DEF Succeed
      <4>. QED  BY <1>4, <3>1, <4>2 DEF Settled
    <3>. QED  BY <1>7, <3>3, <3>4, <3>5
  <2>. QED  BY <1>3, <2>1, <2>2 DEF WaitInv, LimitInv
<1>8. CASE CancelSlow
  <2>1. Settled'
    BY <1>8 DEF CancelSlow, Fail, Settled
  <2>2. backend' = "idle"
    BY <1>8 DEF CancelSlow, Fail, Answer
  <2>. QED  BY <1>3, <2>1, <2>2 DEF WaitInv, LimitInv
<1>. QED  BY <1>5, <1>6, <1>7, <1>8 DEF Serve

(* Steps of the server and the clock that leave the call where it is.      *)
LEMMA ServerOwes ==
  ASSUME PgInv, WaitInv, Crash \/ Reap \/ Recover \/ TimePasses
  PROVE  WaitInv'
<1>. USE DEF callVars, sessionVars
<1>1. UNCHANGED <<pc, cmd_vec, cmd, link, answer, limited, lifted>>
  BY DEF Crash, Reap, Recover, TimePasses, historyVars
<1>2. \/ UNCHANGED <<backend, tx>>
      \/ backend' \in {"exited", "reaped"}
      \/ backend = "none" /\ backend' = "none"
  BY DEF Crash, Reap, Recover, TimePasses
<1>3. InCall => backend # "none"
  BY DEF PgInv, LinkInv
<1>4. OwedInv'
  BY <1>1, <1>2, <1>3 DEF WaitInv, OwedInv, InCall, Busy, Dead
<1>5. LimitInv'
  BY <1>1, <1>2, <1>3 DEF WaitInv, LimitInv, PastLimit, Settled, InCall, Dead
<1>. QED  BY <1>4, <1>5 DEF WaitInv

(* The thread: outside a call nothing is owed.                             *)
LEMMA OutsideOwes ==
  ASSUME PgInv, pc' \in {"ready", "resetting", "restarting", "waiting"},
         backend' \notin Busy
  PROVE  WaitInv'
BY DEF WaitInv, OwedInv, LimitInv, PastLimit, InCall, Busy

(* The next command follows the one that was read.                         *)
LEMMA NextCommandOwes ==
  ASSUME PgInv, WaitInv, pc = "results", NextCommand, answer' = "none",
         answer # "none" \/ Dead, backend \notin Busy,
         link' = link \/ Dead,
         UNCHANGED <<cmd_vec, backend, tx, limited, lifted>>
  PROVE  WaitInv'
<1>1. InCall
  BY DEF InCall
<1>2. cmd \in 1..Len(cmd_vec) /\ cmd \in Nat /\ cmd_vec \in Commands /\ Len(cmd_vec) \in Nat
  BY <1>1, CallFacts
<1>3. OwedInv'
  BY <1>1 DEF NextCommand, WaitInv, OwedInv, InCall, Dead
<1>4. ASSUME PastLimit'
      PROVE  Settled
  <2>1. pc' = "send" /\ cmd' = cmd + 1 /\ (Len(cmd_vec) > 3 \/ cmd = 1)
    BY <1>2, <1>4 DEF NextCommand, PastLimit
  <2>. QED  BY <1>2, <2>1 DEF WaitInv, LimitInv, PastLimit, Settled
<1>5. LimitInv'
  BY <1>4 DEF LimitInv, Settled, Dead, Busy
<1>. QED  BY <1>3, <1>5 DEF WaitInv

(* Sending a command, and what follows it.                                 *)
LEMMA SendOwes ==
  ASSUME PgInv, WaitInv, Send
  PROVE  WaitInv'
<1>. USE DEF callVars, sessionVars, textVars
<1>1. CASE Prepare
  <2>1. /\ pc' = "send" /\ cmd' = 1 /\ cmd_vec' \in Commands
        /\ UNCHANGED <<link, backend, answer>>
        /\ link = "ok" /\ answer = "none" /\ backend \notin Busy
    BY <1>1 DEF Prepare, check_server_alive, PgInv, LinkInv
  <2>. QED  BY <2>1 DEF WaitInv, OwedInv, LimitInv, PastLimit, Busy
<1>2. CASE SendQuery
  <2>1. InCall /\ pc = "send" /\ pc' = "sent" /\ answer = "none" /\ backend \notin Busy
        /\ backend # "none" /\ backend \in Processes
        /\ UNCHANGED <<cmd_vec, cmd, answer, tx, limited, lifted>>
    BY <1>2 DEF historyVars, SendQuery, InCall, PgInv, LinkInv, TypeOK, SessionTypes
  <2>2. backend = "idle" \/ Dead
    BY <2>1 DEF Processes, Busy, Dead
  <2>3. link = "ok" \/ Dead
    BY <2>1 DEF WaitInv, OwedInv
  <2>4. \/ backend = "idle" /\ link' = "ok" /\ backend' = "running"
        \/ Dead /\ backend' = backend
    BY <1>2, <2>1, <2>2, <2>3 DEF SendQuery, Dead
  <2>5. OwedInv'
    BY <2>1, <2>4 DEF OwedInv, Busy, Dead
  <2>6. LimitInv'
    BY <2>1, <2>4 DEF WaitInv, LimitInv, PastLimit, Settled, Dead
  <2>. QED  BY <2>5, <2>6 DEF WaitInv
<1>3. CASE BackendGone \/ StatusBad
  BY <1>3, OutsideOwes DEF BackendGone, StatusBad, Return, Disconnect, Busy
<1>4. CASE AwaitResults
  <2>1. CASE answer = "copy" /\ job # [call |-> calls, text |-> cmd_vec[cmd]]
    BY <1>4, <2>1, OutsideOwes DEF AwaitResults, Return, Disconnect, Busy
  <2>2. CASE ~(answer = "copy" /\ job # [call |-> calls, text |-> cmd_vec[cmd]])
    BY <1>4, <2>2
    DEF AwaitResults, historyVars, WaitInv, OwedInv, LimitInv, PastLimit, Settled, InCall, Dead
  <2>. QED  BY <2>1, <2>2
<1>. QED  BY <1>1, <1>2, <1>3, <1>4 DEF Send

(* Reading results.                                                        *)
LEMMA ReceiveOwes ==
  ASSUME PgInv, WaitInv, Receive
  PROVE  WaitInv'
<1>. USE DEF callVars, sessionVars, textVars
<1>1. ASSUME NEW text, TimeOut(text)  PROVE WaitInv'
  BY <1>1, OutsideOwes DEF TimeOut, Return, Disconnect, Busy
<1>2. CASE ReadRow
  <2>1. CASE slow
    BY <1>1, <1>2, <2>1 DEF ReadRow
  <2>2. CASE ~slow
    BY <1>2, <2>2
    DEF ReadRow, historyVars, WaitInv, OwedInv, LimitInv, PastLimit, Settled, InCall, Dead
  <2>. QED  BY <2>1, <2>2
<1>3. answer \notin {"none", "copy"} => backend \notin Busy
  BY DEF PgInv, LinkInv, Busy
<1>4. CASE ReadResult
  BY <1>3, <1>4, NextCommandOwes DEF ReadResult, historyVars
<1>5. CASE ReadOther
  <2>1. CASE slow
    BY <1>1, <1>5, <2>1 DEF ReadOther
  <2>2. CASE ~slow
    BY <1>3, <1>5, <2>2, NextCommandOwes DEF ReadOther, historyVars
  <2>. QED  BY <2>1, <2>2
<1>6. CASE ReadFailure
  BY <1>6, NextCommandOwes DEF ReadFailure, historyVars, Dead, Busy
<1>7. CASE Finish
  BY <1>7, OutsideOwes DEF Finish, Return, PgInv, LinkInv
<1>. QED  BY <1>2, <1>4, <1>5, <1>6, <1>7 DEF Receive

(* Every step keeps what is said of the limit.                             *)
LEMMA WaitNext == PgInv /\ WaitInv /\ [Next]_vars => WaitInv'
<1>. SUFFICES ASSUME PgInv, WaitInv, [Next]_vars PROVE WaitInv'
  OBVIOUS
<1>. USE DEF callVars, sessionVars, textVars
<1>1. CASE RestartDbms \/ RunTarget
  BY <1>1, OutsideOwes DEF RestartDbms, RunTarget, PgInv, LinkInv
<1>2. CASE ResetDatabase \/ RestartDone
  BY <1>2, OutsideOwes DEF ResetDatabase, RestartDone, PgInv, LinkInv
<1>3. CASE Reconnect
  BY <1>3, OutsideOwes DEF Reconnect, Waiting, Disconnect, Busy
<1>4. CASE UNCHANGED vars
  BY <1>4 DEF vars, historyVars, WaitInv, OwedInv, LimitInv, PastLimit, Settled, InCall, Dead
<1>. QED
  BY <1>1, <1>2, <1>3, <1>4, ServeOwes, ServerOwes, SendOwes, ReceiveOwes
  DEF Next, Restart

LEMMA WaitInvariant == Spec => []WaitInv
<1>1. Init => WaitInv
  BY DEF Init, WaitInv, OwedInv, LimitInv, PastLimit, InCall
<1>. QED  BY <1>1, WaitNext, PgInvariant, PTL DEF Spec

(* A call that waits for a result gets one: it is there, or it is the end  *)
(* of the connection, or a command is being executed that ends or that the *)
(* limit cancels, whatever transaction the session was left in.            *)
THEOREM WaitsAreLimited == Spec => []WaitIsLimited
<1>1. PgInv /\ WaitInv => WaitIsLimited
  BY DEF PgInv, LinkInv, WaitInv, OwedInv, LimitInv, WaitIsLimited, Busy
<1>. QED  BY <1>1, PgInvariant, WaitInvariant, PTL
=============================================================================
