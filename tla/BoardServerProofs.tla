------------------------- MODULE BoardServerProofs -------------------------
(***************************************************************************)
(* Proofs about BoardServer.  The properties speak of answers already      *)
(* given; the inductive invariant follows a query from the lock to its     *)
(* answer: who holds the lock (LockInv), what the engine context holds for *)
(* the task that is in it (EngineInv), what httpd keeps across the unlock  *)
(* (HttpInv) and which boot checks have run by when (CheckInv).            *)
(***************************************************************************)
EXTENDS BoardServer, TLAPS

InEngine == {"encode", "cross", "decode"}

(* The task in the engine is the holder of the lock, and the holder is in  *)
(* the engine; no lock is given without the mutex.                         *)
LockOf(t) == pc[t] \in InEngine <=> holder = t

LockInv ==
  /\ \A t \in Tasks : LockOf(t)
  /\ pc["console"] \notin {"reply", "failed"}
  /\ holder # None => mutex

(* What the engine context holds for a task at each point of its query.    *)
EngineOf(t) ==
  /\ pc[t] \in {"encode", "cross"} => out[t] = {} /\ steps[t] = 0
  /\ pc[t] = "cross" => enc = query[t]
  /\ pc[t] = "decode" => kv = query[t]
  /\ pc[t] # "idle" => query[t] # None
  /\ pc[t] = "decode" => out[t] = IF steps[t] = 0 THEN {} ELSE {query[t]}

EngineInv == \A t \in Tasks : EngineOf(t)

(* httpd's query, until it is answered.                                    *)
HttpInv ==
  /\ pc["httpd"] # "idle" =>
       /\ client \in Clients /\ sent[client] = query["httpd"]
       /\ query["httpd"] \in Queries
  /\ pc["httpd"] = "reply" => out["httpd"] = {query["httpd"]}
  /\ pc["httpd"] \in {"cross", "decode", "reply"} => path = took

FailedInv == \A check \in Check : checks[check] = "fail" => failed

AllPass == \A check \in Check : checks[check] = "pass"

(* The boot checks: which have been recorded by when.  The smoke query is  *)
(* not, if the lock could not be had, but then nothing is ever served.     *)
CheckInv ==
  /\ FailedInv
  /\ boot # "kernels" => checks["kernels"] # "none"
  /\ boot \notin {"kernels", "determinism"} => checks["determinism"] # "none"
  /\ boot \in {"alignment", "net", "up"} => checks["smoke"] # "none" \/ ~mutex
  /\ boot \in {"net", "up"} => checks["alignment"] # "none"
  /\ server => boot = "up" /\ started
  /\ pc["console"] # "idle" => boot \in {"smoke", "up"}
  /\ pc["httpd"] # "idle" => server /\ AllPass

(* An answer was given by a running server, on a board that passed.         *)
AnsweredOnUp ==
  \A c \in Clients : Served(c) => server /\ \A check \in Check : checks[check] = "pass"

(* The answers given so far.                                               *)
AnswerInv ==
  /\ TokensAreOwn /\ PathIsOwn
  /\ AnsweredOnUp

IInv == TypeOK /\ LockInv /\ EngineInv /\ HttpInv /\ CheckInv /\ AnswerInv

-----------------------------------------------------------------------------

(* Every step keeps the types.                                            *)
LEMMA TypeStep == TypeOK /\ EngineInv /\ [Next]_vars => TypeOK'
<1> SUFFICES ASSUME TypeOK, EngineInv, [Next]_vars PROVE TypeOK'
  OBVIOUS
<1> USE BoardAssumption DEF BoardAssumption, bootVars, netVars, taskVars, engineVars, clientVars,
      TypeOK, Tasks, Check, Requests, Codes
<1>1. CASE KernelTests
  BY <1>1 DEF KernelTests, Record
<1>2. CASE DeterminismTest
  BY <1>2 DEF DeterminismTest, Record
<1>3. CASE SmokeRefused
  BY <1>3 DEF SmokeRefused, CanLock
<1>4. CASE AlignmentTest
  BY <1>4 DEF AlignmentTest, Record
<1>5. CASE NetStart
  BY <1>5 DEF NetStart
<1>6. CASE GotIp
  BY <1>6 DEF GotIp
<1>7. ASSUME NEW q \in Queries \cup {Smoke}, ConsoleQuery(q) PROVE TypeOK'
  BY <1>7 DEF ConsoleQuery, Begin, CanLock, Goto
<1>8. ASSUME NEW t \in Tasks, Encode(t) PROVE TypeOK'
  BY <1>8 DEF Encode, Goto
<1>9. ASSUME NEW t \in Tasks, CrossKV(t) PROVE TypeOK'
  BY <1>9 DEF CrossKV, Goto
<1>10. ASSUME NEW t \in Tasks, DecodeStep(t) PROVE TypeOK'
  <2>1. out' \in [Tasks -> SUBSET (Queries \cup {Smoke, Probe})]
    BY <1>10 DEF DecodeStep, EngineInv, EngineOf
  <2>2. steps' \in [Tasks -> 0 .. MaxSteps]
    BY <1>10 DEF DecodeStep
  <2> QED
    BY <1>10, <2>1, <2>2 DEF DecodeStep
<1>11. CASE ConsoleDone
  <2>1. /\ boot' \in {"kernels", "determinism", "smoke", "alignment", "net", "up"}
        /\ checks' \in [Check -> {"none", "pass", "fail"}] /\ failed' \in BOOLEAN
    <3>1. CASE boot = "smoke"
      <4>1. PICK result \in {"pass", "fail"} : Record("smoke", result)
        BY <1>11, <3>1 DEF ConsoleDone
      <4>2. failed' \in BOOLEAN
        BY <4>1 DEF Record
      <4>3. checks' \in [Check -> {"none", "pass", "fail"}]
        BY <4>1 DEF Record
      <4> QED
        BY <1>11, <3>1, <4>2, <4>3 DEF ConsoleDone
    <3>2. CASE boot # "smoke"
      BY <1>11, <3>2 DEF ConsoleDone
    <3> QED
      BY <3>1, <3>2
  <2> QED
    BY <1>11, <2>1 DEF ConsoleDone, Goto, Finish
<1>12. CASE HttpUnlock
  BY <1>12 DEF HttpUnlock, Goto
<1>13. CASE HttpReply
  <2>1. DOMAIN resp' = Clients
    BY <1>13 DEF HttpReply, Respond
  <2>2. \A c \in Clients : resp'[c] = None \/ resp'[c].code \in {"200", "400", "500", "503", "status", "closed"}
    BY <1>13 DEF HttpReply, Respond
  <2>3. sent' \in [Clients -> Requests \cup {None}]
    BY <1>13 DEF HttpReply, Respond
  <2> QED
    BY <1>13, <2>1, <2>2, <2>3 DEF HttpReply, Respond, Goto, Finish
<1>14. ASSUME NEW c \in Clients, NEW r \in Requests, Send(c, r) PROVE TypeOK'
  BY <1>14 DEF Send
<1>15. ASSUME NEW c \in Clients, RecvFails(c) PROVE TypeOK'
  BY <1>15 DEF RecvFails, Idle, Respond
<1>16. ASSUME NEW c \in Clients, Answer(c) PROVE TypeOK'
  BY <1>16 DEF Answer, Idle, Respond
<1>17. ASSUME NEW c \in Clients, Refuse(c) PROVE TypeOK'
  BY <1>17 DEF Refuse, Idle, Respond, CanLock
<1>18. ASSUME NEW c \in Clients, Serve(c) PROVE TypeOK'
  BY <1>18 DEF Serve, Idle, Begin, CanLock, Goto
<1>20. ASSUME NEW t \in Tasks, EncodeFails(t) PROVE TypeOK'
  BY <1>20 DEF EncodeFails, Goto, Finish
<1>21. CASE HttpFailed
  <2>1. DOMAIN resp' = Clients
    BY <1>21 DEF HttpFailed, Respond
  <2>2. \A c \in Clients : resp'[c] = None \/ resp'[c].code \in {"200", "400", "500", "503", "status", "closed"}
    BY <1>21 DEF HttpFailed, Respond
  <2>3. sent' \in [Clients -> Requests \cup {None}]
    BY <1>21 DEF HttpFailed, Respond
  <2> QED
    BY <1>21, <2>1, <2>2, <2>3 DEF HttpFailed, Respond, Goto, Finish
<1>19. CASE UNCHANGED vars
  BY <1>19 DEF vars
<1> QED
  BY <1>1, <1>2, <1>3, <1>4, <1>5, <1>6, <1>7, <1>8, <1>9,
     <1>10, <1>11, <1>12, <1>13, <1>14, <1>15, <1>16, <1>17, <1>18, <1>19,
     <1>20, <1>21
     DEF Next, Boot, ConsoleStep, HttpStep, Run, Handle, Tasks

(* The lock is taken by a task as it enters the engine, and given back as  *)
(* it leaves.                                                              *)
LEMMA LockStep == TypeOK /\ LockInv /\ [Next]_vars => LockInv'
<1> SUFFICES ASSUME TypeOK, LockInv, [Next]_vars PROVE LockInv'
  OBVIOUS
<1> USE BoardAssumption DEF BoardAssumption, bootVars, netVars, taskVars, engineVars, clientVars,
      TypeOK, LockInv, InEngine, Tasks
<1>1. CASE KernelTests
  BY <1>1 DEF KernelTests, Record, LockOf
<1>2. CASE DeterminismTest
  BY <1>2 DEF DeterminismTest, Record, LockOf
<1>3. CASE SmokeRefused
  BY <1>3 DEF SmokeRefused, CanLock, LockOf
<1>4. CASE AlignmentTest
  BY <1>4 DEF AlignmentTest, Record, LockOf
<1>5. CASE NetStart
  BY <1>5 DEF NetStart, LockOf
<1>6. CASE GotIp
  BY <1>6 DEF GotIp, LockOf
<1>7. ASSUME NEW q \in Queries \cup {Smoke}, ConsoleQuery(q) PROVE LockInv'
  <2>1. ASSUME NEW u \in Tasks PROVE LockOf(u)'
    BY <1>7 DEF ConsoleQuery, Begin, CanLock, Goto, LockOf
  <2>2. pc'["console"] \notin {"reply", "failed"} /\ (holder' # None => mutex')
    BY <1>7 DEF ConsoleQuery, Begin, CanLock, Goto, LockOf
  <2> QED
    BY <2>1, <2>2
<1>8. ASSUME NEW t \in Tasks, Encode(t) PROVE LockInv'
  BY <1>8 DEF Encode, Goto, LockOf
<1>9. ASSUME NEW t \in Tasks, CrossKV(t) PROVE LockInv'
  BY <1>9 DEF CrossKV, Goto, LockOf
<1>10. ASSUME NEW t \in Tasks, DecodeStep(t) PROVE LockInv'
  BY <1>10 DEF DecodeStep, LockOf
<1>11. CASE ConsoleDone
  <2>1. ASSUME NEW u \in Tasks PROVE LockOf(u)'
    BY <1>11 DEF ConsoleDone, Goto, Finish, LockOf
  <2>2. pc'["console"] \notin {"reply", "failed"} /\ (holder' # None => mutex')
    BY <1>11 DEF ConsoleDone, Goto, Finish, LockOf
  <2> QED
    BY <2>1, <2>2
<1>12. CASE HttpUnlock
  <2>1. ASSUME NEW u \in Tasks PROVE LockOf(u)'
    BY <1>12 DEF HttpUnlock, Goto, LockOf
  <2>2. pc'["console"] \notin {"reply", "failed"} /\ (holder' # None => mutex')
    BY <1>12 DEF HttpUnlock, Goto, LockOf
  <2> QED
    BY <2>1, <2>2
<1>13. CASE HttpReply
  <2>1. ASSUME NEW u \in Tasks PROVE LockOf(u)'
    BY <1>13 DEF HttpReply, Goto, Finish, LockOf
  <2>2. pc'["console"] \notin {"reply", "failed"} /\ (holder' # None => mutex')
    BY <1>13 DEF HttpReply, Goto, Finish, LockOf
  <2> QED
    BY <2>1, <2>2
<1>14. ASSUME NEW c \in Clients, NEW r \in Requests, Send(c, r) PROVE LockInv'
  BY <1>14 DEF Send, LockOf
<1>15. ASSUME NEW c \in Clients, RecvFails(c) PROVE LockInv'
  BY <1>15 DEF RecvFails, Idle, Respond, LockOf
<1>16. ASSUME NEW c \in Clients, Answer(c) PROVE LockInv'
  BY <1>16 DEF Answer, Idle, Respond, LockOf
<1>17. ASSUME NEW c \in Clients, Refuse(c) PROVE LockInv'
  BY <1>17 DEF Refuse, Idle, Respond, CanLock, LockOf
<1>18. ASSUME NEW c \in Clients, Serve(c) PROVE LockInv'
  <2>1. ASSUME NEW u \in Tasks PROVE LockOf(u)'
    BY <1>18 DEF Serve, Idle, Begin, CanLock, Goto, LockOf
  <2>2. pc'["console"] \notin {"reply", "failed"} /\ (holder' # None => mutex')
    BY <1>18 DEF Serve, Idle, Begin, CanLock, Goto, LockOf
  <2> QED
    BY <2>1, <2>2
<1>20. ASSUME NEW t \in Tasks, EncodeFails(t) PROVE LockInv'
  <2>1. ASSUME NEW u \in Tasks PROVE LockOf(u)'
    BY <1>20 DEF EncodeFails, Goto, Finish, LockOf
  <2>2. pc'["console"] \notin {"reply", "failed"} /\ (holder' # None => mutex')
    BY <1>20 DEF EncodeFails, Goto, Finish, LockOf
  <2> QED
    BY <2>1, <2>2
<1>21. CASE HttpFailed
  <2>1. ASSUME NEW u \in Tasks PROVE LockOf(u)'
    BY <1>21 DEF HttpFailed, Goto, Finish, LockOf
  <2>2. pc'["console"] \notin {"reply", "failed"} /\ (holder' # None => mutex')
    BY <1>21 DEF HttpFailed, Goto, Finish, LockOf
  <2> QED
    BY <2>1, <2>2
<1>19. CASE UNCHANGED vars
  BY <1>19 DEF vars, LockOf
<1> QED
  BY <1>1, <1>2, <1>3, <1>4, <1>5, <1>6, <1>7, <1>8, <1>9,
     <1>10, <1>11, <1>12, <1>13, <1>14, <1>15, <1>16, <1>17, <1>18, <1>19,
     <1>20, <1>21
     DEF Next, Boot, ConsoleStep, HttpStep, Run, Handle, Tasks

(* Nobody but the holder of the lock touches the engine context.           *)
LEMMA EngineStep == TypeOK /\ LockInv /\ HttpInv /\ CheckInv /\ EngineInv /\ [Next]_vars => EngineInv'
<1> SUFFICES ASSUME TypeOK, LockInv, HttpInv, CheckInv, EngineInv, [Next]_vars PROVE EngineInv'
  OBVIOUS
<1> USE BoardAssumption DEF BoardAssumption, bootVars, netVars, taskVars, engineVars, clientVars,
      TypeOK, LockInv, CheckInv, EngineInv, InEngine, Tasks
<1>1. CASE KernelTests
  BY <1>1 DEF KernelTests, Record, EngineOf
<1>2. CASE DeterminismTest
  <2>1. ASSUME NEW u \in Tasks PROVE EngineOf(u)'
    BY <1>2 DEF DeterminismTest, Record, EngineOf
  <2> QED
    BY <2>1
<1>3. CASE SmokeRefused
  BY <1>3 DEF SmokeRefused, CanLock, EngineOf
<1>4. CASE AlignmentTest
  BY <1>4 DEF AlignmentTest, Record, EngineOf
<1>5. CASE NetStart
  BY <1>5 DEF NetStart, EngineOf
<1>6. CASE GotIp
  BY <1>6 DEF GotIp, EngineOf
<1>7. ASSUME NEW q \in Queries \cup {Smoke}, ConsoleQuery(q) PROVE EngineInv'
  <2>1. ASSUME NEW u \in Tasks PROVE EngineOf(u)'
    BY <1>7 DEF ConsoleQuery, Begin, CanLock, Goto, EngineOf
  <2> QED
    BY <2>1
<1>8. ASSUME NEW t \in Tasks, Encode(t) PROVE EngineInv'
  <2>1. ASSUME NEW u \in Tasks PROVE EngineOf(u)'
    BY <1>8 DEF Encode, Goto, LockOf, EngineOf
  <2> QED
    BY <2>1
<1>9. ASSUME NEW t \in Tasks, CrossKV(t) PROVE EngineInv'
  <2>1. ASSUME NEW u \in Tasks PROVE EngineOf(u)'
    BY <1>9 DEF CrossKV, Goto, LockOf, EngineOf
  <2> QED
    BY <2>1
<1>10. ASSUME NEW t \in Tasks, DecodeStep(t) PROVE EngineInv'
  <2>1. steps[t] \in Nat /\ steps'[t] = steps[t] + 1 /\ steps'[t] # 0
    BY <1>10 DEF DecodeStep
  <2>2. pc[t] = "decode" /\ out'[t] = out[t] \cup {query[t]}
    BY <1>10 DEF DecodeStep, EngineOf
  <2>3. out'[t] = {query[t]}
    BY <2>2 DEF EngineOf
  <2>4. ASSUME NEW u \in Tasks PROVE EngineOf(u)'
    <3>1. CASE u = t
      BY <1>10, <2>1, <2>2, <2>3, <3>1 DEF DecodeStep, EngineOf
    <3>2. CASE u # t
      <4>1. out'[u] = out[u] /\ steps'[u] = steps[u]
        BY <1>10, <3>2 DEF DecodeStep
      <4> QED
        BY <1>10, <4>1 DEF DecodeStep, EngineOf
    <3> QED
      BY <3>1, <3>2
  <2> QED
    BY <2>4
<1>11. CASE ConsoleDone
  BY <1>11 DEF ConsoleDone, Record, Goto, Finish, EngineOf
<1>12. CASE HttpUnlock
  BY <1>12 DEF HttpUnlock, Goto, EngineOf
<1>13. CASE HttpReply
  BY <1>13 DEF HttpReply, Respond, Goto, Finish, EngineOf
<1>14. ASSUME NEW c \in Clients, NEW r \in Requests, Send(c, r) PROVE EngineInv'
  BY <1>14 DEF Send, EngineOf
<1>15. ASSUME NEW c \in Clients, RecvFails(c) PROVE EngineInv'
  BY <1>15 DEF RecvFails, Idle, Respond, EngineOf
<1>16. ASSUME NEW c \in Clients, Answer(c) PROVE EngineInv'
  BY <1>16 DEF Answer, Idle, Respond, EngineOf
<1>17. ASSUME NEW c \in Clients, Refuse(c) PROVE EngineInv'
  BY <1>17 DEF Refuse, Idle, Respond, CanLock, EngineOf
<1>18. ASSUME NEW c \in Clients, Serve(c) PROVE EngineInv'
  <2>1. ASSUME NEW u \in Tasks PROVE EngineOf(u)'
    BY <1>18 DEF Serve, Idle, Begin, CanLock, Goto, EngineOf
  <2> QED
    BY <2>1
<1>20. ASSUME NEW t \in Tasks, EncodeFails(t) PROVE EngineInv'
  <2>1. ASSUME NEW u \in Tasks PROVE EngineOf(u)'
    BY <1>20 DEF EncodeFails, Goto, Finish, LockOf, EngineOf
  <2> QED
    BY <2>1
<1>21. CASE HttpFailed
  BY <1>21 DEF HttpFailed, Respond, Goto, Finish, EngineOf
<1>19. CASE UNCHANGED vars
  BY <1>19 DEF vars, EngineOf
<1> QED
  BY <1>1, <1>2, <1>3, <1>4, <1>5, <1>6, <1>7, <1>8, <1>9,
     <1>10, <1>11, <1>12, <1>13, <1>14, <1>15, <1>16, <1>17, <1>18, <1>19,
     <1>20, <1>21
     DEF Next, Boot, ConsoleStep, HttpStep, Run, Handle, Tasks

(* What recording a check changes.                                         *)
LEMMA RecordFacts ==
  ASSUME NEW check \in Check, NEW result \in {"pass", "fail"}, TypeOK, FailedInv,
         Record(check, result)
  PROVE  /\ FailedInv'
         /\ checks'[check] # "none"
         /\ \A other \in Check : other # check => checks'[other] = checks[other]
<1>1. /\ checks'[check] = result
      /\ \A other \in Check : other # check => checks'[other] = checks[other]
  BY DEF Record, TypeOK
<1>2. (failed \/ result = "fail") => failed'
  BY DEF Record
<1>3. ASSUME NEW any \in Check, checks'[any] = "fail" PROVE failed'
  <2>1. CASE any = check
    <3>1. result = "fail"
      BY <1>1, <1>3, <2>1
    <3> QED
      BY <3>1, <1>2
  <2>2. CASE any # check
    <3>1. checks[any] = "fail"
      BY <1>1, <1>3, <2>2
    <3>2. failed
      BY <3>1, Zenon DEF FailedInv
    <3> QED
      BY <3>2, <1>2
  <2> QED
    BY <2>1, <2>2
<1>4. FailedInv'
  BY <1>3, Zenon DEF FailedInv
<1> QED
  BY <1>1, <1>4

(* httpd's request, tokens and path are still there when it answers.       *)
LEMMA HttpStepInv == TypeOK /\ EngineInv /\ HttpInv /\ [Next]_vars => HttpInv'
<1> SUFFICES ASSUME TypeOK, EngineInv, HttpInv, [Next]_vars PROVE HttpInv'
  OBVIOUS
<1> USE BoardAssumption DEF BoardAssumption, bootVars, netVars, taskVars, engineVars, clientVars,
      TypeOK, HttpInv, Tasks
<1>1. CASE KernelTests
  BY <1>1 DEF KernelTests, Record
<1>2. CASE DeterminismTest
  BY <1>2 DEF DeterminismTest, Record
<1>3. CASE SmokeRefused
  BY <1>3 DEF SmokeRefused, CanLock
<1>4. CASE AlignmentTest
  BY <1>4 DEF AlignmentTest, Record
<1>5. CASE NetStart
  BY <1>5 DEF NetStart
<1>6. CASE GotIp
  BY <1>6 DEF GotIp
<1>7. ASSUME NEW q \in Queries \cup {Smoke}, ConsoleQuery(q) PROVE HttpInv'
  BY <1>7 DEF ConsoleQuery, Begin, CanLock, Goto
<1>8. ASSUME NEW t \in Tasks, Encode(t) PROVE HttpInv'
  BY <1>8 DEF Encode, Goto
<1>9. ASSUME NEW t \in Tasks, CrossKV(t) PROVE HttpInv'
  BY <1>9 DEF CrossKV, Goto
<1>10. ASSUME NEW t \in Tasks, DecodeStep(t) PROVE HttpInv'
  BY <1>10 DEF DecodeStep
<1>11. CASE ConsoleDone
  BY <1>11 DEF ConsoleDone, Record, Goto, Finish
<1>12. CASE HttpUnlock
  <2>1. EngineOf("httpd")
    BY DEF EngineInv
  <2>2. out["httpd"] = {query["httpd"]}
    BY <1>12, <2>1 DEF HttpUnlock, EngineOf
  <2> QED
    BY <1>12, <2>2 DEF HttpUnlock, Goto
<1>13. CASE HttpReply
  <2>1. pc'["httpd"] = "idle"
    BY <1>13 DEF HttpReply, Goto, Finish
  <2> QED
    BY <2>1
<1>14. ASSUME NEW c \in Clients, NEW r \in Requests, Send(c, r) PROVE HttpInv'
  BY <1>14 DEF Send
<1>15. ASSUME NEW c \in Clients, RecvFails(c) PROVE HttpInv'
  BY <1>15 DEF RecvFails, Idle, Respond
<1>16. ASSUME NEW c \in Clients, Answer(c) PROVE HttpInv'
  BY <1>16 DEF Answer, Idle, Respond
<1>17. ASSUME NEW c \in Clients, Refuse(c) PROVE HttpInv'
  BY <1>17 DEF Refuse, Idle, Respond, CanLock
<1>18. ASSUME NEW c \in Clients, Serve(c) PROVE HttpInv'
  <2>1. pc'["httpd"] = "encode" /\ client' = c /\ query'["httpd"] = sent[c]
    BY <1>18 DEF Serve, Begin, Goto
  <2> QED
    BY <1>18, <2>1 DEF Serve
<1>20. ASSUME NEW t \in Tasks, EncodeFails(t) PROVE HttpInv'
  BY <1>20 DEF EncodeFails, Goto, Finish
<1>21. CASE HttpFailed
  <2>1. pc'["httpd"] = "idle"
    BY <1>21 DEF HttpFailed, Goto, Finish
  <2> QED
    BY <2>1
<1>19. CASE UNCHANGED vars
  BY <1>19 DEF vars
<1> QED
  BY <1>1, <1>2, <1>3, <1>4, <1>5, <1>6, <1>7, <1>8, <1>9,
     <1>10, <1>11, <1>12, <1>13, <1>14, <1>15, <1>16, <1>17, <1>18, <1>19,
     <1>20, <1>21
     DEF Next, Boot, ConsoleStep, HttpStep, Run, Handle, Tasks

(* No check is recorded once the server may run, and it runs a query only  *)
(* if none failed.                                                         *)
LEMMA CheckStep == TypeOK /\ LockInv /\ CheckInv /\ [Next]_vars => CheckInv'
<1> SUFFICES ASSUME TypeOK, LockInv, CheckInv, [Next]_vars PROVE CheckInv'
  OBVIOUS
<1> USE BoardAssumption DEF BoardAssumption, bootVars, netVars, taskVars, engineVars, clientVars,
      TypeOK, CheckInv, AllPass, Tasks
<1>1. CASE KernelTests
  <2>1. PICK result \in {"pass", "fail"} : Record("kernels", result)
    BY <1>1 DEF KernelTests
  <2>2. /\ FailedInv'
        /\ checks'["kernels"] # "none"
        /\ \A other \in Check : other # "kernels" => checks'[other] = checks[other]
    BY <2>1, RecordFacts DEF Check
  <2>3. pc' = pc /\ server' = server /\ mutex' = mutex /\ boot' = "determinism"
    BY <1>1 DEF KernelTests
  <2>4. ~server /\ pc["console"] = "idle" /\ pc["httpd"] = "idle"
    BY <1>1 DEF KernelTests
  <2> QED
    BY <1>1, <2>2, <2>3, <2>4 DEF KernelTests, Check
<1>2. CASE DeterminismTest
  <2>1. PICK result \in {"pass", "fail"} : Record("determinism", result)
    BY <1>2 DEF DeterminismTest
  <2>2. /\ FailedInv'
        /\ checks'["determinism"] # "none"
        /\ \A other \in Check : other # "determinism" => checks'[other] = checks[other]
    BY <2>1, RecordFacts DEF Check
  <2>3. pc' = pc /\ server' = server /\ mutex' = mutex /\ boot' = "smoke"
    BY <1>2 DEF DeterminismTest
  <2>4. ~server /\ pc["console"] = "idle" /\ pc["httpd"] = "idle"
    BY <1>2 DEF DeterminismTest
  <2> QED
    BY <1>2, <2>2, <2>3, <2>4 DEF DeterminismTest, Check
<1>3. CASE SmokeRefused
  <2>1. ~server /\ pc["httpd"] = "idle"
    BY <1>3 DEF SmokeRefused
  <2>2. holder = None
    BY <1>3, <2>1 DEF SmokeRefused, LockInv, LockOf, InEngine
  <2>3. ~mutex
    BY <1>3, <2>2 DEF SmokeRefused, CanLock
  <2>4. FailedInv'
    BY <1>3 DEF SmokeRefused, FailedInv
  <2> QED
    BY <1>3, <2>1, <2>3, <2>4 DEF SmokeRefused
<1>4. CASE AlignmentTest
  <2>1. PICK result \in {"pass", "fail"} : Record("alignment", result)
    BY <1>4 DEF AlignmentTest
  <2>2. /\ FailedInv'
        /\ checks'["alignment"] # "none"
        /\ \A other \in Check : other # "alignment" => checks'[other] = checks[other]
    BY <2>1, RecordFacts DEF Check
  <2>3. pc' = pc /\ server' = server /\ mutex' = mutex /\ boot' = "net"
    BY <1>4 DEF AlignmentTest
  <2>4. ~server /\ pc["console"] = "idle" /\ pc["httpd"] = "idle"
    BY <1>4 DEF AlignmentTest
  <2> QED
    BY <1>4, <2>2, <2>3, <2>4 DEF AlignmentTest, Check
<1>5. CASE NetStart
  BY <1>5 DEF NetStart, FailedInv
<1>6. CASE GotIp
  <2>1. FailedInv'
    BY <1>6 DEF GotIp, FailedInv
  <2>2. ~server /\ boot = "up" /\ started'
    BY <1>6 DEF GotIp
  <2> QED
    BY <1>6, <2>1, <2>2 DEF GotIp
<1>7. ASSUME NEW q \in Queries \cup {Smoke}, ConsoleQuery(q) PROVE CheckInv'
  BY <1>7 DEF ConsoleQuery, Begin, CanLock, Goto, FailedInv
<1>8. ASSUME NEW t \in Tasks, Encode(t) PROVE CheckInv'
  BY <1>8 DEF Encode, Goto, FailedInv
<1>9. ASSUME NEW t \in Tasks, CrossKV(t) PROVE CheckInv'
  BY <1>9 DEF CrossKV, Goto, FailedInv
<1>10. ASSUME NEW t \in Tasks, DecodeStep(t) PROVE CheckInv'
  BY <1>10 DEF DecodeStep, FailedInv
<1>11. CASE ConsoleDone
  <2>1. CASE boot = "smoke"
    <3>1. PICK result \in {"pass", "fail"} : Record("smoke", result)
      BY <1>11, <2>1 DEF ConsoleDone
    <3>2. /\ FailedInv'
          /\ checks'["smoke"] # "none"
          /\ \A other \in Check : other # "smoke" => checks'[other] = checks[other]
      BY <3>1, RecordFacts DEF Check
    <3>3. ~server /\ pc["httpd"] = "idle"
      BY <2>1
    <3>4. pc'["console"] = "idle" /\ pc'["httpd"] = "idle" /\ boot' = "alignment" /\ UNCHANGED netVars
      BY <1>11, <2>1, <3>3 DEF ConsoleDone, Goto, Finish
    <3> QED
      BY <2>1, <3>2, <3>3, <3>4 DEF Check
  <2>2. CASE boot # "smoke"
    <3>1. checks' = checks /\ boot' = boot /\ mutex' = mutex /\ UNCHANGED netVars
      BY <1>11, <2>2 DEF ConsoleDone
    <3>2. FailedInv'
      BY <1>11, <2>2 DEF ConsoleDone, FailedInv
    <3>3. pc'["console"] = "idle" /\ pc'["httpd"] = pc["httpd"]
      BY <1>11 DEF ConsoleDone, Goto, Finish
    <3> QED
      BY <3>1, <3>2, <3>3
  <2> QED
    BY <2>1, <2>2
<1>12. CASE HttpUnlock
  BY <1>12 DEF HttpUnlock, Goto, FailedInv
<1>13. CASE HttpReply
  BY <1>13 DEF HttpReply, Respond, Goto, Finish, FailedInv
<1>14. ASSUME NEW c \in Clients, NEW r \in Requests, Send(c, r) PROVE CheckInv'
  BY <1>14 DEF Send, FailedInv
<1>15. ASSUME NEW c \in Clients, RecvFails(c) PROVE CheckInv'
  BY <1>15 DEF RecvFails, Idle, Respond, FailedInv
<1>16. ASSUME NEW c \in Clients, Answer(c) PROVE CheckInv'
  BY <1>16 DEF Answer, Idle, Respond, FailedInv
<1>17. ASSUME NEW c \in Clients, Refuse(c) PROVE CheckInv'
  BY <1>17 DEF Refuse, Idle, Respond, CanLock, FailedInv
<1>18. ASSUME NEW c \in Clients, Serve(c) PROVE CheckInv'
  <2>1. ASSUME NEW check \in Check PROVE checks[check] = "pass"
    <3>1. server /\ mutex /\ boot = "up"
      BY <1>18 DEF Serve, Idle, CanLock
    <3>2. checks[check] # "none"
      BY <3>1 DEF Check
    <3>3. ~failed
      BY <1>18 DEF Serve
    <3>4. checks[check] # "fail"
      BY <3>3, Zenon DEF FailedInv
    <3> QED
      BY <3>2, <3>4
  <2>2. FailedInv'
    BY <1>18 DEF Serve, FailedInv
  <2>3. pc'["console"] = pc["console"] /\ checks' = checks /\ boot' = boot /\ mutex' = mutex /\ server' = server
    BY <1>18 DEF Serve, Goto, Begin
  <2> QED
    BY <1>18, <2>1, <2>2, <2>3 DEF Serve, Idle
<1>20. ASSUME NEW t \in Tasks, EncodeFails(t) PROVE CheckInv'
  BY <1>20 DEF EncodeFails, Goto, Finish, FailedInv
<1>21. CASE HttpFailed
  BY <1>21 DEF HttpFailed, Respond, Goto, Finish, FailedInv
<1>19. CASE UNCHANGED vars
  BY <1>19 DEF vars, FailedInv
<1> QED
  BY <1>1, <1>2, <1>3, <1>4, <1>5, <1>6, <1>7, <1>8, <1>9,
     <1>10, <1>11, <1>12, <1>13, <1>14, <1>15, <1>16, <1>17, <1>18, <1>19,
     <1>20, <1>21
     DEF Next, Boot, ConsoleStep, HttpStep, Run, Handle, Tasks

(* An answer is httpd's query as it was run; nothing else writes one.       *)
LEMMA AnswerStep == TypeOK /\ EngineInv /\ HttpInv /\ CheckInv /\ AnswerInv /\ [Next]_vars => AnswerInv'
<1> SUFFICES ASSUME TypeOK, EngineInv, HttpInv, CheckInv, AnswerInv, [Next]_vars PROVE AnswerInv'
  OBVIOUS
<1> USE BoardAssumption DEF BoardAssumption, bootVars, netVars, taskVars, engineVars, clientVars,
      TypeOK, AnswerInv, TokensAreOwn, PathIsOwn, Served, Tasks
<1>1. CASE KernelTests
  <2>1. ~server
    BY <1>1 DEF KernelTests, CheckInv
  <2>2. \A c \in Clients : ~Served(c)
    BY <2>1 DEF AnsweredOnUp
  <2>3. resp' = resp /\ printed' = printed
    BY <1>1 DEF KernelTests
  <2> QED
    BY <2>2, <2>3 DEF AnsweredOnUp
<1>2. CASE DeterminismTest
  <2>1. ~server
    BY <1>2 DEF DeterminismTest, CheckInv
  <2>2. \A c \in Clients : ~Served(c)
    BY <2>1 DEF AnsweredOnUp
  <2>3. resp' = resp /\ printed' = printed
    BY <1>2 DEF DeterminismTest
  <2> QED
    BY <2>2, <2>3 DEF AnsweredOnUp
<1>3. CASE SmokeRefused
  BY <1>3 DEF SmokeRefused, AnsweredOnUp
<1>4. CASE AlignmentTest
  <2>1. ~server
    BY <1>4 DEF AlignmentTest, CheckInv
  <2>2. \A c \in Clients : ~Served(c)
    BY <2>1 DEF AnsweredOnUp
  <2>3. resp' = resp /\ printed' = printed
    BY <1>4 DEF AlignmentTest
  <2> QED
    BY <2>2, <2>3 DEF AnsweredOnUp
<1>5. CASE NetStart
  BY <1>5 DEF NetStart, AnsweredOnUp
<1>6. CASE GotIp
  <2>1. ~server
    BY <1>6 DEF GotIp, CheckInv
  <2>2. \A c \in Clients : ~Served(c)
    BY <2>1 DEF AnsweredOnUp
  <2>3. resp' = resp /\ printed' = printed
    BY <1>6 DEF GotIp
  <2> QED
    BY <2>2, <2>3 DEF AnsweredOnUp
<1>7. ASSUME NEW q \in Queries \cup {Smoke}, ConsoleQuery(q) PROVE AnswerInv'
  BY <1>7 DEF ConsoleQuery, AnsweredOnUp
<1>8. ASSUME NEW t \in Tasks, Encode(t) PROVE AnswerInv'
  BY <1>8 DEF Encode, AnsweredOnUp
<1>9. ASSUME NEW t \in Tasks, CrossKV(t) PROVE AnswerInv'
  BY <1>9 DEF CrossKV, AnsweredOnUp
<1>10. ASSUME NEW t \in Tasks, DecodeStep(t) PROVE AnswerInv'
  BY <1>10 DEF DecodeStep, AnsweredOnUp
<1>11. CASE ConsoleDone
  <2>1. EngineOf("console")
    BY DEF EngineInv
  <2>2. printed'.tokens = {printed'.ids}
    BY <1>11, <2>1 DEF ConsoleDone, EngineOf
  <2>3. resp' = resp /\ server' = server
    BY <1>11 DEF ConsoleDone
  <2>4. server => checks' = checks
    BY <1>11 DEF ConsoleDone, CheckInv
  <2> QED
    BY <2>2, <2>3, <2>4 DEF AnsweredOnUp
<1>12. CASE HttpUnlock
  BY <1>12 DEF HttpUnlock, AnsweredOnUp
<1>13. CASE HttpReply
  <2>1. client \in Clients /\ sent[client] = query["httpd"] /\ out["httpd"] = {query["httpd"]} /\ path = took
    BY <1>13 DEF HttpReply, HttpInv
  <2>2. /\ resp'[client].tokens = {resp'[client].asked}
        /\ resp'[client].path = resp'[client].took
    BY <1>13, <2>1 DEF HttpReply, Respond
  <2>3. \A c \in Clients : c # client => resp'[c] = resp[c]
    BY <1>13 DEF HttpReply, Respond
  <2>4. printed' = printed /\ checks' = checks /\ server' = server
    BY <1>13 DEF HttpReply
  <2>5. server /\ \A check \in Check : checks[check] = "pass"
    BY <1>13 DEF HttpReply, CheckInv, AllPass
  <2> QED
    BY <2>2, <2>3, <2>4, <2>5 DEF AnsweredOnUp
<1>14. ASSUME NEW c \in Clients, NEW r \in Requests, Send(c, r) PROVE AnswerInv'
  <2>1. resp'[c] = None \/ resp'[c].code # "200"
    BY <1>14 DEF Send
  <2>2. \A other \in Clients : other # c => resp'[other] = resp[other]
    BY <1>14 DEF Send
  <2>3. printed' = printed /\ checks' = checks /\ server' = server
    BY <1>14 DEF Send
  <2> QED
    BY <2>1, <2>2, <2>3 DEF AnsweredOnUp
<1>15. ASSUME NEW c \in Clients, RecvFails(c) PROVE AnswerInv'
  <2>1. resp'[c] = None \/ resp'[c].code # "200"
    BY <1>15 DEF RecvFails, Respond
  <2>2. \A other \in Clients : other # c => resp'[other] = resp[other]
    BY <1>15 DEF RecvFails, Respond
  <2>3. printed' = printed /\ checks' = checks /\ server' = server
    BY <1>15 DEF RecvFails
  <2> QED
    BY <2>1, <2>2, <2>3 DEF AnsweredOnUp
<1>16. ASSUME NEW c \in Clients, Answer(c) PROVE AnswerInv'
  <2>1. resp'[c] = None \/ resp'[c].code # "200"
    BY <1>16 DEF Answer, Respond
  <2>2. \A other \in Clients : other # c => resp'[other] = resp[other]
    BY <1>16 DEF Answer, Respond
  <2>3. printed' = printed /\ checks' = checks /\ server' = server
    BY <1>16 DEF Answer
  <2> QED
    BY <2>1, <2>2, <2>3 DEF AnsweredOnUp
<1>17. ASSUME NEW c \in Clients, Refuse(c) PROVE AnswerInv'
  <2>1. resp'[c] = None \/ resp'[c].code # "200"
    BY <1>17 DEF Refuse, Respond
  <2>2. \A other \in Clients : other # c => resp'[other] = resp[other]
    BY <1>17 DEF Refuse, Respond
  <2>3. printed' = printed /\ checks' = checks /\ server' = server
    BY <1>17 DEF Refuse
  <2> QED
    BY <2>1, <2>2, <2>3 DEF AnsweredOnUp
<1>18. ASSUME NEW c \in Clients, Serve(c) PROVE AnswerInv'
  BY <1>18 DEF Serve, AnsweredOnUp
<1>20. ASSUME NEW t \in Tasks, EncodeFails(t) PROVE AnswerInv'
  BY <1>20 DEF EncodeFails, AnsweredOnUp
<1>21. CASE HttpFailed
  <2>1. client \in Clients
    BY <1>21 DEF HttpFailed, HttpInv
  <2>2. resp'[client].code = "500"
    BY <1>21, <2>1 DEF HttpFailed, Respond
  <2>3. \A other \in Clients : other # client => resp'[other] = resp[other]
    BY <1>21 DEF HttpFailed, Respond
  <2>4. printed' = printed /\ checks' = checks /\ server' = server
    BY <1>21 DEF HttpFailed
  <2> QED
    BY <2>1, <2>2, <2>3, <2>4 DEF AnsweredOnUp
<1>19. CASE UNCHANGED vars
  BY <1>19 DEF vars, AnsweredOnUp
<1> QED
  BY <1>1, <1>2, <1>3, <1>4, <1>5, <1>6, <1>7, <1>8, <1>9,
     <1>10, <1>11, <1>12, <1>13, <1>14, <1>15, <1>16, <1>17, <1>18, <1>19,
     <1>20, <1>21
     DEF Next, Boot, ConsoleStep, HttpStep, Run, Handle, Tasks

(* The invariant holds as app_main reaches its self-tests: nothing has run  *)
(* and nothing was answered.                                               *)
LEMMA InitInv == Init => IInv
<1> SUFFICES ASSUME Init PROVE IInv
  OBVIOUS
<1> USE BoardAssumption DEF BoardAssumption, Init, Tasks, Check
<1>1. TypeOK
  <2>1. /\ boot \in {"kernels", "determinism", "smoke", "alignment", "net", "up"}
        /\ checks \in [Check -> {"none", "pass", "fail"}]
        /\ failed \in BOOLEAN /\ mutex \in BOOLEAN /\ started \in BOOLEAN /\ server \in BOOLEAN
        /\ holder \in Tasks \cup {None}
    OBVIOUS
  <2>2. /\ pc \in [Tasks -> {"idle", "encode", "cross", "decode", "reply", "failed"}]
        /\ query \in [Tasks -> Queries \cup {Smoke, None}]
        /\ out \in [Tasks -> SUBSET (Queries \cup {Smoke, Probe})]
        /\ steps \in [Tasks -> 0 .. MaxSteps]
    OBVIOUS
  <2>3. /\ sent \in [Clients -> Requests \cup {None}]
        /\ midway \in [Clients -> BOOLEAN]
        /\ DOMAIN resp = Clients
        /\ \A c \in Clients : resp[c] = None
    OBVIOUS
  <2> QED
    BY <2>1, <2>2, <2>3 DEF TypeOK
<1>2. LockInv
  BY DEF LockInv, LockOf, InEngine
<1>3. EngineInv
  BY DEF EngineInv, EngineOf
<1>4. HttpInv
  BY DEF HttpInv
<1>5. CheckInv
  BY DEF CheckInv, FailedInv
<1>6. AnswerInv
  BY DEF AnswerInv, AnsweredOnUp, TokensAreOwn, PathIsOwn, Served
<1> QED
  BY <1>1, <1>2, <1>3, <1>4, <1>5, <1>6 DEF IInv

(* IInv is inductive.                                                      *)
THEOREM Invariance == Spec => []IInv
<1>1. Init => IInv
  BY InitInv
<1>2. IInv /\ [Next]_vars => IInv'
  BY TypeStep, LockStep, EngineStep, HttpStepInv, CheckStep, AnswerStep DEF IInv
<1> QED
  BY <1>1, <1>2, PTL DEF Spec

(* Every variable keeps its type, and a task never makes more than the      *)
(* bound's steps.                                                          *)
THEOREM TypeCorrect == Spec => []TypeOK
<1>1. IInv => TypeOK
  BY DEF IInv
<1> QED
  BY <1>1, Invariance, PTL

(* Two callers never interleave inside the engine: whatever is answered or  *)
(* printed was decoded from the encoding of the very ids that were asked    *)
(* (net.c:63-66).                                                          *)
THEOREM TokensOwn == Spec => []TokensAreOwn
<1>1. IInv => TokensAreOwn
  BY DEF IInv, AnswerInv
<1> QED
  BY <1>1, Invariance, PTL

(* h_tokens may read g_infer_path after the unlock: it still names the path *)
(* of the query being answered, since only httpd writes it.                *)
THEOREM PathOwn == Spec => []PathIsOwn
<1>1. IInv => PathIsOwn
  BY DEF IInv, AnswerInv
<1> QED
  BY <1>1, Invariance, PTL

(* Only a board whose four boot checks ran and passed serves a query.       *)
THEOREM ServedAfterChecks == Spec => []ServedOnlyAfterChecks
<1>1. IInv => ServedOnlyAfterChecks
  BY DEF IInv, AnswerInv, AnsweredOnUp, ServedOnlyAfterChecks
<1> QED
  BY <1>1, Invariance, PTL

(* "busy" is the truth: httpd itself is idle when it asks for the lock, so  *)
(* the console holds it, or the mutex was never created.                   *)
THEOREM BusyTrue == Spec => BusyIsTrue
<1> DEFINE Fair(c) == resp'[c] # resp[c] /\ resp'[c] # None /\ resp'[c].code = "503" =>
                        holder = "console" \/ ~mutex
<1>1. ASSUME IInv, [Next]_vars, NEW c \in Clients PROVE Fair(c)
  <2> USE BoardAssumption DEF BoardAssumption
  <2>1. /\ DOMAIN resp = Clients /\ holder \in Tasks \cup {None}
        /\ pc["httpd"] = "idle" => holder # "httpd"
    BY <1>1 DEF IInv, TypeOK, LockInv, LockOf, InEngine, Tasks
  <2>2. ASSUME NEW other \in Clients, NEW r, r.code # "503", Respond(other, r) PROVE Fair(c)
    BY <2>1, <2>2 DEF Respond
  <2>3. ASSUME NEW other \in Clients, Refuse(other) PROVE Fair(c)
    <3>1. CASE CanLock
      <4>1. Respond(other, [code |-> "500"])
        BY <2>3, <3>1 DEF Refuse
      <4> QED
        BY <4>1, <2>2
    <3>2. CASE ~CanLock
      <4>1. pc["httpd"] = "idle"
        BY <2>3 DEF Refuse, Idle
      <4> QED
        BY <2>1, <3>2, <4>1 DEF CanLock, Tasks
    <3> QED
      BY <3>1, <3>2
  <2>4. ASSUME NEW other \in Clients, RecvFails(other) PROVE Fair(c)
    <3>1. Respond(other, [code |-> "closed"])
      BY <2>4 DEF RecvFails
    <3> QED
      BY <3>1, <2>2
  <2>5. ASSUME NEW other \in Clients, Answer(other) PROVE Fair(c)
    <3>1. \/ Respond(other, [code |-> "status", ready |-> ~failed])
          \/ Respond(other, [code |-> "400"])
      BY <2>5, Zenon DEF Answer
    <3> QED
      BY <3>1, <2>2
  <2>6. CASE HttpReply
    <3>1. client \in Clients
      BY <1>1, <2>6 DEF IInv, HttpInv, HttpReply
    <3>2. Respond(client, [code |-> "200", asked |-> sent[client],
                           tokens |-> out["httpd"], path |-> path, took |-> took])
      BY <2>6 DEF HttpReply
    <3> QED
      BY <3>1, <3>2, <2>2
  <2>10. CASE HttpFailed
    <3>1. client \in Clients
      BY <1>1, <2>10 DEF IInv, HttpInv, HttpFailed
    <3>2. Respond(client, [code |-> "500"])
      BY <2>10 DEF HttpFailed
    <3> QED
      BY <3>1, <3>2, <2>2
  <2>7. ASSUME NEW other \in Clients, NEW r \in Requests, Send(other, r) PROVE Fair(c)
    BY <2>1, <2>7 DEF Send
  <2>8. CASE UNCHANGED resp
    BY <2>8
  <2>9. \/ \E other \in Clients : \/ Refuse(other) \/ RecvFails(other) \/ Answer(other)
                                   \/ \E r \in Requests : Send(other, r)
        \/ HttpReply \/ HttpFailed
        \/ UNCHANGED resp
    <3>1. CASE Boot \/ GotIp
      BY <3>1 DEF Boot, GotIp, KernelTests, DeterminismTest, SmokeRefused, AlignmentTest, NetStart,
                  clientVars
    <3>2. ASSUME NEW q \in Queries \cup {Smoke}, ConsoleQuery(q) PROVE UNCHANGED resp
      BY <3>2 DEF ConsoleQuery, clientVars
    <3>3. ASSUME NEW t \in Tasks, Run(t) PROVE UNCHANGED resp
      BY <3>3 DEF Run, Encode, EncodeFails, CrossKV, DecodeStep, clientVars
    <3>4. CASE ConsoleDone \/ HttpUnlock
      BY <3>4 DEF ConsoleDone, HttpUnlock, clientVars
    <3>5. ASSUME NEW other \in Clients, Serve(other) PROVE UNCHANGED resp
      BY <3>5 DEF Serve, clientVars
    <3>6. CASE UNCHANGED vars
      BY <3>6 DEF vars, clientVars
    <3> QED
      BY <1>1, <3>1, <3>2, <3>3, <3>4, <3>5, <3>6 DEF Next, ConsoleStep, HttpStep, Handle, Tasks
  <2> QED
    BY <2>3, <2>4, <2>5, <2>6, <2>7, <2>8, <2>9, <2>10
<1>2. IInv /\ [Next]_vars => [\A c \in Clients : Fair(c)]_vars
  BY <1>1
<1> QED
  BY <1>2, Invariance, PTL DEF Spec, BusyIsTrue

=============================================================================
