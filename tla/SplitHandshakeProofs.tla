------------------------ MODULE SplitHandshakeProofs -----------------------
(***************************************************************************)
(* The handshake of SplitHandshake, for any number of tasks and any jobs:  *)
(* an inductive invariant, and from it the safety properties and the       *)
(* implementation of ParallelFor.                                          *)
(***************************************************************************)
EXTENDS SplitHandshake, TLAPS

NoRowPending == \A r \in Row : yPend[r] = None

(* The words f holds describe job j.                                       *)
Describes(f, j) ==
  /\ f["w_kind"] = Kind[j]
  /\ f["w_r0"] = Mid(j)
  /\ f["w_r1"] = NRows[j]
  /\ IF Kind[j] = 3 THEN f["w_arg"] = j ELSE f["w_job"] = j

(* Both signals down everywhere, the worker waiting for a go.              *)
AtRest ==
  /\ mem["w_go"] = 0 /\ pend["w_go"] = None
  /\ mem["w_done"] = 0 /\ pend["w_done"] = None
  /\ wpc \in {"boot", "wait"}
  /\ NoRowPending

(* A task in a query holds the lock, and in a loop it has a job.           *)
LockInv ==
  \A t \in Tasks :
    /\ pc[t] \in Running \cup {"query"} => busy = t
    /\ pc[t] \in Running => job[t] \in Jobs

RestInv == (\A t \in Tasks : pc[t] \notin {"near", "close"}) => AtRest

PublishInv ==
  \A t \in Tasks : pc[t] = "publish" =>
    /\ Describes([w \in Words |-> Own(w)], job[t])
    /\ i[t] = 0
    /\ \A r \in Row : y[r] = NoJob

AloneInv ==
  \A t \in Tasks : pc[t] = "alone" =>
    /\ i[t] <= NRows[job[t]]
    /\ \A r \in Row : r < i[t] => y[r] = job[t]

(* The go is up and the worker has not taken it.                           *)
NotTaken(j) ==
  /\ wpc \in {"boot", "wait"}
  /\ \/ mem["w_go"] = 1 /\ pend["w_go"] = None
     \/ mem["w_go"] = 0 /\ pend["w_go"] = 1
  /\ mem["w_done"] = 0 /\ pend["w_done"] = None
  /\ NoRowPending
  /\ \A r \in Row : r >= Mid(j) => y[r] = NoJob

(* The worker is between rows of job j's far half.                         *)
Computing(j) ==
  /\ wpc = "far"
  /\ mem["w_go"] = 1 /\ pend["w_go"] = None
  /\ mem["w_done"] = 0 /\ pend["w_done"] = None
  /\ farJob = j /\ farEnd = NRows[j]
  /\ Mid(j) <= farRow /\ farRow <= farEnd
  /\ \A r \in Row :
       \/ r < Mid(j) /\ yPend[r] = None
       \/ /\ Mid(j) <= r /\ r < farRow
          /\ \/ yPend[r] = j /\ y[r] = NoJob
             \/ yPend[r] = None /\ y[r] = j
       \/ farRow <= r /\ yPend[r] = None /\ y[r] = NoJob

(* The far half of job j is in memory and the worker says so.              *)
Finished(j) ==
  /\ wpc = "hold"
  /\ mem["w_go"] = 1 /\ pend["w_go"] = None
  /\ \/ mem["w_done"] = 1 /\ pend["w_done"] = None
     \/ mem["w_done"] = 0 /\ pend["w_done"] = 1
  /\ NoRowPending
  /\ \A r \in RowsOf(j) : Mid(j) <= r => y[r] = j

NearInv ==
  \A t \in Tasks : pc[t] = "near" =>
    /\ \A w \in DescWords : pend[w] = None
    /\ Describes(mem, job[t])
    /\ i[t] <= Mid(job[t])
    /\ \A r \in Row : r < i[t] => y[r] = job[t]
    /\ NotTaken(job[t]) \/ Computing(job[t]) \/ Finished(job[t])

CloseInv ==
  \A t \in Tasks : pc[t] = "close" =>
    /\ \A r \in RowsOf(job[t]) : y[r] = job[t]
    /\ NoRowPending
    /\ \/ /\ wpc = "hold"
          /\ \/ mem["w_go"] = 1 /\ pend["w_go"] = 0
             \/ mem["w_go"] = 0 /\ pend["w_go"] = None
          /\ mem["w_done"] = 1 /\ pend["w_done"] = None
       \/ /\ wpc = "wait"
          /\ mem["w_go"] = 0 /\ pend["w_go"] = None
          /\ \/ mem["w_done"] = 1 /\ pend["w_done"] = 0
             \/ mem["w_done"] = 0 /\ pend["w_done"] = None

IInv ==
  /\ TypeOK /\ LockInv /\ RestInv
  /\ PublishInv /\ AloneInv /\ NearInv /\ CloseInv

-----------------------------------------------------------------------------

(* The halves of a job: 0 <= rows / 2 <= rows <= MaxRows.                  *)
LEMMA JobFacts ==
  \A j \in Jobs : /\ NRows[j] \in Nat /\ 1 <= NRows[j] /\ NRows[j] <= MaxRows
                  /\ Mid(j) \in Nat /\ Mid(j) <= NRows[j]
                  /\ Kind[j] \in 0 .. 3
                  /\ j # NoJob /\ j # None
  BY HandshakeAssumption DEF Mid

(* Jobs, NULL and numbers can be stored, and none of them is None.         *)
LEMMA ValueFacts ==
  /\ \A j \in Jobs : j \in Value
  /\ \A n \in Nat : n \in Value
  /\ NoJob \in Value
  /\ None \notin Value
  BY HandshakeAssumption DEF Value

(* Initially no task is in a loop, both signals are down and nothing is    *)
(* pending.                                                                *)
LEMMA InitIInv == Init => IInv
<1> SUFFICES ASSUME Init PROVE IInv
  OBVIOUS
<1> USE HandshakeAssumption
<1>1. TypeOK
  BY ValueFacts DEF Init, TypeOK, Running
<1>2. LockInv /\ PublishInv /\ AloneInv /\ NearInv /\ CloseInv
  BY DEF Init, LockInv, PublishInv, AloneInv, NearInv, CloseInv, Running
<1>3. RestInv
  BY DEF Init, RestInv, AtRest, NoRowPending, Words, Core0Words, Core1Words
<1> QED
  BY <1>1, <1>2, <1>3 DEF IInv

(* Every action preserves the types.  The far half's bounds come from      *)
(* memory, where the invariant says the current job's are.                 *)
LEMMA TypeStep == IInv /\ [Next]_vars => TypeOK'
<1> SUFFICES ASSUME IInv, [Next]_vars PROVE TypeOK'
  OBVIOUS
<1> USE HandshakeAssumption, ValueFacts, JobFacts
<1> USE DEF TypeOK, Running, Goto, Store, taskVars, workerVars, memVars
<1>0. TypeOK
  BY DEF IInv
<1>1. ASSUME NEW t \in Tasks, Arm(t) \/ Acquire(t) \/ Release(t) PROVE TypeOK'
  BY <1>0, <1>1 DEF Arm, Acquire, Release
<1>2. ASSUME NEW t \in Tasks, NEW j \in Jobs, Call(t, j) PROVE TypeOK'
  <2>1. pend' \in [Words -> Value \cup {None}]
    <3>1. CASE Splits(j)
      <4>1. /\ (IF Kind[j] = 3 THEN NoJob ELSE j) \in Value \cup {None}
            /\ Kind[j] \in Value /\ Mid(j) \in Value /\ NRows[j] \in Value
        OBVIOUS
      <4>2. (IF Kind[j] = 3 THEN j ELSE pend["w_arg"]) \in Value \cup {None}
        BY <1>0 DEF Words, Core0Words, Core1Words, DescWords
      <4>3. StoreDesc(j)
        BY <1>2, <3>1 DEF Call
      <4>4. QED
        BY <1>0, <4>1, <4>2, <4>3 DEF StoreDesc
    <3>2. CASE ~Splits(j)
      BY <1>0, <1>2, <3>2 DEF Call
    <3>3. QED
      BY <3>1, <3>2
  <2>2. i' \in [Tasks -> 0 .. MaxRows] /\ job' \in [Tasks -> Jobs \cup {NoJob}]
    BY <1>0, <1>2 DEF Call
  <2>3. QED
    BY <1>0, <1>2, <2>1, <2>2 DEF Call
<1>3. ASSUME NEW t \in Tasks, Go(t) PROVE TypeOK'
  BY <1>0, <1>3 DEF Go
<1>4. ASSUME NEW t \in Tasks, OwnRow(t) PROVE TypeOK'
  <2>1. Result(Kind[job[t]], OwnOperand(t)) \in Jobs \cup {NoJob}
    BY DEF Result
  <2>2. i[t] + 1 \in 0 .. MaxRows
    BY <1>0, <1>4 DEF OwnRow, OwnEnd, IInv, LockInv
  <2>3. QED
    BY <1>0, <1>4, <2>1, <2>2 DEF OwnRow
<1>5. ASSUME NEW t \in Tasks, ReturnAlone(t) \/ Return(t) PROVE TypeOK'
  BY <1>0, <1>5 DEF ReturnAlone, Return
<1>6. ASSUME NEW t \in Tasks, SeeDone(t) PROVE TypeOK'
  BY <1>0, <1>6 DEF SeeDone
<1>7. CASE WorkerReady \/ WorkerDone \/ WorkerLeave
  BY <1>0, <1>7 DEF WorkerReady, WorkerDone, WorkerLeave
<1>8. CASE WorkerTake
  <2>1. PICK t \in Tasks : pc[t] \in {"near", "close"}
    BY <1>8 DEF WorkerTake, IInv, RestInv, AtRest
  <2>2. pc[t] = "near"
    BY <1>8, <2>1 DEF WorkerTake, IInv, CloseInv
  <2>3. /\ mem["w_r0"] = Mid(job[t])
        /\ mem["w_r1"] = NRows[job[t]]
        /\ job[t] \in Jobs
    BY <2>2 DEF IInv, NearInv, Describes, LockInv
  <2>4. farJob' \in Jobs \cup {NoJob}
    BY <1>8 DEF Result, WorkerTake
  <2>5. farRow' \in 0 .. MaxRows /\ farEnd' \in 0 .. MaxRows
    BY <1>8, <2>3 DEF WorkerTake
  <2>6. QED
    BY <1>0, <1>8, <2>4, <2>5 DEF WorkerTake
<1>9. CASE FarRow
  <2>1. farRow + 1 \in 0 .. MaxRows
    BY <1>0, <1>9 DEF FarRow
  <2>2. yPend' \in [Row -> Jobs \cup {NoJob, None}]
    BY <1>0, <1>9 DEF FarRow
  <2>3. QED
    BY <1>0, <1>9, <2>1, <2>2 DEF FarRow
<1>10. ASSUME NEW w \in Words, Drain(w) PROVE TypeOK'
  BY <1>0, <1>10 DEF Drain
<1>11. ASSUME NEW r \in Row, DrainRow(r) PROVE TypeOK'
  BY <1>0, <1>11 DEF DrainRow
<1>12. CASE UNCHANGED vars
  BY <1>0, <1>12 DEF vars
<1> QED
  BY <1>1, <1>2, <1>3, <1>4, <1>5, <1>6, <1>7, <1>8, <1>9, <1>10, <1>11, <1>12
     DEF Next, InCall, Worker

-----------------------------------------------------------------------------

(* Two tasks are never in a query at the same time.                        *)
LEMMA OnlyHolder ==
  ASSUME LockInv, NEW t \in Tasks, pc[t] \in Running \cup {"query"},
         NEW u \in Tasks, u # t
  PROVE  pc[u] \notin Running \cup {"query"}
  BY DEF LockInv

(* Boot, lock, unlock: no task is in a loop before or after.               *)
LEMMA LockSteps ==
  ASSUME IInv, NEW t \in Tasks, Arm(t) \/ Acquire(t) \/ Release(t)
  PROVE  LockInv' /\ RestInv' /\ PublishInv' /\ AloneInv' /\ NearInv' /\ CloseInv'
<1> USE DEF IInv, TypeOK, Goto, Running, workerVars, memVars
<1>1. /\ UNCHANGED <<job, i, wpc, farJob, farRow, farEnd, mem, pend, y, yPend>>
      /\ pc[t] \notin Running /\ pc'[t] \notin Running
      /\ \A u \in Tasks : u # t => pc'[u] = pc[u]
  BY DEF Arm, Acquire, Release
<1>2. LockInv'
  <2>1. CASE Arm(t)
    BY <2>1 DEF Arm, LockInv
  <2>2. CASE Acquire(t)
    BY <2>2, HandshakeAssumption DEF Acquire, LockInv
  <2>3. CASE Release(t)
    BY <2>3, OnlyHolder DEF Release, LockInv
  <2> QED
    BY <2>1, <2>2, <2>3
<1>3. RestInv'
  BY <1>1 DEF RestInv, AtRest, NoRowPending
<1>4. PublishInv'
  BY <1>1 DEF PublishInv, Describes, Own
<1>5. AloneInv'
  BY <1>1 DEF AloneInv
<1>6. NearInv'
  BY <1>1 DEF NearInv, Describes, NotTaken, Computing, Finished, NoRowPending
<1>7. CloseInv'
  BY <1>1 DEF CloseInv, NoRowPending
<1> QED
  BY <1>2, <1>3, <1>4, <1>5, <1>6, <1>7

(* Entering a loop: the handshake is at rest, so only the description is   *)
(* pending.                                                                *)
LEMMA CallStep ==
  ASSUME IInv, NEW t \in Tasks, NEW j \in Jobs, Call(t, j)
  PROVE  LockInv' /\ RestInv' /\ PublishInv' /\ AloneInv' /\ NearInv' /\ CloseInv'
<1> USE DEF IInv, TypeOK, Goto, Running, workerVars
<1>1. /\ pc[t] = "query" /\ busy' = busy
      /\ pc'[t] \in {"publish", "alone"} /\ job'[t] = j /\ i'[t] = 0
      /\ pc'[t] = "publish" => StoreDesc(j)
      /\ pc'[t] = "alone" => pend' = pend
      /\ \A r \in Row : y'[r] = NoJob
  BY DEF Call
<1>2. \A u \in Tasks : u # t => pc'[u] = pc[u] /\ pc'[u] \notin Running \cup {"query"}
  BY <1>1, OnlyHolder DEF Call
<1>3. AtRest
  BY <1>1, <1>2 DEF RestInv, Call
<1>4. LockInv'
  BY <1>1, <1>2 DEF LockInv
<1>5. RestInv'
  <2>1. pend'["w_go"] = pend["w_go"] /\ pend'["w_done"] = pend["w_done"]
    BY <1>1 DEF StoreDesc, Words, Core0Words, Core1Words
  <2> QED
    BY <1>3, <2>1 DEF RestInv, AtRest, NoRowPending, Call
<1>6. PublishInv'
  <2>1. SUFFICES ASSUME pc'[t] = "publish"
                 PROVE  Describes([w \in Words |-> Own(w)]', j)
    BY <1>1, <1>2 DEF PublishInv
  <2>2. /\ pend'["w_kind"] = Kind[j] /\ pend'["w_r0"] = Mid(j) /\ pend'["w_r1"] = NRows[j]
        /\ Kind[j] = 3 => pend'["w_arg"] = j
        /\ Kind[j] # 3 => pend'["w_job"] = j
    BY <1>1, <2>1 DEF StoreDesc, Words, Core0Words, DescWords
  <2>3. None \notin {Kind[j], Mid(j), NRows[j], j}
    BY JobFacts, ValueFacts
  <2> QED
    BY <2>2, <2>3 DEF Describes, Own, Words, Core0Words, DescWords
<1>7. AloneInv'
  BY <1>1, <1>2, JobFacts DEF AloneInv, Row
<1>8. NearInv' /\ CloseInv'
  BY <1>1, <1>2 DEF NearInv, CloseInv
<1> QED
  BY <1>4, <1>5, <1>6, <1>7, <1>8

(* Core 0 inside a call.                                                   *)
LEMMA InCallStep ==
  ASSUME IInv, NEW t \in Tasks, InCall(t)
  PROVE  LockInv' /\ RestInv' /\ PublishInv' /\ AloneInv' /\ NearInv' /\ CloseInv'
<1> USE DEF IInv, TypeOK, Goto, Running, Store, workerVars, memVars
<1>0. /\ pc[t] \in Running /\ job[t] \in Jobs /\ pc'[t] \in Running \cup {"query"}
      /\ UNCHANGED <<busy, job, wpc, farJob, farRow, farEnd, mem, yPend>>
      /\ \A u \in Tasks : u # t => pc'[u] = pc[u] /\ pc'[u] \notin Running \cup {"query"}
  BY OnlyHolder DEF InCall, Go, OwnRow, ReturnAlone, SeeDone, Return, LockInv
<1>. PICK j \in Jobs : j = job[t] /\ j = job'[t]
  BY <1>0
<1>1. LockInv'
  BY <1>0 DEF LockInv
<1>2. CASE Go(t)
  <2>1. /\ pc[t] = "publish" /\ pc'[t] = "near" /\ UNCHANGED <<i, y>>
        /\ pend'["w_go"] = 1
        /\ \A w \in Words : w # "w_go" => pend'[w] = pend[w]
        /\ \A w \in Core0Words : pend[w] = None
    BY <1>2 DEF Go, Fence0, Words, Core0Words
  <2>2. AtRest
    BY <1>0, <2>1 DEF RestInv
  <2>3. NearInv'
    <3>1. Describes(mem, j)
      BY <2>1 DEF PublishInv, Describes, Own, Words, Core0Words, DescWords
    <3>2. NotTaken(j)'
      BY <1>0, <2>1, <2>2 DEF NotTaken, AtRest, NoRowPending, PublishInv,
                              Words, Core1Words
    <3>3. \A w \in DescWords : pend'[w] = None
      BY <2>1 DEF Words, Core0Words, DescWords
    <3>4. i'[t] = 0
      BY <2>1 DEF PublishInv
    <3>5. 0 <= Mid(j)
      BY JobFacts
    <3> QED
      BY <1>0, <2>1, <3>1, <3>2, <3>3, <3>4, <3>5, HandshakeAssumption
         DEF NearInv, Describes, Row
  <2> QED
    BY <1>0, <1>1, <2>1, <2>3 DEF RestInv, PublishInv, AloneInv, CloseInv
<1>3. CASE OwnRow(t)
  <2>1. /\ pc[t] \in {"near", "alone"} /\ UNCHANGED <<pc, pend>>
        /\ i[t] < OwnEnd(t) /\ i'[t] = i[t] + 1 /\ i[t] \in Nat
        /\ y' = [y EXCEPT ![i[t]] = Result(Kind[j], OwnOperand(t))]
    BY <1>3 DEF OwnRow
  <2>2. OwnOperand(t) = j
    <3>1. CASE pc[t] = "near" /\ Kind[j] = 3
      BY <3>1 DEF OwnOperand, NearInv, Describes, Own, DescWords
    <3>2. CASE ~(pc[t] = "near" /\ Kind[j] = 3)
      BY <3>2 DEF OwnOperand
    <3> QED
      BY <3>1, <3>2
  <2>3. /\ i[t] \in Row /\ y'[i[t]] = j
        /\ \A r \in Row : r # i[t] => y'[r] = y[r]
    <3>1. i[t] < NRows[j]
      BY <2>1, JobFacts DEF OwnEnd
    <3>2. i[t] \in Row
      BY <2>1, <3>1, JobFacts, HandshakeAssumption DEF Row
    <3>3. Result(Kind[j], OwnOperand(t)) = j
      BY <2>2 DEF Result
    <3> QED
      BY <2>1, <3>2, <3>3
  <2>4. AloneInv'
    BY <1>0, <2>1, <2>3, JobFacts DEF AloneInv, Row, OwnEnd
  <2>5. NearInv'
    <3>1. SUFFICES ASSUME pc[t] = "near"
                   PROVE  /\ \A r \in Row : r < i'[t] => y'[r] = j
                          /\ i'[t] <= Mid(j)
                          /\ NotTaken(j)' \/ Computing(j)' \/ Finished(j)'
      BY <1>0, <2>1 DEF NearInv, Describes
    <3>2. i[t] < Mid(j) /\ Mid(j) \in Nat
      BY <1>0, <2>1, <3>1, JobFacts DEF OwnEnd
    <3>3. \A r \in Row : r < i'[t] => y'[r] = j
      <4>1. \A r \in Row : r < i[t] => y[r] = j
        BY <3>1 DEF NearInv
      <4> QED
        BY <2>1, <2>3, <4>1, HandshakeAssumption DEF Row
    <3>4. \A r \in Row : r >= Mid(j) => y'[r] = y[r]
      BY <2>1, <2>3, <3>2 DEF Row
    <3>5. ASSUME NotTaken(j) PROVE NotTaken(j)'
      BY <1>0, <2>1, <3>4, <3>5 DEF NotTaken, NoRowPending
    <3>6. ASSUME Computing(j) PROVE Computing(j)'
      <4>1. \A r \in Row : r < Mid(j) \/ r >= Mid(j)
        BY <3>2 DEF Row
      <4>2. farRow \in Nat /\ Mid(j) <= farRow
        BY <3>6 DEF Computing
      <4>3. \A r \in Row :
              \/ r < Mid(j) /\ yPend[r] = None
              \/ /\ Mid(j) <= r /\ r < farRow
                 /\ \/ yPend[r] = j /\ y'[r] = NoJob
                    \/ yPend[r] = None /\ y'[r] = j
              \/ farRow <= r /\ yPend[r] = None /\ y'[r] = NoJob
        BY <3>2, <3>4, <3>6, <4>2 DEF Computing, Row
      <4> QED
        BY <1>0, <2>1, <3>6, <4>3 DEF Computing
    <3>7. ASSUME Finished(j) PROVE Finished(j)'
      <4>1. \A r \in RowsOf(j) : Mid(j) <= r => y'[r] = j
        BY <1>0, <3>2, <3>4, <3>7, JobFacts, HandshakeAssumption DEF Finished, RowsOf, Row
      <4> QED
        BY <1>0, <2>1, <3>7, <4>1 DEF Finished, NoRowPending
    <3>8. NotTaken(j) \/ Computing(j) \/ Finished(j)
      BY <3>1 DEF NearInv
    <3>9. i'[t] <= Mid(j)
      BY <2>1, <3>2
    <3> QED
      BY <3>3, <3>5, <3>6, <3>7, <3>8, <3>9
  <2>6. RestInv'
    BY <1>0, <2>1 DEF RestInv, AtRest, NoRowPending
  <2> QED
    BY <1>0, <1>1, <2>1, <2>4, <2>5, <2>6 DEF PublishInv, CloseInv
<1>4. CASE ReturnAlone(t)
  <2>1. /\ pc[t] = "alone" /\ pc'[t] = "query" /\ UNCHANGED <<i, pend, y>>
    BY <1>4 DEF ReturnAlone
  <2> QED
    BY <1>0, <1>1, <2>1
       DEF RestInv, AtRest, NoRowPending, PublishInv, AloneInv, NearInv, CloseInv
<1>5. CASE SeeDone(t)
  <2>1. /\ pc[t] = "near" /\ pc'[t] = "close" /\ UNCHANGED <<i, y>>
        /\ i[t] >= Mid(j) /\ mem["w_done"] = 1
        /\ pend'["w_go"] = 0 /\ pend'["w_done"] = pend["w_done"]
    BY <1>5 DEF SeeDone, OwnEnd, Words, Core0Words, Core1Words
  <2>2. Finished(j) /\ pend["w_done"] = None
    <3>1. NotTaken(j) \/ Computing(j) \/ Finished(j)
      BY <2>1 DEF NearInv
    <3> QED
      BY <2>1, <3>1 DEF NotTaken, Computing, Finished
  <2>3. \A r \in RowsOf(j) : y[r] = j
    BY <1>0, <2>1, <2>2, JobFacts, HandshakeAssumption
       DEF NearInv, Finished, RowsOf, Row
  <2>4. CloseInv'
    BY <1>0, <2>1, <2>2, <2>3 DEF CloseInv, Finished, NoRowPending
  <2> QED
    BY <1>0, <1>1, <2>1, <2>4 DEF RestInv, PublishInv, AloneInv, NearInv
<1>6. CASE Return(t)
  <2>1. /\ pc[t] = "close" /\ pc'[t] = "query" /\ UNCHANGED <<i, pend, y>>
        /\ mem["w_done"] = 0
    BY <1>6 DEF Return
  <2>2. AtRest
    BY <2>1 DEF CloseInv, AtRest
  <2> QED
    BY <1>0, <1>1, <2>1, <2>2
       DEF RestInv, AtRest, NoRowPending, PublishInv, AloneInv, NearInv, CloseInv
<1> QED
  BY <1>2, <1>3, <1>4, <1>5, <1>6 DEF InCall

-----------------------------------------------------------------------------

(* The phases of the round the holder of the lock is in.                   *)
LEMMA Phases ==
  ASSUME IInv, NEW t \in Tasks, pc[t] = "near"
  PROVE  /\ job[t] \in Jobs
         /\ NotTaken(job[t]) \/ Computing(job[t]) \/ Finished(job[t])
  BY DEF IInv, LockInv, NearInv, Running

(* Core 1.  Its steps leave the tasks' program counters and jobs alone.    *)
LEMMA WorkerStep ==
  ASSUME IInv, Worker
  PROVE  LockInv' /\ RestInv' /\ PublishInv' /\ AloneInv' /\ NearInv' /\ CloseInv'
<1> USE DEF IInv, TypeOK, Running, Store, taskVars, workerVars, memVars
<1>0. /\ UNCHANGED <<busy, pc, job, i, mem, y>>
      /\ \A w \in Core0Words : pend'[w] = pend[w]
  BY DEF Worker, WorkerReady, WorkerTake, FarRow, WorkerDone, WorkerLeave,
         Words, Core0Words, DescWords
<1>1. LockInv' /\ AloneInv'
  BY <1>0 DEF LockInv, AloneInv
<1>2. PublishInv'
  BY <1>0 DEF PublishInv, Describes, Own, Words, Core0Words, DescWords
<1>3. \A t \in Tasks : pc[t] = "near" =>
        /\ \A w \in DescWords : pend'[w] = None
        /\ Describes(mem', job[t])
        /\ i[t] <= Mid(job[t])
        /\ \A r \in Row : r < i[t] => y[r] = job[t]
  BY <1>0 DEF NearInv, Core0Words, Describes
<1>4. pend'["w_go"] = pend["w_go"]
  BY <1>0 DEF Core0Words
<1>5. CASE WorkerReady
  <2>1. /\ wpc = "boot" /\ wpc' = "wait" /\ UNCHANGED <<farJob, farRow, farEnd, yPend>>
        /\ pend'["w_done"] = pend["w_done"]
    BY <1>5 DEF WorkerReady, Words, Core1Words
  <2>2. RestInv'
    BY <1>0, <1>4, <2>1 DEF RestInv, AtRest, NoRowPending
  <2>3. ASSUME NEW t \in Tasks, pc[t] = "near" PROVE NotTaken(job[t])'
    BY <1>0, <1>4, <2>1, <2>3, Phases DEF NotTaken, Computing, Finished, NoRowPending
  <2>4. NearInv'
    BY <1>0, <1>3, <2>3 DEF NearInv
  <2>5. CloseInv'
    BY <1>0, <2>1 DEF CloseInv
  <2> QED
    BY <1>1, <1>2, <2>2, <2>4, <2>5
<1>6. CASE WorkerTake
  <2>1. /\ wpc = "wait" /\ wpc' = "far" /\ UNCHANGED <<pend, yPend>> /\ mem["w_go"] = 1
        /\ farJob' = Result(mem["w_kind"], IF mem["w_kind"] = 3 THEN mem["w_arg"]
                                                               ELSE mem["w_job"])
        /\ farRow' = mem["w_r0"] /\ farEnd' = mem["w_r1"]
    BY <1>6 DEF WorkerTake
  <2>2. \A t \in Tasks : pc[t] # "close"
    BY <2>1 DEF CloseInv
  <2>3. RestInv'
    BY <1>0, <2>1 DEF RestInv, AtRest
  <2>4. ASSUME NEW t \in Tasks, pc[t] = "near" PROVE Computing(job[t])'
    <3> PICK j \in Jobs : j = job[t] /\ j = job'[t]
      BY <1>0, <2>4, Phases
    <3>1. NotTaken(j)
      BY <2>1, <2>4, Phases DEF Computing, Finished
    <3>2. farJob' = j /\ farRow' = Mid(j) /\ farEnd' = NRows[j]
      <4>1. Describes(mem, j)
        BY <2>4 DEF NearInv
      <4>2. Result(Kind[j], j) = j
        BY DEF Result
      <4> QED
        BY <2>1, <4>1, <4>2 DEF Describes
    <3>3. \A r \in Row : r < Mid(j) \/ (farRow' <= r /\ y[r] = NoJob)
      BY <3>1, <3>2, JobFacts, HandshakeAssumption DEF NotTaken, Row
    <3>4. Computing(j)'
      BY <1>0, <2>1, <3>1, <3>2, <3>3, JobFacts DEF Computing, NotTaken, NoRowPending
    <3> QED
      BY <3>4
  <2>5. NearInv'
    BY <1>0, <1>3, <2>4 DEF NearInv
  <2> QED
    BY <1>0, <1>1, <1>2, <2>2, <2>3, <2>5 DEF CloseInv
<1>7. CASE FarRow
  <2>1. /\ wpc = "far" /\ UNCHANGED <<wpc, farJob, farEnd, pend>>
        /\ farRow < farEnd /\ farRow' = farRow + 1
        /\ yPend' = [yPend EXCEPT ![farRow] = farJob]
    BY <1>7 DEF FarRow
  <2>2. RestInv' /\ CloseInv'
    BY <1>0, <2>1 DEF RestInv, AtRest, CloseInv
  <2>3. ASSUME NEW t \in Tasks, pc[t] = "near" PROVE Computing(job[t])'
    <3> PICK j \in Jobs : j = job[t] /\ j = job'[t]
      BY <1>0, <2>3, Phases
    <3>1. Computing(j)
      BY <2>1, <2>3, Phases DEF NotTaken, Finished
    <3>2. farRow \in Row /\ Mid(j) <= farRow /\ farJob = j /\ farEnd = NRows[j]
      BY <2>1, <3>1, HandshakeAssumption DEF Computing, Row
    <3>3. farRow' <= farEnd /\ Mid(j) <= farRow'
      BY <2>1, <3>2, JobFacts
    <3>4. yPend'[farRow] = j /\ y[farRow] = NoJob
      BY <2>1, <3>1, <3>2, JobFacts DEF Computing, Row
    <3>5. \A r \in Row : r # farRow => yPend'[r] = yPend[r]
      BY <2>1
    <3>6. ASSUME NEW r \in Row
          PROVE  \/ r < Mid(j) /\ yPend'[r] = None
                 \/ /\ Mid(j) <= r /\ r < farRow'
                    /\ \/ yPend'[r] = j /\ y[r] = NoJob
                       \/ yPend'[r] = None /\ y[r] = j
                 \/ farRow' <= r /\ yPend'[r] = None /\ y[r] = NoJob
      <4>1. CASE r = farRow
        BY <2>1, <3>2, <3>4, <4>1 DEF Row
      <4>2. CASE r # farRow
        <5>1. \/ r < Mid(j) /\ yPend[r] = None
              \/ /\ Mid(j) <= r /\ r < farRow
                 /\ \/ yPend[r] = j /\ y[r] = NoJob
                    \/ yPend[r] = None /\ y[r] = j
              \/ farRow <= r /\ yPend[r] = None /\ y[r] = NoJob
          BY <3>1 DEF Computing
        <5> QED
          BY <2>1, <3>2, <3>5, <4>2, <5>1 DEF Row
      <4> QED
        BY <4>1, <4>2
    <3>7. Computing(j)'
      BY <1>0, <2>1, <3>1, <3>3, <3>6 DEF Computing
    <3> QED
      BY <3>7
  <2>4. NearInv'
    BY <1>0, <1>3, <2>3 DEF NearInv
  <2> QED
    BY <1>1, <1>2, <2>2, <2>4
<1>8. CASE WorkerDone
  <2>1. /\ wpc = "far" /\ wpc' = "hold" /\ UNCHANGED yPend
        /\ farRow >= farEnd /\ NoRowPending
        /\ pend'["w_done"] = 1
    BY <1>8 DEF WorkerDone, Fence1, NoRowPending, Words, Core1Words
  <2>2. RestInv' /\ CloseInv'
    BY <1>0, <2>1 DEF RestInv, AtRest, CloseInv
  <2>3. ASSUME NEW t \in Tasks, pc[t] = "near" PROVE Finished(job[t])'
    <3> PICK j \in Jobs : j = job[t] /\ j = job'[t]
      BY <1>0, <2>3, Phases
    <3>1. Computing(j)
      BY <2>1, <2>3, Phases DEF NotTaken, Finished
    <3>2. \A r \in RowsOf(j) : Mid(j) <= r => y[r] = j
      BY <2>1, <3>1, JobFacts, HandshakeAssumption DEF Computing, NoRowPending, RowsOf, Row
    <3>3. Finished(j)'
      BY <1>0, <1>4, <2>1, <3>1, <3>2 DEF Finished, Computing, NoRowPending
    <3> QED
      BY <3>3
  <2>4. NearInv'
    BY <1>0, <1>3, <2>3 DEF NearInv
  <2> QED
    BY <1>1, <1>2, <2>2, <2>4
<1>9. CASE WorkerLeave
  <2>1. /\ wpc = "hold" /\ wpc' = "wait" /\ UNCHANGED yPend
        /\ mem["w_go"] = 0 /\ pend'["w_done"] = 0
    BY <1>9 DEF WorkerLeave, Words, Core1Words
  <2>2. RestInv'
    BY <1>0, <2>1 DEF RestInv, AtRest
  <2>3. \A t \in Tasks : pc[t] # "near"
    BY <2>1, Phases DEF NotTaken, Computing, Finished
  <2>4. CloseInv'
    BY <1>0, <1>4, <2>1 DEF CloseInv, NoRowPending
  <2> QED
    BY <1>0, <1>1, <1>2, <2>2, <2>3, <2>4 DEF NearInv
<1> QED
  BY <1>5, <1>6, <1>7, <1>8, <1>9 DEF Worker

-----------------------------------------------------------------------------

(* A store draining moves a word from the pending to the memory side of    *)
(* each disjunct, or a row from core 1's hands to the output.              *)
LEMMA DrainStep ==
  ASSUME IInv, NEW w \in Words, Drain(w)
  PROVE  LockInv' /\ RestInv' /\ PublishInv' /\ AloneInv' /\ NearInv' /\ CloseInv'
<1> USE DEF IInv, TypeOK, Running, taskVars, workerVars
<1>0. /\ UNCHANGED <<busy, pc, job, i, wpc, farJob, farRow, farEnd, y, yPend>>
      /\ pend[w] # None /\ mem'[w] = pend[w] /\ pend'[w] = None
      /\ \A v \in Words : v # w => mem'[v] = mem[v] /\ pend'[v] = pend[v]
  BY DEF Drain
<1>1. LockInv' /\ AloneInv'
  BY <1>0 DEF LockInv, AloneInv
<1>2. \A v \in Words : Own(v)' = Own(v)
  BY <1>0, ValueFacts DEF Own
<1>3. PublishInv'
  BY <1>0, <1>2 DEF PublishInv, Describes
<1>4. /\ "w_go" \in Words /\ "w_done" \in Words
      /\ DescWords \subseteq Words /\ "w_go" \notin DescWords
      /\ {"w_kind", "w_r0", "w_r1", "w_arg", "w_job"} \subseteq DescWords
  BY DEF Words, Core0Words, Core1Words, DescWords
<1>5. RestInv'
  BY <1>0, <1>4 DEF RestInv, AtRest, NoRowPending
<1>6. NearInv'
  <2>1. SUFFICES ASSUME NEW t \in Tasks, pc[t] = "near", NEW j \in Jobs, j = job[t]
                 PROVE  /\ \A v \in DescWords : pend'[v] = None
                        /\ Describes(mem', j)
                        /\ NotTaken(j)' \/ Computing(j)' \/ Finished(j)'
    BY <1>0, Phases DEF NearInv
  <2>2. (\A v \in DescWords : pend[v] = None) /\ Describes(mem, j)
    BY <2>1 DEF NearInv
  <2>3. NotTaken(j) => NotTaken(j)'
    BY <1>0, <1>4 DEF NotTaken, NoRowPending
  <2>4. Computing(j) => Computing(j)'
    BY <1>0, <1>4 DEF Computing
  <2>5. Finished(j) => Finished(j)'
    BY <1>0, <1>4 DEF Finished, NoRowPending
  <2>6. \A v \in DescWords : v # w /\ pend'[v] = None /\ mem'[v] = mem[v]
    BY <1>0, <1>4, <2>2
  <2>7. Describes(mem', j)
    BY <1>4, <2>2, <2>6 DEF Describes
  <2> QED
    BY <2>1, <2>3, <2>4, <2>5, <2>6, <2>7, Phases
<1>7. CloseInv'
  BY <1>0, <1>4 DEF CloseInv, NoRowPending
<1> QED
  BY <1>1, <1>3, <1>5, <1>6, <1>7

(* A row of core 1's half reaches memory: the worker is still computing it *)
(* for the call in progress, or has not yet published done.                *)
LEMMA DrainRowStep ==
  ASSUME IInv, NEW r \in Row, DrainRow(r)
  PROVE  LockInv' /\ RestInv' /\ PublishInv' /\ AloneInv' /\ NearInv' /\ CloseInv'
<1> USE DEF IInv, TypeOK, Running, taskVars, workerVars
<1>0. /\ UNCHANGED <<busy, pc, job, i, wpc, farJob, farRow, farEnd, mem, pend>>
      /\ yPend[r] # None /\ y'[r] = yPend[r] /\ yPend'[r] = None
      /\ \A q \in Row : q # r => y'[q] = y[q] /\ yPend'[q] = yPend[q]
  BY DEF DrainRow
<1>1. PICK t \in Tasks : pc[t] = "near"
  BY <1>0 DEF RestInv, AtRest, CloseInv, NoRowPending
<1>2. \A u \in Tasks : u # t => pc[u] \notin Running \cup {"query"}
  BY <1>1, OnlyHolder
<1> PICK j \in Jobs : j = job[t]
  BY <1>1, Phases
<1>3. Computing(j)
  BY <1>0, <1>1, Phases DEF NotTaken, Finished, NoRowPending
<1>4. Mid(j) <= r /\ r < farRow /\ yPend[r] = j
  BY <1>0, <1>3 DEF Computing
<1>5. \A q \in Row :
        \/ q < Mid(j) /\ yPend'[q] = None
        \/ /\ Mid(j) <= q /\ q < farRow
           /\ \/ yPend'[q] = j /\ y'[q] = NoJob
              \/ yPend'[q] = None /\ y'[q] = j
        \/ farRow <= q /\ yPend'[q] = None /\ y'[q] = NoJob
  BY <1>0, <1>3, <1>4 DEF Computing
<1>6. Computing(j)'
  BY <1>0, <1>3, <1>5 DEF Computing
<1>7. NearInv'
  <2>1. \A q \in Row : q < i[t] => y'[q] = j
    <3>1. i[t] <= Mid(j) /\ i[t] \in Nat /\ Mid(j) \in Nat
      BY <1>1, JobFacts DEF NearInv
    <3>2. \A q \in Row : q < i[t] => y[q] = j
      BY <1>1 DEF NearInv
    <3>3. \A q \in Row : q < i[t] => q # r
      BY <1>4, <3>1, HandshakeAssumption DEF Row
    <3> QED
      BY <1>0, <3>2, <3>3
  <2> QED
    BY <1>0, <1>1, <1>2, <1>6, <2>1 DEF NearInv, Describes
<1> QED
  BY <1>0, <1>1, <1>2, <1>7
     DEF LockInv, RestInv, PublishInv, AloneInv, CloseInv, Describes, Own

-----------------------------------------------------------------------------

(* The invariant is inductive.                                             *)
THEOREM Invariance == Spec => []IInv
<1>1. IInv /\ [Next]_vars => IInv'
  <2> SUFFICES ASSUME IInv, [Next]_vars
               PROVE  /\ LockInv' /\ RestInv' /\ PublishInv'
                      /\ AloneInv' /\ NearInv' /\ CloseInv'
    BY TypeStep DEF IInv
  <2>1. ASSUME NEW t \in Tasks, Arm(t) \/ Acquire(t) \/ Release(t)
        PROVE  /\ LockInv' /\ RestInv' /\ PublishInv'
               /\ AloneInv' /\ NearInv' /\ CloseInv'
    BY <2>1, LockSteps
  <2>2. CASE UNCHANGED vars
    BY <2>2 DEF vars, taskVars, workerVars, memVars, IInv, LockInv, RestInv, AtRest,
                PublishInv, AloneInv, NearInv, CloseInv, Describes, Own,
                NotTaken, Computing, Finished, NoRowPending
  <2> QED
    BY <2>1, <2>2, CallStep, InCallStep, WorkerStep, DrainStep, DrainRowStep DEF Next
<1> QED
  BY InitIInv, <1>1, PTL DEF Spec

(* TypeOK holds throughout; in particular the worker's row bounds, which it *)
(* reads from volatiles core 0 wrote, always lie inside the job.           *)
THEOREM TypeCorrect == Spec => []TypeOK
<1>1. IInv => TypeOK
  BY DEF IInv
<1> QED
  BY Invariance, <1>1, PTL

(* split_run returns only when every row of the range was written for this *)
(* call's job.                                                             *)
THEOREM WholeRangeComputed == Spec => []WholeRange
<1>1. IInv => WholeRange
  <2> SUFFICES ASSUME IInv, NEW t \in Tasks
               PROVE  /\ pc[t] = "close" => \A r \in RowsOf(job[t]) : y[r] = job[t]
                      /\ pc[t] = "alone" /\ i[t] = NRows[job[t]] =>
                           \A r \in RowsOf(job[t]) : y[r] = job[t]
    BY DEF WholeRange
  <2>1. pc[t] = "close" => \A r \in RowsOf(job[t]) : y[r] = job[t]
    BY DEF IInv, CloseInv
  <2>2. ASSUME pc[t] = "alone", i[t] = NRows[job[t]]
        PROVE  \A r \in RowsOf(job[t]) : y[r] = job[t]
    <3>1. job[t] \in Jobs
      BY <2>2 DEF IInv, LockInv, Running
    <3>2. \A r \in RowsOf(job[t]) : r \in Row /\ r < NRows[job[t]]
      BY <3>1, JobFacts, HandshakeAssumption DEF RowsOf, Row
    <3> QED
      BY <2>2, <3>2 DEF IInv, AloneInv
  <2> QED
    BY <2>1, <2>2
<1> QED
  BY Invariance, <1>1, PTL

(* Between calls both signals are down, the worker waits for a go and no   *)
(* row of its is in flight.                                                *)
THEOREM HandshakeClosed == Spec => []ClosedBetweenCalls
<1>1. IInv => ClosedBetweenCalls
  BY DEF IInv, RestInv, AtRest, NoRowPending, ClosedBetweenCalls, Own, Running
<1> QED
  BY Invariance, <1>1, PTL

(* While the worker computes or its rows are in flight, the holder of the  *)
(* lock is in the near phase of the job the worker computes.               *)
LEMMA FarIsCurrent ==
  ASSUME IInv, wpc = "far" \/ ~NoRowPending
  PROVE  /\ busy \in Tasks /\ pc[busy] = "near" /\ job[busy] \in Jobs
         /\ Computing(job[busy])
<1>1. PICK t \in Tasks : pc[t] = "near"
  BY DEF IInv, RestInv, AtRest, CloseInv
<1>2. busy = t
  BY <1>1 DEF IInv, LockInv, Running
<1> QED
  BY <1>1, <1>2, Phases DEF NotTaken, Finished

(* The worker only ever computes the upper half of the loop the holder of  *)
(* the lock is in: its arguments are neither torn nor left over.           *)
THEOREM WorkerCurrent == Spec => []WorkerOnCurrentJob
<1>1. IInv => WorkerOnCurrentJob
  BY FarIsCurrent DEF WorkerOnCurrentJob, Computing
<1> QED
  BY Invariance, <1>1, PTL

(* No row is written by both cores in one call.                            *)
THEOREM HalvesDisjoint == Spec => []DisjointHalves
<1>1. IInv => DisjointHalves
  <2> SUFFICES ASSUME IInv, NEW r \in Row, yPend[r] # None
               PROVE  /\ busy \in Tasks
                      /\ pc[busy] = "near" /\ r >= OwnEnd(busy)
                      /\ y[r] = NoJob
    BY DEF DisjointHalves
  <2>1. /\ busy \in Tasks /\ pc[busy] = "near" /\ job[busy] \in Jobs
        /\ Computing(job[busy])
    BY FarIsCurrent DEF NoRowPending
  <2>2. Mid(job[busy]) <= r /\ y[r] = NoJob
    BY <2>1 DEF Computing
  <2> QED
    BY <2>1, <2>2, JobFacts, HandshakeAssumption DEF OwnEnd, Row
<1> QED
  BY Invariance, <1>1, PTL

(* Only the task that holds g_busy is in a query.                          *)
THEOREM MutualExclusion == Spec => []OneCaller
<1>1. IInv => OneCaller
  BY DEF IInv, LockInv, OneCaller
<1> QED
  BY Invariance, <1>1, PTL

-----------------------------------------------------------------------------

(* The loop in progress is the running task's, and there is at most one.   *)
LoopFacts ==
  /\ \A t \in Tasks : pc[t] \in Running => LoopInProgress = job[t]
  /\ (\A t \in Tasks : pc[t] \notin Running) => LoopInProgress = NoJob

(* The lock makes the loop in progress that of its holder.                 *)
LEMMA LoopIs == LockInv => LoopFacts
  BY DEF LockInv, LoopFacts, LoopInProgress

(* The handshake implements the parallel loop: entering a call is Begin,   *)
(* each row core 0 stores and each row of core 1 that reaches memory is a  *)
(* Compute, leaving is Return; every other step stutters.                  *)
THEOREM Refinement == Spec => ImplementsParallelFor
<1>1. Init => Abstract!Init
  BY HandshakeAssumption
     DEF Init, Abstract!Init, LoopInProgress, Row, Abstract!Row
<1>2. LockInv' => LoopFacts'
  BY LoopIs, PTL
<1>3. IInv /\ IInv' /\ [Next]_vars => [Abstract!Next]_(Abstract!pfVars)
  <2> SUFFICES ASSUME IInv, IInv', [Next]_vars
               PROVE  Abstract!Next \/ UNCHANGED <<LoopInProgress, y>>
    BY DEF Abstract!pfVars
  <2> USE DEF Goto, Running, taskVars, workerVars, memVars
  <2>0. /\ y \in [Row -> Jobs \cup {NoJob}]
        /\ pc \in [Tasks -> {"boot", "idle", "query"} \cup Running]
        /\ job \in [Tasks -> Jobs \cup {NoJob}]
        /\ Abstract!Row = Row
    BY DEF IInv, TypeOK, Row, Abstract!Row
  <2>1. LoopFacts /\ LoopFacts'
    BY <1>2, LoopIs DEF IInv
  <2>2. ASSUME NEW t \in Tasks, Arm(t) \/ Acquire(t) \/ Release(t)
        PROVE  UNCHANGED <<LoopInProgress, y>>
    <3>1. \A u \in Tasks : pc'[u] \in Running <=> pc[u] \in Running
      BY <2>0, <2>2 DEF Arm, Acquire, Release
    <3>2. UNCHANGED <<job, y>>
      BY <2>2 DEF Arm, Acquire, Release
    <3> QED
      BY <2>1, <3>1, <3>2 DEF LoopFacts
  <2>3. ASSUME NEW t \in Tasks, NEW j \in Jobs, Call(t, j)
        PROVE  Abstract!Begin(j)
    <3>1. pc[t] = "query" /\ pc'[t] \in Running /\ job'[t] = j
      BY <2>0, <2>3 DEF Call
    <3>2. \A u \in Tasks : pc[u] \notin Running
      BY <3>1, OnlyHolder DEF IInv
    <3> QED
      BY <2>0, <2>1, <2>3, <3>1, <3>2 DEF LoopFacts, Call, Abstract!Begin
  <2>4. ASSUME NEW t \in Tasks, Go(t) \/ SeeDone(t)
        PROVE  UNCHANGED <<LoopInProgress, y>>
    <3>1. pc[t] \in Running /\ pc'[t] \in Running /\ UNCHANGED <<job, y>>
      BY <2>0, <2>4 DEF Go, SeeDone
    <3> QED
      BY <2>1, <3>1 DEF LoopFacts
  <2>5. ASSUME NEW t \in Tasks, OwnRow(t)
        PROVE  Abstract!Compute({i[t]})
    <3>1. /\ pc[t] \in {"near", "alone"} /\ UNCHANGED <<pc, job>>
          /\ i[t] < OwnEnd(t) /\ i[t] \in Nat /\ job[t] \in Jobs
          /\ y' = [y EXCEPT ![i[t]] = Result(Kind[job[t]], OwnOperand(t))]
      BY <2>5 DEF OwnRow, IInv, TypeOK, LockInv
    <3>2. LoopInProgress = job[t] /\ LoopInProgress' = job[t]
      BY <2>1, <3>1 DEF LoopFacts
    <3>3. i[t] \in Abstract!RowsOf(job[t]) /\ i[t] \in Row
      BY <3>1, JobFacts, HandshakeAssumption DEF OwnEnd, Abstract!RowsOf, Row
    <3>4. OwnOperand(t) = job[t]
      BY <3>1 DEF OwnOperand, IInv, NearInv, Describes, Own, DescWords
    <3>5. y' = [r \in Row |-> IF r \in {i[t]} THEN job[t] ELSE y[r]]
      BY <2>0, <3>1, <3>3, <3>4 DEF Result
    <3> QED
      BY <2>0, <3>1, <3>2, <3>3, <3>5, JobFacts DEF Abstract!Compute
  <2>6. ASSUME NEW t \in Tasks, ReturnAlone(t) \/ Return(t)
        PROVE  Abstract!Return
    <3>1. /\ pc[t] \in {"alone", "close"} /\ pc'[t] = "query" /\ UNCHANGED <<job, y>>
          /\ \A u \in Tasks : u # t => pc'[u] = pc[u]
      BY <2>0, <2>6 DEF ReturnAlone, Return
    <3>2. LoopInProgress = job[t] /\ job[t] \in Jobs
      BY <2>1, <3>1 DEF LoopFacts, IInv, LockInv
    <3>3. LoopInProgress' = NoJob
      <4>1. \A u \in Tasks : pc'[u] \notin Running
        BY <3>1, OnlyHolder DEF IInv
      <4> QED
        BY <2>1, <4>1 DEF LoopFacts
    <3>4. \A r \in Abstract!RowsOf(job[t]) : y[r] = job[t]
      <4>1. CASE ReturnAlone(t)
        <5>1. /\ pc[t] = "alone" /\ i[t] >= NRows[job[t]] /\ i[t] \in Nat
              /\ \A r \in Row : r < i[t] => y[r] = job[t]
          BY <4>1 DEF ReturnAlone, OwnEnd, IInv, TypeOK, AloneInv
        <5> QED
          BY <3>2, <5>1, JobFacts, HandshakeAssumption DEF Abstract!RowsOf, Row
      <4>2. CASE Return(t)
        BY <4>2 DEF Return, IInv, CloseInv, RowsOf, Abstract!RowsOf
      <4> QED
        BY <2>6, <4>1, <4>2
    <3> QED
      BY <3>1, <3>2, <3>3, <3>4, JobFacts DEF Abstract!Return
  <2>7. CASE Worker \/ \E w \in Words : Drain(w)
    <3>1. UNCHANGED <<busy, pc, job, y>>
      BY <2>7 DEF Worker, WorkerReady, WorkerTake, FarRow, WorkerDone, WorkerLeave, Drain
    <3> QED
      BY <3>1 DEF LoopInProgress
  <2>8. ASSUME NEW r \in Row, DrainRow(r)
        PROVE  Abstract!Compute({r})
    <3>1. /\ UNCHANGED <<busy, pc, job>> /\ yPend[r] # None
          /\ y' = [y EXCEPT ![r] = yPend[r]]
      BY <2>8 DEF DrainRow
    <3>2. /\ busy \in Tasks /\ pc[busy] = "near" /\ job[busy] \in Jobs
          /\ Computing(job[busy])
      BY <3>1, FarIsCurrent DEF NoRowPending
    <3>3. LoopInProgress = job[busy] /\ LoopInProgress' = LoopInProgress
      BY <3>1, <3>2 DEF LoopInProgress
    <3>4. yPend[r] = job[busy] /\ r < NRows[job[busy]]
      <4>1. yPend[r] = job[busy] /\ r < farRow /\ farRow <= NRows[job[busy]]
        BY <3>1, <3>2 DEF Computing
      <4>2. farRow \in Nat
        BY HandshakeAssumption DEF IInv, TypeOK
      <4> QED
        BY <3>2, <4>1, <4>2, JobFacts, HandshakeAssumption DEF Row
    <3>5. r \in Abstract!RowsOf(job[busy])
      BY <3>2, <3>4, JobFacts, HandshakeAssumption DEF Abstract!RowsOf, Row
    <3>6. y' = [q \in Row |-> IF q \in {r} THEN job[busy] ELSE y[q]]
      BY <2>0, <3>1, <3>4
    <3> QED
      BY <2>0, <3>2, <3>3, <3>5, <3>6, JobFacts DEF Abstract!Compute
  <2>9. CASE UNCHANGED vars
    BY <2>9 DEF vars, LoopInProgress
  <2>10. \A r \in Row : {r} \in SUBSET Abstract!Row
    BY <2>0
  <2>11. ASSUME NEW t \in Tasks, OwnRow(t) PROVE {i[t]} \in SUBSET Abstract!Row
    <3>1. i[t] \in Nat /\ i[t] < OwnEnd(t) /\ job[t] \in Jobs
      BY <2>11 DEF OwnRow, IInv, TypeOK, LockInv
    <3> QED
      BY <2>0, <3>1, JobFacts, HandshakeAssumption DEF OwnEnd, Row
  <2> QED
    BY <2>2, <2>3, <2>4, <2>5, <2>6, <2>7, <2>8, <2>9, <2>10, <2>11
       DEF Next, InCall, Abstract!Next
<1> QED
  BY <1>1, <1>3, Invariance, PTL DEF Spec, ImplementsParallelFor, Abstract!Spec
=============================================================================
