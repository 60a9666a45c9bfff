-------------------------- MODULE SplitHandshake ---------------------------
(***************************************************************************)
(* The dual-core row split of firmware/main/fw_main.c: split_run on core 0 *)
(* hands the upper half of a row loop to core1_worker through raw          *)
(* volatiles and waits for it.  The callers are the tasks of core 0 that   *)
(* may run a query (the console task, which also boots the board, and the  *)
(* HTTP server task); they exclude each other with net.c's g_busy.         *)
(*                                                                         *)
(* Memory.  Every word of the handshake has one writer.  A store sits in   *)
(* its core's store buffer (pend, yPend) until it drains to memory, and    *)
(* stores to different words drain in any order; __sync_synchronize waits  *)
(* for the core's buffer to be empty.  A core reads its own pending stores *)
(* and, of the other core's words, memory only.  Loads are not reordered.  *)
(*                                                                         *)
(* Output rows written by core 0 are stored at once: no other core reads   *)
(* them before core 0's next fence.                                        *)
(***************************************************************************)
EXTENDS Naturals

CONSTANTS
  Tasks,     \* tasks of core 0 that run queries
  Main,      \* the one that runs app_main: boot, then the console
  Jobs,      \* the row loops the engine asks for
  Kind,      \* Kind[j] \in 0..3: gemv, gemm, attention heads, scalar loop
  NRows,     \* NRows[j]: rows (heads, indices) of job j
  MaxRows,   \* the largest of them
  MinSplit,  \* loops shorter than this are not split (NE_SPLIT_MIN_ROWS, NE_FOR_MIN)
  None,      \* no task holds the lock; no store is pending
  NoJob      \* NULL as a job; also the content of a row not written yet

ASSUME HandshakeAssumption ==
  /\ Main \in Tasks
  /\ None \notin Tasks
  /\ NoJob \notin Jobs
  /\ None \notin Jobs \cup {NoJob} \cup Nat
  /\ Kind \in [Jobs -> 0 .. 3]
  /\ MaxRows \in Nat
  /\ NRows \in [Jobs -> 1 .. MaxRows]
  /\ MinSplit \in Nat

VARIABLES
  busy,   \* holder of g_busy
  pc,     \* pc[t]: where task t is
  job,    \* job[t]: the loop t is in, or was in last
  i,      \* i[t]: next row of t's own half
  wpc,    \* where core1_worker is
  farJob, \* the job core1_worker's kernel was called with,
  farRow, \* the row it is at,
  farEnd, \* and where it stops
  mem,    \* the words of the handshake, as memory holds them
  pend,   \* pend[w]: value of w still in its writer's store buffer, or None
  y,      \* y[r]: the job that wrote row r since the call began
  yPend   \* rows core 1 has stored and not drained

taskVars   == <<busy, pc, job, i>>
workerVars == <<wpc, farJob, farRow, farEnd>>
memVars    == <<mem, pend, y, yPend>>
vars       == <<taskVars, workerVars, memVars>>

-----------------------------------------------------------------------------

DescWords  == {"w_job", "w_kind", "w_r0", "w_r1", "w_arg"}
Core0Words == DescWords \cup {"w_go"}
Core1Words == {"w_done", "w_ready"}
Words      == Core0Words \cup Core1Words

Row       == 0 .. MaxRows - 1
RowsOf(j) == 0 .. NRows[j] - 1
Mid(j)    == NRows[j] \div 2

(* What a word of the handshake may hold.                                  *)
Value == Jobs \cup {NoJob} \cup Nat

(* The engine splits a loop only when it is long enough.                   *)
Splits(j) == NRows[j] >= MinSplit

(* split_for and split_run store the description of job j.  Only kind 3    *)
(* stores w_fn and w_arg (one word here), and its w_job is NULL.           *)
StoreDesc(j) ==
  pend' = [pend EXCEPT !["w_job"]  = IF Kind[j] = 3 THEN NoJob ELSE j,
                       !["w_kind"] = Kind[j],
                       !["w_r0"]   = Mid(j),
                       !["w_r1"]   = NRows[j],
                       !["w_arg"]  = IF Kind[j] = 3 THEN j ELSE @]

Store(w, v) == pend' = [pend EXCEPT ![w] = v]

(* What the writer of w reads from it.                                     *)
Own(w) == IF pend[w] # None THEN pend[w] ELSE mem[w]

(* __sync_synchronize on either core.                                      *)
Fence0 == \A w \in Core0Words : pend[w] = None
Fence1 == /\ \A w \in Core1Words : pend[w] = None
          /\ \A r \in Row : yPend[r] = None

(* A kernel of the given kind run on a job structure produces that job's   *)
(* rows only if it is the kernel the job was made for.                     *)
Result(kind, p) == IF p \in Jobs /\ Kind[p] = kind THEN p ELSE NoJob

-----------------------------------------------------------------------------

Init ==
  /\ busy = None
  /\ pc = [t \in Tasks |-> IF t = Main THEN "boot" ELSE "idle"]
  /\ job = [t \in Tasks |-> NoJob]
  /\ i = [t \in Tasks |-> 0]
  /\ wpc = "boot"
  /\ farJob = NoJob /\ farRow = 0 /\ farEnd = 0
  /\ mem = [w \in Words |-> IF w \in {"w_job", "w_arg"} THEN NoJob ELSE 0]
  /\ pend = [w \in Words |-> None]
  /\ y = [r \in Row |-> NoJob]
  /\ yPend = [r \in Row |-> None]

Goto(t, l) == pc' = [pc EXCEPT ![t] = l]

(* app_main waits for w_ready, installs the hooks, starts the server.      *)
Arm(t) ==
  /\ pc[t] = "boot"
  /\ mem["w_ready"] = 1
  /\ Goto(t, "idle")
  /\ UNCHANGED <<busy, job, i, workerVars, memVars>>

(* MUTANT: the lock is not looked at.                                      *)
AcquireBlind(t) ==
  /\ pc[t] = "idle"
  /\ pc[Main] # "boot"
  /\ busy' = t
  /\ Goto(t, "query")
  /\ UNCHANGED <<job, i, workerVars, memVars>>

(* net_infer_try_lock succeeds; a task it refuses changes nothing.         *)
Acquire(t) ==
  /\ pc[t] = "idle"
  /\ pc[Main] # "boot"
  /\ busy = None
  /\ busy' = t
  /\ Goto(t, "query")
  /\ UNCHANGED <<job, i, workerVars, memVars>>

Release(t) ==
  /\ pc[t] = "query"
  /\ busy' = None
  /\ Goto(t, "idle")
  /\ UNCHANGED <<job, i, workerVars, memVars>>

(* The engine reaches a row loop: too short, it runs it alone; otherwise   *)
(* split_for and split_run store the job's description.                    *)
Call(t, j) ==
  /\ pc[t] = "query"
  /\ job' = [job EXCEPT ![t] = j]
  /\ i' = [i EXCEPT ![t] = 0]
  /\ y' = [r \in Row |-> NoJob]
  /\ IF Splits(j) THEN Goto(t, "publish") /\ StoreDesc(j)
                  ELSE Goto(t, "alone") /\ UNCHANGED pend
  /\ UNCHANGED <<busy, workerVars, mem, yPend>>

(* MUTANT: w_go is raised without the fence before it.                     *)
GoUnfenced(t) ==
  /\ pc[t] = "publish"
  /\ Store("w_go", 1)
  /\ Goto(t, "near")
  /\ UNCHANGED <<busy, job, i, workerVars, mem, y, yPend>>

(* Fence, then w_go = 1.                                                   *)
Go(t) ==
  /\ pc[t] = "publish"
  /\ Fence0
  /\ Store("w_go", 1)
  /\ Goto(t, "near")
  /\ UNCHANGED <<busy, job, i, workerVars, mem, y, yPend>>

(* MUTANT: core 0 rounds its half up, core 1 starts at rows / 2.           *)
OwnEndRoundedUp(t) ==
  IF pc[t] = "alone" THEN NRows[job[t]] ELSE (NRows[job[t]] + 1) \div 2

(* The rows core 0 computes itself: [0, mid) of a split loop, all of one   *)
(* it runs alone.  A split scalar loop calls w_fn(w_arg).                  *)
OwnEnd(t) == IF pc[t] = "alone" THEN NRows[job[t]] ELSE Mid(job[t])

OwnOperand(t) ==
  IF pc[t] = "near" /\ Kind[job[t]] = 3 THEN Own("w_arg") ELSE job[t]

OwnRow(t) ==
  /\ pc[t] \in {"near", "alone"}
  /\ i[t] < OwnEnd(t)
  /\ y' = [y EXCEPT ![i[t]] = Result(Kind[job[t]], OwnOperand(t))]
  /\ i' = [i EXCEPT ![t] = @ + 1]
  /\ UNCHANGED <<busy, pc, job, workerVars, mem, pend, yPend>>

ReturnAlone(t) ==
  /\ pc[t] = "alone"
  /\ i[t] >= OwnEnd(t)
  /\ Goto(t, "query")
  /\ UNCHANGED <<busy, job, i, workerVars, memVars>>

(* MUTANT: core 0 does not wait for the far half.                          *)
SeeDoneBlind(t) ==
  /\ pc[t] = "near"
  /\ i[t] >= OwnEnd(t)
  /\ Fence0
  /\ Store("w_go", 0)
  /\ Goto(t, "close")
  /\ UNCHANGED <<busy, job, i, workerVars, mem, y, yPend>>

(* while (!w_done); fence; w_go = 0.                                       *)
SeeDone(t) ==
  /\ pc[t] = "near"
  /\ i[t] >= OwnEnd(t)
  /\ mem["w_done"] = 1
  /\ Fence0
  /\ Store("w_go", 0)
  /\ Goto(t, "close")
  /\ UNCHANGED <<busy, job, i, workerVars, mem, y, yPend>>

(* MUTANT: the half-closed handshake, without the last while (w_done).     *)
ReturnHalfClosed(t) ==
  /\ pc[t] = "close"
  /\ Fence0
  /\ Goto(t, "query")
  /\ UNCHANGED <<busy, job, i, workerVars, memVars>>

(* while (w_done); fence; return.                                          *)
Return(t) ==
  /\ pc[t] = "close"
  /\ mem["w_done"] = 0
  /\ Fence0
  /\ Goto(t, "query")
  /\ UNCHANGED <<busy, job, i, workerVars, memVars>>

-----------------------------------------------------------------------------

(* core1_worker suspends its own scheduler for good and reports ready.     *)
WorkerReady ==
  /\ wpc = "boot"
  /\ Store("w_ready", 1)
  /\ wpc' = "wait"
  /\ UNCHANGED <<taskVars, farJob, farRow, farEnd, mem, y, yPend>>

(* while (!w_go); fence; the switch reads the description and calls.       *)
WorkerTake ==
  /\ wpc = "wait"
  /\ mem["w_go"] = 1
  /\ Fence1
  /\ farJob' = Result(mem["w_kind"], IF mem["w_kind"] = 3 THEN mem["w_arg"]
                                                          ELSE mem["w_job"])
  /\ farRow' = mem["w_r0"]
  /\ farEnd' = mem["w_r1"]
  /\ wpc' = "far"
  /\ UNCHANGED <<taskVars, memVars>>

(* MUTANT: core 1 computes one row past the end of the range.              *)
FarRowInclusive ==
  /\ wpc = "far"
  /\ farRow <= farEnd
  /\ yPend' = [yPend EXCEPT ![farRow] = farJob]
  /\ farRow' = farRow + 1
  /\ UNCHANGED <<taskVars, wpc, farJob, farEnd, mem, pend, y>>

(* One row of the far half.                                                *)
FarRow ==
  /\ wpc = "far"
  /\ farRow < farEnd
  /\ yPend' = [yPend EXCEPT ![farRow] = farJob]
  /\ farRow' = farRow + 1
  /\ UNCHANGED <<taskVars, wpc, farJob, farEnd, mem, pend, y>>

(* MUTANT: w_done is raised without the fence before it.                   *)
WorkerDoneUnfenced ==
  /\ wpc = "far"
  /\ farRow >= farEnd
  /\ Store("w_done", 1)
  /\ wpc' = "hold"
  /\ UNCHANGED <<taskVars, farJob, farRow, farEnd, mem, y, yPend>>

(* The kernel returns; fence; w_done = 1.                                  *)
WorkerDone ==
  /\ wpc = "far"
  /\ farRow >= farEnd
  /\ Fence1
  /\ Store("w_done", 1)
  /\ wpc' = "hold"
  /\ UNCHANGED <<taskVars, farJob, farRow, farEnd, mem, y, yPend>>

(* MUTANT: w_done is pulsed instead of held until core 0 has seen it.      *)
WorkerLeaveEarly ==
  /\ wpc = "hold"
  /\ Store("w_done", 0)
  /\ wpc' = "wait"
  /\ UNCHANGED <<taskVars, farJob, farRow, farEnd, mem, y, yPend>>

(* while (w_go); w_done = 0.                                               *)
WorkerLeave ==
  /\ wpc = "hold"
  /\ mem["w_go"] = 0
  /\ Store("w_done", 0)
  /\ wpc' = "wait"
  /\ UNCHANGED <<taskVars, farJob, farRow, farEnd, mem, y, yPend>>

-----------------------------------------------------------------------------

(* A store leaves its core's buffer.                                       *)
Drain(w) ==
  /\ pend[w] # None
  /\ mem' = [mem EXCEPT ![w] = pend[w]]
  /\ pend' = [pend EXCEPT ![w] = None]
  /\ UNCHANGED <<taskVars, workerVars, y, yPend>>

DrainRow(r) ==
  /\ yPend[r] # None
  /\ y' = [y EXCEPT ![r] = yPend[r]]
  /\ yPend' = [yPend EXCEPT ![r] = None]
  /\ UNCHANGED <<taskVars, workerVars, mem, pend>>

(* One call's steps on core 0 after it was entered.                        *)
InCall(t) == Go(t) \/ OwnRow(t) \/ ReturnAlone(t) \/ SeeDone(t) \/ Return(t)

Worker == WorkerReady \/ WorkerTake \/ FarRow \/ WorkerDone \/ WorkerLeave

Next ==
  \/ \E t \in Tasks : \/ Arm(t) \/ Acquire(t) \/ Release(t)
                      \/ \E j \in Jobs : Call(t, j)
                      \/ InCall(t)
  \/ Worker
  \/ \E w \in Words : Drain(w)
  \/ \E r \in Row : DrainRow(r)

Spec == Init /\ [][Next]_vars

(* Core 1 runs nothing but the worker, the holder of g_busy is the only    *)
(* task of core 0 that can be in a call, and store buffers drain.          *)
Fairness ==
  /\ \A t \in Tasks : WF_vars(InCall(t))
  /\ WF_vars(Worker)
  /\ \A w \in Words : WF_vars(Drain(w))
  /\ \A r \in Row : WF_vars(DrainRow(r))

FairSpec == Spec /\ Fairness

-----------------------------------------------------------------------------

Running == {"publish", "near", "close", "alone"}

TypeOK ==
  /\ busy \in Tasks \cup {None}
  /\ pc \in [Tasks -> {"boot", "idle", "query"} \cup Running]
  /\ job \in [Tasks -> Jobs \cup {NoJob}]
  /\ i \in [Tasks -> 0 .. MaxRows]
  /\ wpc \in {"boot", "wait", "far", "hold"}
  /\ farJob \in Jobs \cup {NoJob}
  /\ farRow \in 0 .. MaxRows
  /\ farEnd \in 0 .. MaxRows
  /\ mem \in [Words -> Value]
  /\ pend \in [Words -> Value \cup {None}]
  /\ y \in [Row -> Jobs \cup {NoJob}]
  /\ yPend \in [Row -> Jobs \cup {NoJob, None}]

(* When core 0 goes to leave split_run, every row of the range was written *)
(* for this call's job, by whichever core: the far half is never a         *)
(* previous job's.  (The failure the comment at fw_main.c:101-107 is       *)
(* about: silent wrong logits, no hang, no crash.)                         *)
WholeRange ==
  \A t \in Tasks :
    /\ pc[t] = "close" => \A r \in RowsOf(job[t]) : y[r] = job[t]
    /\ pc[t] = "alone" /\ i[t] = NRows[job[t]] =>
         \A r \in RowsOf(job[t]) : y[r] = job[t]

(* Between calls the handshake is at rest: both signals are down in memory *)
(* and in the buffers, the worker waits for a go, and no output row of its *)
(* is still in flight.  (split_run's last while (w_done).)                 *)
ClosedBetweenCalls ==
  (\A t \in Tasks : pc[t] \notin Running) =>
    /\ Own("w_go") = 0 /\ mem["w_go"] = 0
    /\ Own("w_done") = 0 /\ mem["w_done"] = 0
    /\ wpc \in {"boot", "wait"}
    /\ \A r \in Row : yPend[r] = None

(* While the worker computes, it computes the upper half of the very job   *)
(* the holder of g_busy is in: the arguments it read are neither torn nor  *)
(* left over from an earlier job.                                          *)
WorkerOnCurrentJob ==
  wpc = "far" =>
    /\ busy \in Tasks
    /\ pc[busy] = "near"
    /\ farJob = job[busy]
    /\ Mid(job[busy]) <= farRow
    /\ farEnd = NRows[job[busy]]

(* The two halves never touch the same row: a row in core 1's hands is     *)
(* never one core 0 writes in the same call (fw_main.c:77-80).             *)
DisjointHalves ==
  \A r \in Row : yPend[r] # None =>
    /\ busy \in Tasks
    /\ pc[busy] = "near" /\ r >= OwnEnd(busy)
    /\ y[r] = NoJob

(* One row loop at a time, and only by the task that holds g_busy: the     *)
(* handshake words serve one caller (net.c:63-67, fw_main.c:338-340).      *)
OneCaller == \A t \in Tasks : pc[t] \in Running \cup {"query"} => busy = t

(* Every call comes back: core 0 is never left spinning on a signal that   *)
(* core 1 has passed or will not give (split_run, core1_worker).           *)
CallsReturn == \A t \in Tasks : (pc[t] \in Running) ~> (pc[t] = "query")

-----------------------------------------------------------------------------

(* The handshake implements the parallel loop.                             *)
LoopInProgress ==
  IF busy \in Tasks /\ pc[busy] \in Running THEN job[busy] ELSE NoJob

Abstract == INSTANCE ParallelFor WITH loop <- LoopInProgress, None <- NoJob

ImplementsParallelFor == Abstract!Spec
=============================================================================
