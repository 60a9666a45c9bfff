------------------------------ MODULE PieGuard ------------------------------
(***************************************************************************)
(* Who may interrupt a vector kernel.  The port's lazy save of the vector  *)
(* unit forgets some registers, so a task switch in the middle of a row    *)
(* can spoil it.  core 0 suspends its scheduler around each burst of       *)
(* kernels (crit_enter, crit_exit in firmware/main/fw_main.c, called by    *)
(* the engine); core 1's worker suspends its own once and for all.         *)
(*                                                                         *)
(* On each core the engine's task shares the processor with one more task, *)
(* of higher priority: it runs as soon as it is ready unless the scheduler *)
(* is suspended, and then when it is resumed.  The handshake between the   *)
(* cores is the one of ParallelFor: a call returns when both have finished.*)
(***************************************************************************)
EXTENDS Integers, Sequences

CONSTANTS
  Tests,      \* kernels kernel_unit_tests calls, in order
  MaxProbe,   \* bound: bursts of one encode of the determinism test
  None

(* Registers each kernel carries from one instruction to the next.         *)
Live ==
  [row_i8 |-> {"q0", "q1", "xacc"}, rowsum_i8 |-> {"q0", "q1", "xacc"},
   row_i4 |-> {"q0", "q1", "q2", "q3", "q4", "q6", "q7", "sar", "xacc"},
   rowsum_i4 |-> {"q0", "q1", "q2", "q3", "q4", "q6", "q7", "sar", "xacc"},
   dots |-> {"q0", "q1", "xacc"}]
Kernel == DOMAIN Live

(* What a task switch may lose: q3 is skipped, SAR restored wrong.         *)
Unsaved == {"q3", "sar"}

ASSUME GuardAssumption ==
  /\ Tests \in Seq(Kernel)
  /\ MaxProbe \in Nat
  /\ None \notin Kernel \cup {"scalar"}

Core == {0, 1}
Work == Kernel \cup {"scalar"}

VARIABLES
  stage,   \* of app_main: tests, probe (determinism), arm, run
  step,    \* tests run; then probes and bursts of the current probe
  job,     \* the call in progress, a kernel or a scalar loop
  todo,    \* todo[c]: the call still has rows for core c
  kern,    \* kern[c]: the kernel core c is inside
  lost,    \* lost[c]: registers lost since that row began
  depth,   \* depth[c]: vTaskSuspendAll calls not yet resumed
  on,      \* on[c]: the task that has core c
  pend,    \* pend[c]: the other task is ready and held off
  worker,  \* none, created, ready
  bad      \* stages in which a row came out wrong

callVars == <<job, todo>>
rowVars == <<kern, lost, bad>>
coreVars == <<depth, on, pend>>
guardVars == <<stage, step, callVars, rowVars, coreVars, worker>>

GuardInit ==
  /\ stage = "tests" /\ step = <<0, 0>>
  /\ job = None /\ todo = [c \in Core |-> FALSE]
  /\ kern = [c \in Core |-> None] /\ lost = [c \in Core |-> {}] /\ bad = {}
  /\ depth = [c \in Core |-> 0] /\ pend = [c \in Core |-> FALSE]
  /\ on = [c \in Core |-> IF c = 0 THEN "engine" ELSE "other"]
  /\ worker = "none"

-----------------------------------------------------------------------------
(* The scheduler.                                                          *)

(* The other task is made ready: it takes the core, and with it whatever   *)
(* the switch does not save, or waits for the scheduler.                   *)
Wake(c) ==
  /\ on[c] = "engine" /\ ~pend[c]
  /\ IF depth[c] = 0
     THEN /\ on' = [on EXCEPT ![c] = "other"]
          /\ \E r \in SUBSET Unsaved : lost' = [lost EXCEPT ![c] = @ \cup r]
          /\ UNCHANGED pend
     ELSE pend' = [pend EXCEPT ![c] = TRUE] /\ UNCHANGED <<on, lost>>
  /\ UNCHANGED <<stage, step, callVars, kern, bad, depth, worker>>

(* It blocks, and the engine's task, if there is one, goes on.             *)
Block(c) ==
  /\ on[c] = "other" /\ (c = 1 => worker # "none")
  /\ on' = [on EXCEPT ![c] = "engine"]
  /\ UNCHANGED <<stage, step, callVars, rowVars, depth, pend, worker>>

Suspend(c) == depth' = [depth EXCEPT ![c] = @ + 1] /\ UNCHANGED <<on, pend>>

(* A switch held off happens when the last suspension ends.                *)
Resume(c) ==
  LET yield == depth[c] = 1 /\ pend[c]
  IN  /\ depth' = [depth EXCEPT ![c] = @ - 1]
      /\ on' = [on EXCEPT ![c] = IF yield THEN "other" ELSE @]
      /\ pend' = [pend EXCEPT ![c] = @ /\ ~yield]

-----------------------------------------------------------------------------
(* Rows.                                                                   *)

StartRow(c, k) ==
  /\ on[c] = "engine" /\ kern[c] = None
  /\ kern' = [kern EXCEPT ![c] = k]
  /\ lost' = [lost EXCEPT ![c] = {}]
  /\ UNCHANGED bad

EndRow(c) ==
  /\ on[c] = "engine" /\ kern[c] # None
  /\ bad' = IF lost[c] \cap Live[kern[c]] = {} THEN bad ELSE bad \cup {stage}
  /\ kern' = [kern EXCEPT ![c] = None]
  /\ UNCHANGED lost

(* kernel_unit_tests: each kernel called once, by app_main itself.         *)
Test ==
  /\ stage = "tests" /\ step[1] < Len(Tests)
  /\ StartRow(0, Tests[step[1] + 1])
  /\ UNCHANGED <<stage, step, callVars, coreVars, worker>>

TestDone ==
  /\ stage = "tests" /\ EndRow(0)
  /\ step' = <<step[1] + 1, 0>>
  /\ UNCHANGED <<stage, callVars, coreVars, worker>>

-----------------------------------------------------------------------------
(* Calls of the engine: a burst of kernel rows under the guard, or a       *)
(* scalar loop (run_for), which takes no guard.                            *)

(* MUTANT: only the split bursts take the guard.                           *)
CallUnguarded(work, both) ==
  /\ on[0] = "engine" /\ job = None
  /\ both => worker = "ready" /\ stage = "run"
  /\ job' = work /\ todo' = [c \in Core |-> c = 0 \/ both]
  /\ IF work = "scalar" \/ ~both THEN UNCHANGED coreVars ELSE Suspend(0)
  /\ UNCHANGED <<rowVars, stage, worker>>

(* Attention over the whole prompt always splits; one decode row never;    *)
(* projections and scalar loops when they are long.                        *)
Call(work, both) ==
  /\ on[0] = "engine" /\ job = None
  /\ both => worker = "ready" /\ stage = "run"
  /\ job' = work /\ todo' = [c \in Core |-> c = 0 \/ both]
  /\ IF work = "scalar" THEN UNCHANGED coreVars ELSE Suspend(0)
  /\ UNCHANGED <<rowVars, stage, worker>>

(* With ne_force_scalar only project_block still calls a kernel.           *)
ProbeBurst ==
  /\ stage = "probe" /\ depth[0] = 1 /\ step[2] < MaxProbe
  /\ Call("rowsum_i8", FALSE)
  /\ step' = <<step[1], step[2] + 1>>

QueryBurst == stage = "run" /\ \E work \in Work, both \in BOOLEAN : Call(work, both) /\ UNCHANGED step

(* The rows of one core; the kernel does not take the guard itself.        *)
RunRow(c) ==
  /\ todo[c] /\ job # "scalar" /\ StartRow(c, job)
  /\ UNCHANGED <<stage, step, callVars, coreVars, worker>>

RowDone(c) ==
  /\ stage # "tests" /\ todo[c] /\ EndRow(c)
  /\ todo' = [todo EXCEPT ![c] = FALSE]
  /\ UNCHANGED <<stage, step, job, coreVars, worker>>

ScalarHalf(c) ==
  /\ todo[c] /\ job = "scalar" /\ on[c] = "engine"
  /\ todo' = [todo EXCEPT ![c] = FALSE]
  /\ UNCHANGED <<stage, step, job, rowVars, coreVars, worker>>

(* MUTANT: attention leaves the guard to the next burst.                    *)
ReturnKeepsGuard ==
  /\ job # None /\ on[0] = "engine" /\ \A c \in Core : ~todo[c]
  /\ job' = None
  /\ IF job \in {"scalar", "dots"} THEN UNCHANGED coreVars ELSE Resume(0)
  /\ UNCHANGED <<todo, stage, step, rowVars, worker>>

Return ==
  /\ job # None /\ on[0] = "engine" /\ \A c \in Core : ~todo[c]
  /\ job' = None
  /\ IF job = "scalar" THEN UNCHANGED coreVars ELSE Resume(0)
  /\ UNCHANGED <<todo, stage, step, rowVars, worker>>

-----------------------------------------------------------------------------
(* Boot.                                                                   *)

Tested ==
  /\ stage = "tests" /\ step[1] = Len(Tests) /\ on[0] = "engine"
  /\ stage' = "probe" /\ step' = <<0, 0>>
  /\ UNCHANGED <<callVars, rowVars, coreVars, worker>>

(* determinism_selftest: two probes, each under a suspension of its own.   *)
Probe ==
  /\ stage = "probe" /\ step[1] < 2 /\ depth[0] = 0 /\ on[0] = "engine"
  /\ Suspend(0)
  /\ UNCHANGED <<stage, step, callVars, rowVars, worker>>

ProbeDone ==
  /\ stage = "probe" /\ job = None /\ depth[0] = 1 /\ on[0] = "engine"
  /\ Resume(0) /\ step' = <<step[1] + 1, 0>>
  /\ stage' = IF step[1] = 1 THEN "arm" ELSE stage
  /\ UNCHANGED <<callVars, rowVars, worker>>

CreateWorker ==
  /\ stage = "arm" /\ worker = "none" /\ on[0] = "engine"
  /\ worker' = "created"
  /\ UNCHANGED <<stage, step, callVars, rowVars, coreVars>>

(* MUTANT: the worker leaves its scheduler running.                        *)
WorkerUnguarded ==
  /\ worker = "created" /\ on[1] = "engine"
  /\ worker' = "ready"
  /\ UNCHANGED <<stage, step, callVars, rowVars, coreVars>>

WorkerReady ==
  /\ worker = "created" /\ on[1] = "engine"
  /\ Suspend(1) /\ worker' = "ready"
  /\ UNCHANGED <<stage, step, callVars, rowVars>>

Arm ==
  /\ stage = "arm" /\ worker = "ready" /\ on[0] = "engine"
  /\ stage' = "run"
  /\ UNCHANGED <<step, callVars, rowVars, coreVars, worker>>

Engine0 ==
  \/ Test \/ TestDone \/ Tested
  \/ Probe \/ ProbeBurst \/ ProbeDone
  \/ CreateWorker \/ Arm
  \/ QueryBurst \/ RunRow(0) \/ RowDone(0) \/ ScalarHalf(0) \/ Return

Engine1 == WorkerReady \/ RunRow(1) \/ RowDone(1) \/ ScalarHalf(1)

GuardNext == Engine0 \/ Engine1 \/ \E c \in Core : Wake(c) \/ Block(c)

(* The engine's tasks never wait for anything but each other; the other    *)
(* tasks block after each piece of work.                                   *)
Fairness == WF_guardVars(Engine0) /\ WF_guardVars(Engine1) /\ \A c \in Core : WF_guardVars(Block(c))

GuardSpec == GuardInit /\ [][GuardNext]_guardVars
FairSpec == GuardSpec /\ Fairness

-----------------------------------------------------------------------------

(* Every variable keeps its shape; suspensions nest at most twice.         *)
GuardTypeOK ==
  /\ stage \in {"tests", "probe", "arm", "run"}
  /\ step \in Nat \X Nat
  /\ job \in Work \cup {None}
  /\ todo \in [Core -> BOOLEAN]
  /\ kern \in [Core -> Kernel \cup {None}]
  /\ lost \in [Core -> SUBSET Unsaved]
  /\ depth \in [Core -> 0 .. 2]
  /\ on \in [Core -> {"engine", "other"}]
  /\ pend \in [Core -> BOOLEAN]
  /\ worker \in {"none", "created", "ready"}
  /\ bad \subseteq {"tests", "probe", "arm", "run"}

(* No row of an inference, nor of the determinism test, is spoilt by a     *)
(* task switch, on either core.                                            *)
RowsIntact == bad \subseteq {"tests"}

(* The guard is taken per burst, not per query: a task that became ready   *)
(* during one burst has run before the next begins (fw_main.c:254-257).    *)
NetworkBetweenBursts ==
  [][stage = "run" /\ job = None /\ job' # None => ~pend[0]]_guardVars

(* A task held off by the guard runs in the end: core 0 spins inside the   *)
(* guard for core 1, which must therefore never be held up itself.         *)
NetworkRuns == pend[0] ~> on[0] = "other"

(* "The kernels must therefore run with the scheduler suspended"           *)
(* (needle_engine.h:175-176), on whichever core they run.                  *)
KernelsGuarded == \A c \in Core : kern[c] # None => depth[c] > 0
=============================================================================
