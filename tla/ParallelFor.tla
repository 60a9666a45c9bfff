---------------------------- MODULE ParallelFor ----------------------------
(***************************************************************************)
(* What the engine expects of the row-parallel hooks (ne_split_rows,       *)
(* ne_split_gemm, ne_split_attn, ne_split_for): a call computes every row  *)
(* of its range, for the job it was given, before it returns, and calls do *)
(* not overlap.  Nothing is said here of cores, signals or memory.         *)
(***************************************************************************)
EXTENDS Naturals

CONSTANTS
  Jobs,     \* the row loops the engine runs
  NRows,    \* NRows[j]: how many rows job j has, at least one
  MaxRows,  \* no job has more rows than this
  None      \* no job; also the content of a row not written yet

VARIABLES
  loop,  \* the job whose call is in progress, None between calls
  y      \* y[r]: the job that wrote output row r since the call began

pfVars == <<loop, y>>

Row      == 0 .. MaxRows - 1
RowsOf(j) == 0 .. NRows[j] - 1

Init ==
  /\ loop = None
  /\ y = [r \in Row |-> None]

(* The caller enters the loop: no row of its output counts as written.     *)
Begin(j) ==
  /\ loop = None
  /\ loop' = j
  /\ y' = [r \in Row |-> None]

(* Some core finishes some rows of the job in progress.                    *)
Compute(rows) ==
  /\ loop # None
  /\ rows \subseteq RowsOf(loop)
  /\ y' = [r \in Row |-> IF r \in rows THEN loop ELSE y[r]]
  /\ UNCHANGED loop

(* The caller gets control back only when the whole range is this job's.   *)
Return ==
  /\ loop # None
  /\ \A r \in RowsOf(loop) : y[r] = loop
  /\ loop' = None
  /\ UNCHANGED y

Next ==
  \/ \E j \in Jobs : Begin(j)
  \/ \E rows \in SUBSET Row : Compute(rows)
  \/ Return

Spec == Init /\ [][Next]_pfVars
=============================================================================
