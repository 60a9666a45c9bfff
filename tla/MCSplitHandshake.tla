------------------------- MODULE MCSplitHandshake --------------------------
(* Two callers; a gemv and a scalar loop of three rows (the halves differ  *)
(* in length), a gemm of two, and a scalar loop too short to split.        *)
EXTENDS SplitHandshake, TLC

CONSTANTS console, httpd, gemv, gemm, norm, tiny

MCTasks == {console, httpd}
MCJobs  == {gemv, gemm, norm, tiny}
MCKind  == gemv :> 0 @@ gemm :> 1 @@ norm :> 3 @@ tiny :> 3
MCNRows == gemv :> 3 @@ gemm :> 2 @@ norm :> 3 @@ tiny :> 1
=============================================================================
