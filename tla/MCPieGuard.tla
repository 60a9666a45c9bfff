----------------------------- MODULE MCPieGuard -----------------------------
(* The tests of kernel_unit_tests in their order.                          *)
EXTENDS PieGuard

MCTests == <<"row_i8", "row_i4", "rowsum_i8", "rowsum_i4", "rowsum_i8", "dots">>
=============================================================================
