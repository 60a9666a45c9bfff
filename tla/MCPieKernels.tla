---------------------------- MODULE MCPieKernels ----------------------------
EXTENDS PieKernels

MCFill == {-2, 1}
=============================================================================
