---------------------------- MODULE MCAttnBounds ----------------------------
EXTENDS AttnBounds
=============================================================================
