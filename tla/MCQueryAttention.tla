-------------------------- MODULE MCQueryAttention --------------------------
EXTENDS QueryAttention
=============================================================================
