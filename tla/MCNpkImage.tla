----------------------------- MODULE MCNpkImage -----------------------------
EXTENDS NpkImage

MCTensors ==
  <<[name |-> "embed_tokens", rows |-> 3, cols |-> 8],
    [name |-> "norm", rows |-> 5, cols |-> 0],
    [name |-> "q_proj", rows |-> 2, cols |-> 8],
    [name |-> "gate", rows |-> 1, cols |-> 0],
    [name |-> "v_proj", rows |-> 1, cols |-> 8]>>

MCNeeded == {"embed_tokens", "norm", "q_proj", "gate", "v_proj"}
=============================================================================
