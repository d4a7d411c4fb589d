-------------------------- MODULE MCLosslessEncoder --------------------------
EXTENDS LosslessEncoder, TLC
=============================================================================
