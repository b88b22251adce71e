------------------------------ MODULE MCStream ------------------------------
EXTENDS FlowIngest
=============================================================================
