---------------------------- MODULE MCNodeStatus ----------------------------
EXTENDS NodeStatus
=============================================================================
