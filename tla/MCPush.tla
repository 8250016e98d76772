------------------------------- MODULE MCPush -------------------------------
EXTENDS PushLiveness
=============================================================================
