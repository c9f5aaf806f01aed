------------------------------ MODULE MCPollWait ------------------------------
EXTENDS PollWait
=============================================================================
