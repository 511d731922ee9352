------------------------- MODULE MCExecutionServer -------------------------
\* ExecutionServer on a small set of requests.
EXTENDS ExecutionServer
=============================================================================
