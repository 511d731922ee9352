----------------------------- MODULE MCRunClient -----------------------------
\* RunClient on the instance of RunClient.cfg.
EXTENDS RunClient
=============================================================================
