----------------------------- MODULE MCExecutor -----------------------------
\* The executor and the keyboard stream for TLC; the bounds are in Executor.cfg.
EXTENDS Executor
=============================================================================
