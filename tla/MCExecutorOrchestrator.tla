------------------------- MODULE MCExecutorOrchestrator -------------------------
EXTENDS ExecutorOrchestrator
===============================================================================
