--------------------------- MODULE MCPositionExecutor ---------------------------
EXTENDS PositionExecutor
===============================================================================
