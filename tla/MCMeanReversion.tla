----------------------------- MODULE MCMeanReversion -----------------------------
EXTENDS MeanReversion
===============================================================================
