------------------------- MODULE MCClientOrderTracker -------------------------
EXTENDS ClientOrderTracker
===============================================================================
