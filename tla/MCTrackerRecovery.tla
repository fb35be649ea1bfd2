---- MODULE MCTrackerRecovery ----
EXTENDS TrackerRecovery
====
