------------------------------- MODULE MCMonitor -------------------------------
EXTENDS Monitor

CONSTANTS p1, p2, t1, t2

\* gunicorn with two workers, or waitress with two threads.
Servers ==
  {[t \in {t1, t2} |-> IF t = t1 THEN p1 ELSE p2], [t \in {t1, t2} |-> p1]}
=============================================================================
