--------------------------- MODULE MCWorkerDriver ---------------------------
EXTENDS WorkerDriver

\* The first worker has a second step, the second has none.
Ceilings == <<2, 1>>
=============================================================================
