------------------------------ MODULE MCShmLock ------------------------------
(* Values of ProcOf: command line programs have one thread each, while the *)
(* sender and the receiver of cdpd are threads of one process.             *)
EXTENDS ShmLock

OneThreadEach == [t \in Thread |-> t]

OneProcess == [t \in Thread |-> CHOOSE p \in Proc : TRUE]
=============================================================================
