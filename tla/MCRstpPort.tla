----------------------------- MODULE MCRstpPort -----------------------------
(* A forward delay of two seconds; timers wrap at five.                    *)
EXTENDS RstpPort

\* Bound: a history in which the handler tore the timer goes no further, and
\* one in which memory was not zero at first has one event.
Whole == ~torn /\ (port.reRooted \/ ~initiated => events <= 1)
=============================================================================
