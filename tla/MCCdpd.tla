-------------------------------- MODULE MCCdpd --------------------------------
(* Two neighbours on one interface and one on the other: a heap of three   *)
(* entries is the least in which the last entry becomes the root unsifted. *)
EXTENDS Cdpd
CONSTANTS e1, e2, d1, d2

MCInterfaces == {e1, e2}
MCStations == {<<e1, d1>>, <<e1, d2>>, <<e2, d1>>}

\* Once the client has asked, one neighbour is enough, and one second in which
\* its entry may expire: the listener and the two other threads meet in the
\* semaphores of the lists only.
OneOnceAsked ==
    client.id = 0 \/ (now <= 1 /\ \A a, b \in DOMAIN node : a[1] = b[1])

\* Bound: only the first request is for every interface.
EveryFirst == \A k \in DOMAIN requests : requests[k].if_index = Every => requests[k].id = 1
=============================================================================
