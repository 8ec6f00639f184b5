---------------------------- MODULE AtomicConfig ----------------------------
(***************************************************************************)
(* What the shared memory area promises to the programs that keep their    *)
(* configuration in it: switch_set_cdp() and switch_set_rstp() replace the *)
(* whole structure at once, switch_get_cdp() and switch_get_rstp() return  *)
(* a structure that was stored whole.                                      *)
(***************************************************************************)
CONSTANTS Thread,   \* the threads of all the programs
          Value,    \* the configurations
          Zero      \* the all-zero configuration of a fresh area

VARIABLES stored,   \* the configuration in the area
          got       \* what each thread's last get returned

TypeOK ==
  /\ stored \in Value
  /\ got \in [Thread -> Value]

Init ==
  /\ stored = Zero
  /\ got = [t \in Thread |-> Zero]

Set(v) ==
  /\ stored' = v
  /\ UNCHANGED got

Get(t) ==
  /\ got' = [got EXCEPT ![t] = stored]
  /\ UNCHANGED stored

Next ==
  \/ \E v \in Value : Set(v)
  \/ \E t \in Thread : Get(t)

Spec == Init /\ [][Next]_<<stored, got>>
=============================================================================
