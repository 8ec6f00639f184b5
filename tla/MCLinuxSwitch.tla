--------------------------- MODULE MCLinuxSwitch ---------------------------
(* Two interfaces are enough for one to keep a VLAN in use while the other *)
(* leaves it; VLAN 1 cannot be deleted, VLAN 2 can.                        *)
EXTENDS LinuxSwitch, TLC

Symmetry == Permutations(Interfaces)

\* After a failed kernel call, or a VLAN list changed on a routed interface,
\* only one interface goes on: what such a history spoils it spoils for each
\* interface by itself.
OneAfterTrouble == Regular \/ Cardinality(DOMAIN port) <= 1

\* "up" and the VLAN interfaces are read only where a bridge may be made or
\* deleted: the bridges that never are stay up, and without a VLAN interface.
DefaultsAsStarted == DefaultVlans \subseteq up \ vlanIfs

\* No operation reads the descriptions, or what was refused or strayed, and
\* properties read those two in a regular history only: states that differ in
\* nothing else count as one.
WhatIsRead == <<vlans, vlanIfs, port, entry, bridges, up, devs, at, faults, damage,
                Regular, IF Regular THEN refused ELSE {}>>
=============================================================================
