---------------------------- MODULE MCCommandLine ----------------------------
(* Two operators, a console and two telnet connections.                    *)
EXTENDS CommandLine, TLC
CONSTANTS swcli1, swcli2, swcon, t1, t2

MCShells  == {swcli1, swcli2}
MCTelnets == {t1, t2}
Alike == Permutations(MCShells) \cup Permutations(MCTelnets)

\* Bound: telnet connections, commands on the CDP configuration and two
\* operators in the menus below the second one do not come together.
Apart ==
    LET deep == {s \in Shells : session[s].root \notin {"none", "exec", "config"}}
        telnet == conns \cup forked \cup zombies # {}
    IN  /\ telnet => sets = 0 /\ Cardinality(deep) <= 1
        /\ sets > 0 => deep = {} /\ ports = {}
=============================================================================
