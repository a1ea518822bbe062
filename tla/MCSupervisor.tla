---------------------------- MODULE MCSupervisor ----------------------------
(* Instances of Supervisor for TLC.                                         *)
EXTENDS Supervisor, TLC

Plain(kinds) == {CommandOf(k, FALSE, NoAlert) : k \in kinds}

\* Every command of the API.
AllCommands == Plain({"start", "shutdown", "newsPass", "stop", "reconcile", "snapshot"})
                 \cup {CommandOf("reconcile", TRUE, NoAlert)}

\* What cron sends.
WindowCommands == Plain({"start", "shutdown", "newsPass"})

\* Cron and main's Stop.
LifeCommands == Plain({"start", "shutdown", "stop"})

\* A boot after a previous process has left the panel dark.
DarkBootSpec == Init /\ ~lit /\ [][Next]_vars

AlertSymmetry == Permutations(Alerts)
=============================================================================
