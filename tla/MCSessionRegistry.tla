-------------------------- MODULE MCSessionRegistry --------------------------
(***************************************************************************)
(* The registry on small instances: two clients that share a session name, *)
(* by turns and with every command, or at once.                            *)
(***************************************************************************)
EXTENDS SessionRegistry, TLC

CONSTANT Owner      \* the client that starts the session, where only one does

AllCommands  == [c \in Client |-> Ops]
EnsureOnly   == [c \in Client |-> {"ensure"}]
StartAndStop == [c \in Client |-> {"start", "stop"}]
OwnerStarts  == [c \in Client |-> IF c = Owner THEN {"start", "stop"} ELSE {"stop"}]
RunAndLoad   == [c \in Client |-> {"start", "run", "load"}]
StartAndRun  == [c \in Client |-> {"start", "run"}]

\* A command begins when the one before has ended, and kills do no harm.
TurnsSpec == Init /\ [][Next /\ Turns' /\ Spared]_vars

Symmetry == Permutations(Emu) \cup Permutations(Daemon) \cup Permutations(Prog)
               \cup Permutations(Client)
=============================================================================
