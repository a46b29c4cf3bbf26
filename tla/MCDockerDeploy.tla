---------------------------- MODULE MCDockerDeploy ----------------------------
(* DockerDeploy on a small instance: seven ports, three blocks of two ports    *)
(* and one to spare, as the global range of the code has one port more than    *)
(* its hundred blocks.                                                         *)
EXTENDS DockerDeploy, TLC

\* A host service listens on a port of the last block.
MCHostPorts == {{5}}

\* No process and no name is told from another one.
Symmetry == Permutations(Processes) \cup Permutations(Names)
=============================================================================
