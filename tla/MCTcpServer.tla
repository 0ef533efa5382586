----------------------------- MODULE MCTcpServer -----------------------------
(* TcpServer with interchangeable connections and descriptors.             *)
EXTENDS TcpServer, TLC

Symmetry == Permutations(Conns) \cup Permutations(Fds)

=============================================================================
