--------------------------- MODULE MCMeshTransport ---------------------------
(* MeshTransport with two addresses of one peer, which connects to us from   *)
(* one of them, a limit of one connection and two suspended calls.           *)
EXTENDS MeshTransport, TLC

CONSTANTS a, b, p, t1, t2

MCDevice == {a, b}
MCPeer   == {p}
MCTask   == {t1, t2}
MCPeerOf == [d \in MCDevice |-> p]
MCInitiatorTo == MCPeer
MCCentral == {a}
MCSymmetry == Permutations(MCTask)

\* One address: for the liveness properties.
MCOneDevice == {a}
MCOnePeerOf == [d \in MCOneDevice |-> p]
=============================================================================
