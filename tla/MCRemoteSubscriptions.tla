----------------------- MODULE MCRemoteSubscriptions ------------------------
(* Instances of RemoteSubscriptions for TLC.                               *)
EXTENDS RemoteSubscriptions

\* The subscribers are interchangeable; no liveness is checked with this.
Symmetry == Permutations(Subscribers)
============================================================================
