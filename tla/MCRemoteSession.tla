-------------------------- MODULE MCRemoteSession --------------------------
(* RemoteSession with the remote clients interchangeable. *)
EXTENDS RemoteSession, TLC

RemoteSymmetry == Permutations(Clients \ {LocalClient})
=============================================================================
