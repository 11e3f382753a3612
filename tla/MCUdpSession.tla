---------------------------- MODULE MCUdpSession ----------------------------
(* UdpSession for TLC.  Sessions and peers are interchangeable. *)
EXTENDS UdpSession, TLC

Symmetry == Permutations(Session) \cup Permutations(Peer)
=============================================================================
