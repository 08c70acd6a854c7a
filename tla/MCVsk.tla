--------------------------------- MODULE MCVsk ---------------------------------
(* Values of the constants of Vsk for TLC. *)
EXTENDS Vsk

\* No step names a socket: the two clients may be exchanged.
SocketsIguales == Permutations(Sockets)
=============================================================================
