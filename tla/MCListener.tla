----------------------------- MODULE MCListener -----------------------------
(* Two connections that differ in nothing but their connection_id. *)
EXTENDS Listener, TLC

ConnectionSymmetry == Permutations(Connections)

\* At most one of the two connections is lost: what is required of the maps is
\* required of a connection that is up.
OneStaysUp == \E i \in Offers : peer[i] = "up"
=============================================================================
