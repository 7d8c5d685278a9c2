------------------------------ MODULE MCSessions ------------------------------
(* A small instance of Sessions: two clients over HTTP and one on the socket. *)
EXTENDS Sessions, TLC

CONSTANTS h1, h2, c1, stdio, sock

MCClients == {h1, h2, c1}
MCKeys == {stdio, sock}
MCKeyOf == (h1 :> stdio) @@ (h2 :> stdio) @@ (c1 :> sock)

Symmetry == Permutations({h1, h2}) \cup Permutations(Agents) \cup Permutations(Rows)
=============================================================================
