--------------------------- MODULE MCLanSignaling ---------------------------
EXTENDS LanSignaling

CONSTANTS c, s1, s2

(* A client on one host; on another a server that ends and, later, starts
   again under another id. *)
Places == [n \in {c, s1, s2} |-> IF n = c THEN "h1" ELSE "h2"]
=============================================================================
