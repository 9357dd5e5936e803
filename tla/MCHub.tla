------------------------------- MODULE MCHub -------------------------------
(* Bounded instances of Hub: every buffer holds one or two items, so that   *)
(* each of them fills up; one client filters out the even lines.             *)
EXTENDS Hub

CONSTANTS c1, c2

MCClients == {c1, c2}
MCWants(c, n) == c = c1 \/ n % 2 = 1

=============================================================================
