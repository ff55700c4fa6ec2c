--------------------------- MODULE MCProxyServers ---------------------------
(* Instances of ProxyServers for TLC. *)
EXTENDS ProxyServers, TLC
CONSTANTS a1, a2, r1, r2, s1, s2, s3, p80, p443, none

\* Two protocols at one address, and a row at another one that is switched off.
MCAsked ==
  [addr : {p80}, proto : Protos, enabled : {TRUE}] \cup [addr : {p443}, proto : {"https"}, enabled : {FALSE}]

\* Nothing is chosen by which row, server or request it is.
Symmetry == Permutations({a1, a2}) \cup Permutations({r1, r2}) \cup Permutations({s1, s2, s3})
=============================================================================
