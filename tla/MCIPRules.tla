----------------------------- MODULE MCIPRules -----------------------------
(* Instances of IPRules for TLC. *)
EXTENDS IPRules
CONSTANTS admin, ticker, v6
\* Two neighbours and an address one step away from them.
ThreeAddresses == {{0}, {1}, {3}}
\* Two addresses that do not merge, and an IPv6 address.
WithIPv6 == {{0}, {2}, {v6}}
=============================================================================
