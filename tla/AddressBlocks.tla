--------------------------- MODULE AddressBlocks ---------------------------
(* CIDR blocks of IPv4 addresses that have Bits bits.                         *)
EXTENDS Integers

CONSTANT Bits          \* log2 of the number of IPv4 addresses
ASSUME BitsAssumption == Bits \in Nat

IPv4 == 0..(2^Bits - 1)

\* The CIDR blocks of the space: 2^k addresses from a multiple of 2^k.
Blocks == UNION {{(i * 2^k)..(i * 2^k + 2^k - 1) : i \in 0..(2^(Bits - k) - 1)} : k \in 0..Bits}

\* The largest blocks inside a set of addresses.
LargestBlocks(A) ==
  {B \in Blocks : B \subseteq A /\ \A C \in Blocks : C \subseteq A /\ B \subseteq C => C = B}
=============================================================================
