------------------------- MODULE MCSubnetAllocator -------------------------
(* Four devnets compete for the three highest subnets; two of them prefer   *)
(* the last one, so that probes wrap around and the space runs full.        *)
EXTENDS SubnetAllocator

MCDevnets == 1..4
MCHash == [d \in MCDevnets |-> IF d <= 2 THEN 254 ELSE 249 + d]
=============================================================================
