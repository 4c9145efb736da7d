----------------------------- MODULE MCDelivery -----------------------------
(* Two campaigns, two deliveries of one and one of the other between.      *)
EXTENDS Delivery

CONSTANTS c1, c2

TwoCampaigns == {c1, c2}
ThreeRows == 1..3
Between == [i \in ThreeRows |-> IF i = 2 THEN c2 ELSE c1]
=============================================================================
