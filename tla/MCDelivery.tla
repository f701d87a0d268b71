------------------------------ MODULE MCDelivery ------------------------------
(* Two peers; a message of one chunk and two of two chunks, which may swap     *)
(* their roles and their bits; in one of the two builds the Bloom filter takes *)
(* one message for seen once the other two were.                               *)
EXTENDS Delivery, TLC

CONSTANTS m1, m2, m3, p1, p2, b1, b2, b3

MCParts == (m1 :> 1) @@ (m2 :> 2) @@ (m3 :> 2)

MCHash == <<(m1 :> {b2, b3}) @@ (m2 :> {b1, b2}) @@ (m3 :> {b1, b3}),
            (m1 :> {b1}) @@ (m2 :> {b2}) @@ (m3 :> {b3})>>

Swap == (m2 :> m3) @@ (m3 :> m2) @@ (b2 :> b3) @@ (b3 :> b2)
MCSymmetry == Permutations(Peer) \cup {Swap}

=============================================================================
