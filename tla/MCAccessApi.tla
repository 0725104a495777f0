------------------------------ MODULE MCAccessApi ------------------------------
EXTENDS AccessApiProps, TLC

CONSTANTS h1, h2, p1, p2

\* "1-A" and "Gate-2A".
TwoGates == {<<1, 0>>, <<0, 2>>}

\* A tier-1 and a tier-2 gate in both spellings, an unmarked gate, tier 3.
AllGateForms == {<<1, 0>>, <<0>>, <<0, 2>>, <<3>>}

OneReplica  == [h \in Handlers |-> p1]
TwoReplicas == h1 :> p1 @@ h2 :> p2
=============================================================================
