------------------------------- MODULE MCDht -------------------------------
EXTENDS Dht, TLC
CONSTANTS n0, n1, n2, n3
\* n1 splits the bucket next to its own id twice once n0 has asked it, n2 once.
MCIdOf == n0 :> <<0, 0, 0>> @@ n1 :> <<0, 0, 1>> @@ n2 :> <<0, 1, 0>> @@ n3 :> <<1, 1, 1>>
MCPseudoIdOf == n0 :> <<1, 0, 0>> @@ n1 :> <<1, 0, 1>> @@ n2 :> <<1, 1, 1>> @@ n3 :> <<0, 1, 0>>
MCKnown == n0 :> <<n1>> @@ n1 :> <<n2>> @@ n2 :> <<n3>> @@ n3 :> <<n2>>
MCInfoHash == <<1, 0, 1>>
\* n1 is a node that n3 announces itself to; secrets of different nodes never meet.
MCMaxRotations == [n \in Node |-> IF n = n1 THEN 2 ELSE 0]

\* Two nodes for a search to list under the wrong ids.
MCPseudoKnown == [MCKnown EXCEPT ![n2] = <<n3, n1>>]

\* A table with a contact that its node hears of again after the second split.
MCTwiceKnown == [MCKnown EXCEPT ![n0] = <<n2, n1>>]
MCTwiceAsked == [MCTwiceKnown EXCEPT ![n2] = <<n0, n1>>]
MCTwiceInfoHash == <<1, 1, 1>>
==============================================================================
