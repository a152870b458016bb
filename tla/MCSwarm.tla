------------------------------ MODULE MCSwarm ------------------------------
EXTENDS Swarm
CONSTANTS a1, a2, bad
MCPeerLists == {<<>>, <<bad, a2, a1>>}
==============================================================================
