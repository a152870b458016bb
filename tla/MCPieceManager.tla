--------------------------- MODULE MCPieceManager ---------------------------
(***************************************************************************)
(* Three pieces and four selections: everything, the first two pieces      *)
(* (piece 1 shared with an unselected file), the last two, the last.       *)
(***************************************************************************)
EXTENDS PieceManager

MCSelections ==
    {[wanted |-> {0, 1, 2}, unservable |-> {}],
     [wanted |-> {0, 1}, unservable |-> {1, 2}],
     [wanted |-> {1, 2}, unservable |-> {0, 1}],
     [wanted |-> {2}, unservable |-> {0, 1}]}

=============================================================================
