----------------------------- MODULE MCTransfer -----------------------------
(***************************************************************************)
(* Two files and two pieces, the second shared by both files.              *)
(***************************************************************************)
EXTENDS Transfer, TLC

MCFilesOf == (0 :> {0}) @@ (1 :> {0, 1})
MCSelections == {SelectionOf(files) : files \in FileSet}
MCSymmetry == Permutations(Session)
MCBitfields == {{0, 1}, {1}}
MCOneFile == [p \in Piece |-> {0}]
MCSeedBitfield == {Piece}

=============================================================================
