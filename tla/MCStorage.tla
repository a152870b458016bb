------------------------------ MODULE MCStorage ------------------------------
(***************************************************************************)
(* Two files and two pieces: piece 0 lies in file 0, piece 1 is shared by  *)
(* both files.  That is the smallest layout with a piece that is partly    *)
(* stored when one file is not selected.  The runs about the selection     *)
(* have one shared piece and a third file, which is empty.                 *)
(***************************************************************************)
EXTENDS Storage, TLC

MCFilesOf == (0 :> {0}) @@ (1 :> {0, 1})
MCFilesOfWithEmpty == 0 :> {0, 1}
MCSelections == {SelectionOf(files) : files \in FileSet}

=============================================================================
