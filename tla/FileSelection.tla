---------------------------- MODULE FileSelection ----------------------------
(***************************************************************************)
(* Which pieces a choice of files asks for: Selection::from_files and      *)
(* pieces_to_refetch of src/core/selection.rs, in terms of the files each  *)
(* piece overlaps.  FileLayout checks the byte arithmetic behind them.     *)
(***************************************************************************)
EXTENDS Integers, FiniteSets

CONSTANTS
    NumFiles,       \* files of the torrent, laid out back to back
    FilesOf         \* piece -> the files it overlaps

File == 0 .. NumFiles - 1
FileSet == (SUBSET File) \ {{}}      \* at least one file stays selected

ASSUME NumFilesAssumption == NumFiles \in Nat \ {0}
ASSUME FilesOfAssumption == \A p \in DOMAIN FilesOf : FilesOf[p] \subseteq File

\* Mutant of SelectionOf: a piece is served once any of its files is selected.
SelectionOfLax(files) ==
    [wanted |-> {p \in DOMAIN FilesOf : FilesOf[p] \cap files # {}},
     unservable |-> {p \in DOMAIN FilesOf : FilesOf[p] \cap files = {}}]

\* A piece is wanted when a selected file lies in it, and may not be served
\* when a file that is not selected does.
SelectionOf(files) ==
    [wanted |-> {p \in DOMAIN FilesOf : FilesOf[p] \cap files # {}},
     unservable |-> {p \in DOMAIN FilesOf : FilesOf[p] \ files # {}}]

\* is_all: everything is downloaded and stored.
IsAll(files) ==
    /\ SelectionOf(files).wanted = DOMAIN FilesOf
    /\ SelectionOf(files).unservable = {}

\* Mutant of ToRefetch: nothing is fetched again.
RefetchNothing(before, after) == {}

\* Pieces of newly selected files: what was downloaded of them before went
\* to files without a handle.
ToRefetch(before, after) ==
    {p \in DOMAIN FilesOf : FilesOf[p] \cap (after \ before) # {}}

=============================================================================
