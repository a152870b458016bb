-------------------------------- MODULE Disk --------------------------------
(***************************************************************************)
(* The disk back ends (src/core/disk.rs and disk_uring.rs, the same        *)
(* algorithm twice) of one torrent, as functions from a disk to the disks  *)
(* a call may leave behind.                                                *)
(*                                                                         *)
(* A segment <<p, f>> is the part of piece p that lies in file f.  A disk  *)
(* holds the set of segments whose right bytes a read returns (`cache`),   *)
(* the ones of them that survive a power loss (`durable`), the files with  *)
(* a handle (FileMapping.file) and the ones with the dirty flag set.  What *)
(* the operating system does below sync_data and rename is external.       *)
(***************************************************************************)
EXTENDS FileSelection

Segment == UNION {{p} \X FilesOf[p] : p \in DOMAIN FilesOf}
DiskType == [open : SUBSET File, dirty : SUBSET File,
             cache : SUBSET Segment, durable : SUBSET Segment]

EmptyDisk == [open |-> {}, dirty |-> {}, cache |-> {}, durable |-> {}]

SegmentsOf(files, segments) == {s \in segments : s[2] \in files}

\* sync_data makes everything a file has cached durable.
Synced(d, files) ==
    [d EXCEPT !.durable = @ \cup SegmentsOf(files, d.cache)]

-----------------------------------------------------------------------------
\* init_with_selection: the chosen files are created or opened.
Initialised(d, files) == [d EXCEPT !.open = files, !.dirty = {}]

\* write_piece: bytes of files without a handle are dropped.
WrittenTo(d, p, files) ==
    [d EXCEPT !.cache = @ \cup ({p} \X files), !.dirty = @ \cup files]

Written(d, p) == WrittenTo(d, p, FilesOf[p] \cap d.open)

\* A write that fails in file f has written the files before it.
WriteFailures(d, p) ==
    {WrittenTo(d, p, {g \in FilesOf[p] \cap d.open : g < f}) :
        f \in FilesOf[p] \cap d.open}

\* The check's read_piece and hash: bytes of files without a handle read as
\* zeros, so the hash of such a piece never matches.
Verifies(d, p) == FilesOf[p] \subseteq d.open /\ {p} \X FilesOf[p] \subseteq d.cache

\* flush: the files marked dirty are synced; a dirty mark without a handle is
\* just cleared.
Flushed(d) == [Synced(d, d.dirty \cap d.open) EXCEPT !.dirty = {}]

FlushFailures(d) ==
    {LET before == {g \in d.dirty : g < f}
     IN  [Synced(d, before \cap d.open) EXCEPT !.dirty = @ \ before] :
        f \in d.dirty \cap d.open}

\* set_selection: newly selected files are opened; deselected ones are synced
\* and released.
Reselected(d, files) ==
    [Synced(d, d.open \ files) EXCEPT !.open = files,
                                      !.dirty = @ \ (d.open \ files)]

\* set_selection that fails at file f: the files before f are switched.  A
\* file that cannot be opened stays as it was; one whose sync fails has lost
\* its handle already, and keeps its dirty mark.
SwitchedBefore(d, files, f) ==
    LET released == {g \in d.open \ files : g < f}
        opened == {g \in files \ d.open : g < f}
    IN  [Synced(d, released) EXCEPT !.open = (@ \ released) \cup opened,
                                    !.dirty = @ \ released]

OpenFailures(d, files) == {SwitchedBefore(d, files, f) : f \in files \ d.open}

SyncFailures(d, files) ==
    {[SwitchedBefore(d, files, f) EXCEPT !.open = @ \ {f}] : f \in d.open \ files}

\* The process ends: the handles are gone, the page cache stays.
AfterExit(d) == [d EXCEPT !.open = {}, !.dirty = {}]

\* The machine dies: any part of what was not synced is lost.
AfterPowerLoss(d) ==
    {[open |-> {}, dirty |-> {}, cache |-> kept, durable |-> kept] :
        kept \in {s \in SUBSET d.cache : d.durable \subseteq s}}

=============================================================================
