-------------------------------- MODULE Paths --------------------------------
(***************************************************************************)
(* diag_paths of filesystem.c: the files among the arguments of diag-file  *)
(* and in those that are directories, in a red-black tree by their depth.  *)
(* fs has the listings of the directories in the order of readdir; the     *)
(* paths that do not exist; the directories that cannot be opened; those   *)
(* after whose last entry errno is not 0, be it that readdir failed or     *)
(* that an earlier call has left it so; and whether the C library defines  *)
(* _BSD_SOURCE, without which entries are never taken for directories.     *)
(***************************************************************************)
EXTENDS RBTree, Seqs

IsDirectory(fs, path) == path \in DOMAIN fs.listing

Nothing(ok) == [names |-> <<>>, ok |-> ok]
Named(s, depth, name) == [s EXCEPT !.names = Append(@, [depth |-> depth, name |-> name])]

Listed(tree, x) == Insert(tree, tree.num + 1, x.depth, x.name)

\* Faulty: the failure of a directory below is forgotten.
ScanDirectoryOn(fs, path) ==
  LET scan[d \in DOMAIN fs.listing, depth \in Nat] ==
        LET entry(s, name) == IF fs.bsd /\ IsDirectory(fs, name)
                              THEN [s EXCEPT !.names = @ \o scan[name, depth + 1].names]
                              ELSE Named(s, depth, name)
        IN IF d \in fs.closed THEN Nothing(FALSE)
           ELSE [FoldLeft(entry, Nothing(TRUE), fs.listing[d]) EXCEPT !.ok = @ /\ d \notin fs.stale]
  IN scan[path, 1]

\* What is inserted for a directory, in this order.  The first failure, in it
\* or below it, ends it.
ScanDirectory(fs, path) ==
  LET scan[d \in DOMAIN fs.listing, depth \in Nat] ==
        LET entry(s, name) ==
              IF ~s.ok THEN s
              ELSE IF fs.bsd /\ IsDirectory(fs, name)
                   THEN LET below == scan[name, depth + 1]
                        IN [names |-> s.names \o below.names, ok |-> below.ok]
              ELSE Named(s, depth, name)
        IN IF d \in fs.closed THEN Nothing(FALSE)
           ELSE [FoldLeft(entry, Nothing(TRUE), fs.listing[d]) EXCEPT !.ok = @ /\ d \notin fs.stale]
  IN scan[path, 1]

MapPaths(fs, paths) ==
  LET argument(s, path) ==
        IF ~s.ok THEN s
        ELSE IF path \in fs.missing THEN [s EXCEPT !.ok = FALSE]
        ELSE IF IsDirectory(fs, path)
             THEN LET d == ScanDirectory(fs, path)
                  IN [tree |-> FoldLeft(Listed, s.tree, d.names), ok |-> d.ok]
        ELSE [s EXCEPT !.tree = Listed(@, [depth |-> 0, name |-> path])]
  IN FoldLeft(argument, [tree |-> Create("imm"), ok |-> TRUE], paths)

\* To have no entries is to fail, too.
DiagPaths(fs, paths) ==
  LET s == MapPaths(fs, paths) IN IF s.ok THEN Entries(s.tree) ELSE <<>>

-----------------------------------------------------------------------------
(* For the property.                                                       *)

\* The directories that are read for the argument path, with their depths.
Opened(fs, path) ==
  LET opened[d \in DOMAIN fs.listing, depth \in Nat] ==
        {<<d, depth>>} \cup
        IF fs.bsd THEN UNION {opened[x, depth + 1] : x \in ToSet(fs.listing[d]) \cap DOMAIN fs.listing} ELSE {}
  IN IF IsDirectory(fs, path) THEN opened[path, 1] ELSE {}

\* What is to be listed for it, with its depth.
Found(fs, path) ==
  IF ~IsDirectory(fs, path) THEN {<<path, 0>>}
  ELSE UNION {{<<x, d[2]>> : x \in ToSet(fs.listing[d[1]]) \ (IF fs.bsd THEN DOMAIN fs.listing ELSE {})}
                : d \in Opened(fs, path)}
=============================================================================
