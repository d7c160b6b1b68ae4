------------------------ MODULE MCFileSystemTileCache ------------------------
EXTENDS FileSystemTileCache, TLC

(* Jobs are alike; files are not, because their names are numbers.            *)
Symmetry == Permutations(Job)
=============================================================================
