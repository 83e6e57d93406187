---------------------------- MODULE MCDownloader ----------------------------
(* Instances of Downloader for TLC: chapters of one series, each with a      *)
(* path of its own; the first volume holds every chapter.                    *)
EXTENDS Downloader, TLC

CONSTANTS k1, k2, v1, p1, p2

WorkerSymmetry == Permutations(Workers)

MCKeys == {k1, k2}
MCVolumes == {v1}
MCPaths == {p1, p2}
MCVolumeOf == [k \in MCKeys |-> v1]
MCPathOf == k1 :> p1 @@ k2 :> p2
=============================================================================
