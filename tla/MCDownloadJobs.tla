--------------------------- MODULE MCDownloadJobs ---------------------------
(* Instances of DownloadJobs for TLC: a looping worker and one more, two   *)
(* API threads.                                                            *)
EXTENDS DownloadJobs, TLC

CONSTANTS w1, w2, c1, c2, r1, r2

OneWorker   == {w1}
TwoWorkers  == {w1, w2}
OneCaller   == {c1}
TwoCallers  == {c1, c2}
OneRelease  == {r1}
TwoReleases == {r1, r2}

(* For safety, workers and releases differ in nothing but their names.     *)
Symmetry == Permutations(Workers) \cup Permutations(Releases)

=============================================================================
