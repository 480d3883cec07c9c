-------------------------- MODULE MCArticleDownload --------------------------
(* Instances of ArticleDownload for TLC.                                   *)
EXTENDS ArticleDownload, TLC

CONSTANTS j1, j2, e1, e2

OneJob  == {j1}
TwoJobs == {j1, j2}
OneEngine  == {e1}
TwoEngines == {e1, e2}

(* The tests: one downloader for all jobs.  Production: one per job.       *)
Shared == [j \in Jobs |-> e1]
OwnEngine == [j \in Jobs |-> IF j = j1 THEN e1 ELSE e2]

(* The primary provider lacks article 2, the fill server, last in order,   *)
(* has everything; providers between them have no client.                  *)
FillServer == {<<1, 1>>} \cup {<<NumProviders, a>> : a \in Articles}
PrimaryAndFill == {1, NumProviders}
Everything == Providers \X Articles

OneConnection == [p \in Providers |-> 1]

StoreFailures == {"store"}
ProviderFailures == {"temporary", "hard"}
NoFailures == {}

(* Jobs of one engine differ in nothing else.                              *)
Symmetry == Permutations(Jobs)

(* Bound: behaviours go on as long as failures have hurt at most one job.  *)
OneHurtJob == Cardinality(hurt) <= 1

=============================================================================
