---------------------------- MODULE JobLifecycle ----------------------------
(***************************************************************************)
(* What the download queue promises, without its tables, threads and       *)
(* transactions: jobs are started one attempt at a time, each attempt by   *)
(* one worker, oldest first; an attempt that finishes has delivered its    *)
(* release to the library; a job that stopped starts again only when it is *)
(* put back in the queue.  A job put back while its worker is still at it  *)
(* is contested: workers may then write over each other, and until it is   *)
(* put back with nobody at it the queue promises nothing of its attempts.  *)
(* DownloadJobs implements this (Lifecycle there is the refinement         *)
(* mapping).                                                               *)
(***************************************************************************)
EXTENDS Naturals

CONSTANTS Releases, Workers, Nobody, NoRelease, MaxJobs

Jobs  == 1..MaxJobs
Phase == {"absent", "waiting", "running", "finished", "stopped", "contested"}

VARIABLES
  phase,        (* [Jobs -> Phase]                                         *)
  wants,        (* the release a job is for                                *)
  owner,        (* the worker of the current attempt                       *)
  delivered     (* releases in the library                                 *)

vars == <<phase, wants, owner, delivered>>

Init ==
  /\ phase = [j \in Jobs |-> "absent"]
  /\ wants = [j \in Jobs |-> NoRelease]
  /\ owner = [j \in Jobs |-> Nobody]
  /\ delivered = {}

(* Jobs are created in the order of their numbers.                         *)
Submit(j, r) ==
  /\ phase[j] = "absent"
  /\ \A k \in Jobs : k < j => phase[k] # "absent"
  /\ phase' = [phase EXCEPT ![j] = "waiting"]
  /\ wants' = [wants EXCEPT ![j] = r]
  /\ UNCHANGED <<owner, delivered>>

Start(j, w) ==
  /\ phase[j] = "waiting"
  /\ owner[j] = Nobody
  /\ \A k \in Jobs : k < j => phase[k] # "waiting"
  /\ phase' = [phase EXCEPT ![j] = "running"]
  /\ owner' = [owner EXCEPT ![j] = w]
  /\ UNCHANGED <<wants, delivered>>

Deliver(j) ==
  /\ phase[j] \in {"running", "contested"}
  /\ delivered' = delivered \cup {wants[j]}
  /\ UNCHANGED <<phase, wants, owner>>

Finish(j) ==
  /\ phase[j] = "running"
  /\ wants[j] \in delivered
  /\ phase' = [phase EXCEPT ![j] = "finished"]
  /\ owner' = [owner EXCEPT ![j] = Nobody]
  /\ UNCHANGED <<wants, delivered>>

Stop(j) ==
  /\ phase[j] \in {"waiting", "running"}
  /\ phase' = [phase EXCEPT ![j] = "stopped"]
  /\ owner' = [owner EXCEPT ![j] = Nobody]
  /\ UNCHANGED <<wants, delivered>>

(* What was to be noted after the end of the attempt could not be noted.   *)
Spoil(j) ==
  /\ phase[j] = "finished"
  /\ wants[j] \in delivered
  /\ phase' = [phase EXCEPT ![j] = "stopped"]
  /\ UNCHANGED <<wants, owner, delivered>>

(* Back in the queue: by its user, or because its worker is dead.          *)
Resubmit(j) ==
  /\ phase[j] \in {"stopped", "running", "contested"}
  /\ phase' = [phase EXCEPT ![j] = "waiting"]
  /\ owner' = [owner EXCEPT ![j] = Nobody]
  /\ UNCHANGED <<wants, delivered>>

(* Back in the queue under its worker.                                     *)
Contest(j) ==
  /\ phase[j] \in {"stopped", "running"}
  /\ phase' = [phase EXCEPT ![j] = "contested"]
  /\ owner' = [owner EXCEPT ![j] = Nobody]
  /\ UNCHANGED <<wants, delivered>>

Next ==
  \E j \in Jobs :
    \/ \E r \in Releases : Submit(j, r)
    \/ \E w \in Workers : Start(j, w)
    \/ Deliver(j) \/ Finish(j) \/ Stop(j) \/ Spoil(j) \/ Resubmit(j) \/ Contest(j)

Spec == Init /\ [][Next]_vars

=============================================================================
