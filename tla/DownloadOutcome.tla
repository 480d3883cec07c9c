-------------------------- MODULE DownloadOutcome --------------------------
(***************************************************************************)
(* What one call of StreamingDownloader.download_job means to its caller,  *)
(* without threads, providers, files or progress: while the call runs it   *)
(* gathers articles, never loses one it has, and nothing of it goes on     *)
(* after it ended.  It succeeds only with every article and with no        *)
(* cancellation standing; it ends as cancelled only if one was asked for.  *)
(* ArticleDownload implements it.                                          *)
(***************************************************************************)
CONSTANTS Jobs, Articles

VARIABLES
  phase,       (* [Jobs -> {"idle", "running", "succeeded", "cancelled", "failed"}] *)
  asked,       (* jobs with a cancellation standing                        *)
  have         (* [Jobs -> SUBSET Articles], durable                       *)

vars == <<phase, asked, have>>

Init ==
  /\ phase = [j \in Jobs |-> "idle"]
  /\ asked = {}
  /\ have = [j \in Jobs |-> {}]

Move(j, from, to) ==
  /\ phase[j] = from
  /\ phase' = [phase EXCEPT ![j] = to]

Begin(j) == Move(j, "idle", "running") /\ UNCHANGED <<asked, have>>

Ask(j) ==
  /\ phase[j] # "idle"
  /\ asked' = asked \cup {j}
  /\ UNCHANGED <<phase, have>>

Gain(j, a) ==
  /\ phase[j] = "running"
  /\ have' = [have EXCEPT ![j] = @ \cup {a}]
  /\ UNCHANGED <<phase, asked>>

Succeed(j) ==
  /\ Move(j, "running", "succeeded")
  /\ j \notin asked
  /\ have[j] = Articles
  /\ UNCHANGED <<asked, have>>

Cancel(j) ==
  /\ Move(j, "running", "cancelled")
  /\ j \in asked
  /\ UNCHANGED <<asked, have>>

Fail(j) == Move(j, "running", "failed") /\ UNCHANGED <<asked, have>>

Requeue(j) ==
  /\ phase[j] \in {"succeeded", "cancelled", "failed"}
  /\ Move(j, phase[j], "idle")
  /\ asked' = asked \ {j}
  /\ UNCHANGED have

(* The process dies with every job it was running.                         *)
Crash(js) ==
  /\ phase' = [j \in Jobs |-> IF j \in js THEN "idle" ELSE phase[j]]
  /\ UNCHANGED <<asked, have>>

Next ==
  \/ \E j \in Jobs :
       \/ Begin(j) \/ Ask(j) \/ Succeed(j) \/ Cancel(j) \/ Fail(j) \/ Requeue(j)
       \/ \E a \in Articles : Gain(j, a)
  \/ \E js \in SUBSET Jobs : Crash(js)

Spec == Init /\ [][Next]_vars

=============================================================================
