---------------------------- MODULE BridgeProps ----------------------------
(***************************************************************************)
(* What is claimed of the bridge: invariants, action properties, liveness, *)
(* and the service it implements.                                          *)
(***************************************************************************)
EXTENDS Bridge

-----------------------------------------------------------------------------
(* Safety *)

\* The scanner has one user at a time: a scanimage process, the recovery helper of
\* its job, a WSD worker or a status probe (comment at main.go:380).
DeviceExclusive ==
    /\ \A j, k \in Talking : j = k
    /\ probing => Talking = {}

\* Active is exactly the job whose acquisition has not ended.
ActiveIsUnfinished ==
    \A j \in Jobs : active = j <=> pc[j] # "unborn" /\ j \notin done

\* Why the two hold: the worker of a job releases Active, closes Done and leaves in one
\* critical section, its process lives no longer than the worker waits for it, and a
\* probe keeps out every change of Active.
Acquisition ==
    /\ ActiveIsUnfinished
    /\ \A j \in Jobs : /\ j \in done <=> pc[j] = "ended"
                       /\ proc[j] \in {"running", "interrupted"} => pc[j] \in {"scan", "wait"}
    /\ probing => active = NoJob

\* finish(), DELETE and the end of NextDocument share the removal of a deleted job;
\* whichever comes last does it.
DeletedIsCollected == jobs \cap deleted \cap done \subseteq reading

\* No directory outlives its job, and none is removed under a request that may still
\* open a page in it.
SpoolFollowsJob ==
    Running => /\ spool = jobs
               /\ \A r \in Requests : req[r].pc # "idle" => req[r].job \in spool

\* The pages sent in full are 1, 2, 3, ..., each once, however requests race.
DeliveredInOrder ==
    \A j \in Jobs : /\ delivered[j] = [i \in 1 .. sent[j] |-> i]
                    /\ sent[j] <= pages[j]

\* A request parked on the Changed channel has nothing to report yet: no wakeup is
\* lost between its look at the job and its wait.  (A WSD worker that ran out of time
\* sets Failure just before it calls finish.)
NoLostWakeup ==
    \A r \in Requests : req[r].pc = "wait" =>
        LET j == req[r].job IN
        /\ sent[j] = pages[j]
        /\ j \notin done \cup canceled
        /\ j \in failed => pc[j] = "finish"

\* Once a recorded failure (bad page, 15-minute limit) has aborted a USB job, neither
\* DELETE nor a broken download makes it look canceled or completed.
FailureStaysAborted ==
    backend = "usb" => \A j \in failed \cap done : state[j] = "Aborted"

\* A job canceled while it is acquired says so until the acquisition has ended: the
\* worker does not put it back to Processing.
CanceledShowsCanceled == \A j \in canceled \ done : state[j] = "Canceled"

\* scanimage starts only for a job that is still wanted, after the settling interval,
\* and never once shutdown() has run.
StartStillWanted ==
    [][\A j \in Jobs : proc[j] = "none" /\ proc'[j] = "running"
         => j \notin canceled /\ ~settling /\ ~Closed /\ active = j]_vars

\* When main() leaves with the acquisition finished, no spool and no process is left.
CleanExit ==
    main = "exited" => spool = {} /\ Talking = {}

-----------------------------------------------------------------------------
(* Liveness, under FairSpec *)

\* Every job that was accepted ends, even when scanimage ignores the interrupt.
EveryJobEnds ==
    \A j \in Jobs : (pc[j] # "unborn") ~> (j \in done \/ ~Running)

\* A job nobody asks about is canceled, then removed.
AbandonedExpires ==
    \A j \in Jobs : LET lonely == j \in jobs \cap stale /\ j \notin reading
                    IN  lonely ~> (~lonely \/ Closed)

\* Shutdown reaches the removal of the spools unless its 390 seconds run out.
ShutdownDrains == (main = "closed") ~> (main \in {"exited", "gaveUp"})

-----------------------------------------------------------------------------
(* Refinement *)

Phase(j) == IF pc[j] = "unborn" THEN "unborn"
            ELSE IF j \notin done THEN "acquiring"
            ELSE IF j \in jobs THEN "ended" ELSE "gone"

Service == INSTANCE ScanService WITH
             phase <- [j \in Jobs |-> Phase(j)],
             published <- pages,
             open <- ~Closed

\* The bridge implements the service its documentation describes.
ImplementsService == Service!Spec

-----------------------------------------------------------------------------
(* Claims of the documentation and the tests that the code does not keep *)

\* docs/AIRSCAN.md: "Completed failures never use that temporary-busy response."
FailureNeverBusy ==
    [][\A r \in Requests : PendingTimer(r) => state[req[r].job] # "Aborted"]_vars

\* A job that finish() aborted (it alone sets ErrorHTTP) is never shown as Completed
\* (docs/AIRSCAN.md: "an Aborted job state"; main_test.go: "failed job changed to").
AbortedNeverCompleted ==
    \A j \in Jobs : errorHTTP[j] # 0 => state[j] # "Completed"

\* docs/AIRSCAN.md: "A failed or malformed status query is not advertised as a healthy
\* empty feeder."  Here: the status query of the recovery helper, after an unsuccessful
\* acquisition.
FailedQueryNotHealthy ==
    [][\A j \in erred : Finish(j) /\ reply[j] = NoReply => status' # <<"Idle", "Empty">>]_vars

=============================================================================
