--------------------------- MODULE WsdWorkerProps ---------------------------
(***************************************************************************)
(* What is claimed of the conversation with a network scanner.             *)
(***************************************************************************)
EXTENDS WsdWorker

\* The names of the bridge's jobs on the scanner.
Ours == {j.name : j \in active} \ {Foreign}

\* "it never cancels another client's job" (docs/WSD_NETWORK.md:67): among the jobs the
\* scanner has, the JobId that RetrieveImage and CancelJob name is that of the job in hand,
\* and never that of another client nor of an earlier job of the bridge that was left
\* behind or created late, however the JobId was learned.
ActsOnOwnJob == \A j \in active : j.id = jobID => j.name = run

\* No scan job of the bridge stays on the scanner once the acquisition has ended, unless
\* looking for it or canceling it failed, the bridge died, or the scanner executed the
\* request after it had been looked for.
NothingLeftBehind == pc = "idle" => Ours \subseteq abandoned \cup late

\* A job that was left on the scanner blocks the next ones: two jobs of the bridge are
\* there together only if the earlier one came after the bridge had given it up.
OwnJobsDoNotOverlap == \A a, b \in Ours : a < b => a \in late

\* The client sees the first images of its job, in order and without a gap, whatever
\* fails, is lost or is canceled in between.
ListedInOrder == \A i \in 1..Len(listed) : listed[i] = i

AllListed == count # 0 /\ Len(listed) = count

\* An acquisition that ends well has delivered every image the scanner took for it: all
\* that were asked for, or all until the feeder was empty, and at least one.  One that
\* delivered the number asked for, even the 100 that are the limit, is not reported as
\* failed, unless its time was up or its job could not be canceled.
CompletedIsWhole ==
    /\ outcome = "Completed" =>
           /\ Len(listed) = taken /\ taken > 0
           /\ empty \/ Len(listed) = count
    /\ outcome = "Aborted" /\ AllListed => ctx = "expired" \/ run \in abandoned

\* Why these hold.  What is known at each step of the job in hand;
Held ==
    /\ pc \in {"status", "jobs", "create", "lookup"} => jobID = None
    /\ pc # "idle" => run > 0 /\ outcome = "Processing"

\* a JobId names one job, and so does a name of ours: the request is on its way, or it was
\* executed once, and its job is the one held;
Identified ==
    /\ ActsOnOwnJob
    /\ \A j, k \in active : j.id = k.id => j = k
    /\ \A j, k \in active : j.name = k.name /\ j.name # Foreign => j = k
    /\ wire \cap Ours = {}
    /\ pc \in {"status", "jobs", "create"} => run \notin wire \cup Ours
    /\ pc \in {"fetch", "convert", "store", "cancel"} =>
           run \notin wire /\ \A j \in active : j.name = run => j.id = jobID

\* a job of ours is the one in hand, or nobody is going to look for it;
Accounted ==
    \A r \in Ours :
        \/ r \in abandoned \cup late
        \/ r = run /\ pc \in {"fetch", "convert", "store", "lookup", "cancel"}

\* an earlier job is found by GetActiveJobs, unless it is late;
Coming == Ours \cup wire \cup (IF pc = "create" THEN {run} ELSE {})

Behind == \A a \in Ours, b \in Coming : a < b => a \in late

\* the image in hand is the next one;
Paged ==
    /\ ListedInOrder
    /\ pc # "idle" => Len(listed) <= pages /\ (Len(listed) = pages \/ canceled)
    /\ pc \in {"status", "jobs", "create"} => pages = 0
    /\ pc \in {"status", "jobs", "create", "fetch"} => taken = pages
    /\ pc \in {"convert", "store"} => taken = pages + 1 /\ More
    /\ pc = "fetch" => count = 0 \/ pages <= count

\* and without an error there is nothing left to fetch, with one not all was listed.
Whole ==
    /\ pc \in {"lookup", "finish"} => erred /\ ~AllListed
    /\ pc = "cancel" /\ erred => ~AllListed
    /\ pc = "recover" /\ erred /\ AllListed => run \in abandoned
    /\ pc \in {"cancel", "recover"} /\ ~erred =>
           taken = pages /\ pages > 0 /\ (empty \/ pages = count)
    /\ CompletedIsWhole

WorkerInvariant == Held /\ Identified /\ Accounted /\ Behind /\ Paged /\ Whole

\* A job gets no page after it was canceled (main.go shows its pages as gone).
NoPageAfterCancel == [][canceled /\ canceled' => UNCHANGED listed]_vars

\* Every acquisition ends.
AcquisitionEnds == pc # "idle" ~> pc = "idle"

\* "Other clients' active WSD jobs block a new scan" (docs/WSD_NETWORK.md:65): a scan is
\* not started while another client's job is active.
OthersBlockScan ==
    [][\A j \in active' \ active : j.name # Foreign => ~OthersBusy]_vars

-----------------------------------------------------------------------------
(* Refinement *)

Client == INSTANCE ClientJob WITH
            phase <- IF pc = "idle" THEN "none" ELSE "running",
            wanted <- count,
            exhausted <- empty

\* The conversation implements what a client is promised: one image after the other, none
\* asked of the scanner while one has not arrived or beyond those wanted, none listed
\* after a cancellation or twice, and a job that ends well is whole, whatever calls fail,
\* time out or are executed late.
ImplementsClientJob == Client!Spec

=============================================================================
