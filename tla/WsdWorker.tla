----------------------------- MODULE WsdWorker -----------------------------
(***************************************************************************)
(* runWSD of src/airscan-bridge/wsd.go: the conversation of one WSD job    *)
(* with a network scanner that other clients use too.  The bridge runs its *)
(* jobs one after another (module Bridge), so there is one worker.  A job  *)
(* has the JobName the bridge chose for it, here its number, and the JobId *)
(* the scanner gives it, of which the bridge may never hear; RetrieveImage *)
(* and CancelJob name a job by its JobId alone.  The scanner is taken to   *)
(* count its JobIds up and not to use one twice.                           *)
(*                                                                         *)
(* One action is one HTTP call with everything up to the next one.  A call *)
(* whose answer is lost may have been executed or not; a CreateScanJob     *)
(* whose answer is not awaited any longer may also be executed later.      *)
(*                                                                         *)
(* Abstracted: SOAP, the picture (decoding and cropping succeed or fail),  *)
(* times (a deadline may pass at any moment), and what Bridge models: the  *)
(* lock, the notifications, the answer of the last status query.           *)
(***************************************************************************)
EXTENDS Integers, Sequences

CONSTANTS
    Runs,       \* how many jobs the bridge runs
    PageLimit,  \* 100 pages
    Counts,     \* the ImagesToTransfer a client may ask for; 0 is all there are
    Sheets,     \* how many sheets the feeder holds
    IdLimit     \* bound on the jobs the scanner creates, for all its clients

ASSUME WorkerAssumption ==
    /\ Runs \in Nat
    /\ PageLimit \in Nat \ {0}
    /\ Counts \subseteq 0..PageLimit     \* ScanSettings.validate, settings.go:89
    /\ Sheets \in Nat
    /\ IdLimit \in Nat

Foreign == 0    \* the JobName of another client's job
None == -1      \* jobID == ""

VARIABLES
    pc,         \* the next call or step of runWSD
    run,        \* the number of the job
    source, count,  \* InputSource, and the pages wanted
    ctx,        \* its context: "live", "canceled" or "expired"
    canceled,   \* State == "Canceled"
    jobID, erred, empty,    \* jobID, err # nil, detail == "out of documents"
    pages,      \* pages
    listed,     \* Job.Pages, by the number of the image in the job
    outcome,    \* State once the acquisition has ended
    active,     \* scanner: the jobs it has, each with its JobName and JobId
    last,       \* scanner: the JobId it gave last
    feeder,     \* scanner: sheets in the feeder
    taken,      \* scanner: images taken for the job
    wire,       \* CreateScanJob requests given up but not executed yet
    late,       \* history: executed when nobody looked for them any more
    abandoned   \* history: cleanup failed or the bridge died

ticket == <<run, source, count>>
locals == <<jobID, erred, empty, pages>>
scanner == <<active, last, feeder, taken>>
delayed == <<wire, late>>
vars == <<pc, ticket, ctx, canceled, locals, listed, outcome, scanner, delayed, abandoned>>

-----------------------------------------------------------------------------
Steps == {"idle", "status", "jobs", "create", "fetch", "convert", "store",
          "lookup", "cancel", "recover", "finish"}

FlagsOK == canceled \in BOOLEAN /\ erred \in BOOLEAN /\ empty \in BOOLEAN

NamesOK ==
    /\ pc \in Steps
    /\ source \in {"Flatbed", "ADF"}
    /\ ctx \in {"live", "canceled", "expired"}
    /\ outcome \in {"Processing", "Completed", "Canceled", "Aborted"}

CountersOK ==
    /\ run \in 0..Runs
    /\ count \in 0..PageLimit
    /\ pages \in 0..PageLimit
    /\ feeder \in 0..Sheets /\ taken \in 0..PageLimit

IdsOK == jobID \in {None} \cup 1..last /\ last \in 0..IdLimit

JobsOK ==
    /\ active \subseteq [name : 0..run, id : 1..last]
    /\ wire \subseteq 1..run
    /\ late \subseteq 1..run /\ abandoned \subseteq 1..run

ListOK == listed \in Seq(Nat)

TypeOK == FlagsOK /\ NamesOK /\ CountersOK /\ IdsOK /\ JobsOK /\ ListOK

Init ==
    /\ pc = "idle"
    /\ run = 0 /\ source = "Flatbed" /\ count = 0
    /\ ctx = "live" /\ canceled = FALSE
    /\ jobID = None /\ erred = FALSE /\ empty = FALSE /\ pages = 0
    /\ listed = <<>> /\ outcome = "Processing"
    /\ active = {} /\ last = 0 /\ feeder = 0 /\ taken = 0
    /\ wire = {} /\ late = {} /\ abandoned = {}

-----------------------------------------------------------------------------
(* The job begins *)

Goes(to) == pc' = to /\ UNCHANGED <<ticket, ctx, canceled, outcome>>

Start(src, n) ==
    /\ pc = "idle" /\ run < Runs
    /\ pc' = "status" /\ run' = run + 1
    /\ source' = src /\ count' = IF src = "Flatbed" THEN 1 ELSE n
    /\ ctx' = "live" /\ canceled' = FALSE
    /\ jobID' = None /\ erred' = FALSE /\ empty' = FALSE /\ pages' = 0
    /\ listed' = <<>> /\ outcome' = "Processing" /\ taken' = 0
    /\ UNCHANGED <<active, last, feeder, delayed, abandoned>>

\* finish(j, error): nothing was asked of the scanner.
Unavailable == Goes("finish") /\ erred' = TRUE

\* status(): a call under a dead context fails at once.
AskStatus ==
    /\ pc = "status"
    /\ \/ Unavailable
       \/ ctx = "live" /\ Goes("jobs") /\ UNCHANGED erred
    /\ UNCHANGED <<jobID, empty, pages, listed, scanner, delayed, abandoned>>

OthersBusy == \E j \in active : j.name = Foreign

\* Mutant: own jobs do not count as busy.
OwnJobsIgnored == OthersBusy

Busy == active # {}

AskJobs ==
    /\ pc = "jobs"
    /\ \/ Unavailable
       \/ ctx = "live" /\ ~Busy /\ Goes("create") /\ UNCHANGED erred
    /\ UNCHANGED <<jobID, empty, pages, listed, scanner, delayed, abandoned>>

-----------------------------------------------------------------------------
(* CreateScanJob, sent once *)

\* The scanner creates a job of this name.
Creates(name) ==
    /\ last < IdLimit
    /\ last' = last + 1
    /\ active' = active \cup {[name |-> name, id |-> last']}

\* The scanner creates the job; its answer may lack the JobId or the JobToken, or not
\* arrive at all.
JobCreated(id, token) ==
    /\ pc = "create" /\ ctx = "live"
    /\ Creates(run)
    /\ jobID' = IF id THEN last' ELSE None
    /\ erred' = ~(id /\ token)
    /\ Goes(IF ~id THEN "lookup" ELSE IF erred' THEN "cancel" ELSE "fetch")
    /\ UNCHANGED <<empty, pages, listed, feeder, taken, delayed, abandoned>>

\* It is refused or never leaves, or it is still under way when its answer is given up.
CreateFails ==
    /\ pc = "create"
    /\ Goes("lookup") /\ erred' = TRUE
    /\ \/ UNCHANGED wire
       \/ ctx = "live" /\ wire' = wire \cup {run}
    /\ UNCHANGED <<jobID, empty, pages, listed, scanner, late, abandoned>>

-----------------------------------------------------------------------------
(* The pages *)

More == pages < PageLimit /\ (count = 0 \/ pages < count)

FirstPageMissing == pages = 0

\* Mutants: a failed page is asked for again, or ends the batch normally.
Retries == Goes("fetch") /\ erred' = TRUE
BreaksQuietly == Goes("cancel") /\ erred' = FirstPageMissing

\* Leaving the loop with an error; jobID is known.
Breaks == Goes("cancel") /\ erred' = TRUE

\* Mutant: the page limit is an error even if no more pages were asked for.
FullAnyCount == pages = PageLimit

Full == pages = PageLimit /\ count = 0

PagesDone ==
    /\ pc = "fetch" /\ ~More
    /\ Goes("cancel") /\ erred' = Full
    /\ UNCHANGED <<jobID, empty, pages, listed, scanner, delayed, abandoned>>

\* The scanner takes an image, from the feeder or from the glass.
TakesImage ==
    /\ source = "ADF" => feeder > 0
    /\ feeder' = IF source = "ADF" THEN feeder - 1 ELSE feeder
    /\ taken' = taken + 1
    /\ UNCHANGED <<active, last>>

\* The scanner still has the job that is asked for.
Known == \E j \in active : j.id = jobID

ImageArrives ==
    /\ pc = "fetch" /\ More /\ ctx = "live"
    /\ Known /\ TakesImage
    /\ Goes("convert")
    /\ UNCHANGED <<locals, listed, delayed, abandoned>>

\* ClientErrorNoImagesAvailable or ClientErrorNoDocuments
NoImages ==
    /\ pc = "fetch" /\ More /\ ctx = "live"
    /\ source = "ADF" /\ feeder = 0
    /\ Goes("cancel") /\ empty' = TRUE /\ erred' = FirstPageMissing
    /\ UNCHANGED <<jobID, pages, listed, scanner, delayed, abandoned>>

\* Any other fault, no answer (the scanner may have taken the image), or no context.
FetchFails ==
    /\ pc = "fetch" /\ More
    /\ Breaks
    /\ UNCHANGED scanner \/ (ctx = "live" /\ Known /\ TakesImage)
    /\ UNCHANGED <<jobID, empty, pages, listed, delayed, abandoned>>

\* The picture is decoded, cropped and encoded within the limits, or not.
Convert ==
    /\ pc = "convert"
    /\ Breaks \/ (ctx = "live" /\ Goes("store") /\ UNCHANGED erred)
    /\ UNCHANGED <<jobID, empty, pages, listed, scanner, delayed, abandoned>>

\* Mutant: a canceled job gets its page all the same.
Always == TRUE

Wanted == ~canceled

\* The file is written; the page is listed unless the job was canceled.
Store ==
    /\ pc = "store"
    /\ \/ Breaks /\ UNCHANGED <<pages, listed>>
       \/ /\ Goes("fetch")
          /\ pages' = pages + 1
          /\ listed' = IF Wanted THEN Append(listed, taken) ELSE listed
          /\ UNCHANGED erred
    /\ UNCHANGED <<jobID, empty, scanner, delayed, abandoned>>

-----------------------------------------------------------------------------
(* Cleanup, under a deadline of its own *)

\* Mutants: any job of the list is taken, or any that a bridge named.
AnyJob(j) == TRUE
AnyOfOurs(j) == j.name # Foreign

Named(j) == j.name = run

\* GetActiveJobs: the job with our name, if there is one.
Found ==
    /\ \E j \in active : Named(j) /\ jobID' = j.id
    /\ Goes("cancel")
    /\ UNCHANGED abandoned

NotFound ==
    /\ \A j \in active : ~Named(j)
    /\ Goes("recover") /\ UNCHANGED <<jobID, abandoned>>

\* No answer, a fault, or a summary without a JobId.
LookupFails ==
    /\ Goes("recover") /\ UNCHANGED jobID
    /\ abandoned' = abandoned \cup {run}

Lookup ==
    /\ pc = "lookup"
    /\ Found \/ NotFound \/ LookupFails
    /\ UNCHANGED <<erred, empty, pages, listed, scanner, delayed>>

\* Mutant: CancelJob is sent under the context of the job.
UnderJobContext == ctx = "live"

CleanupContext == TRUE

WithoutJob == {j \in active : j.id # jobID}

JobCanceled ==
    /\ CleanupContext
    /\ active' = WithoutJob
    /\ UNCHANGED <<erred, abandoned>>

\* No answer, or a fault: the job may be gone or not.
CancelFails ==
    /\ erred' = TRUE
    /\ active' \in {active, WithoutJob}
    /\ abandoned' = IF CleanupContext THEN abandoned \cup {run} ELSE abandoned

CancelJob ==
    /\ pc = "cancel"
    /\ JobCanceled \/ CancelFails
    /\ Goes("recover")
    /\ UNCHANGED <<jobID, empty, pages, listed, last, feeder, taken, delayed>>

\* The last status query, and whether the fifteen minutes are over.
Aborts == ctx = "expired" \/ (erred /\ ~canceled)

Outcome == IF Aborts THEN "Aborted" ELSE IF canceled THEN "Canceled" ELSE "Completed"

\* finish(j, err, detail).  The state a job has while its pages are fetched counts as
\* Completed here.
Finish ==
    /\ pc \in {"recover", "finish"}
    /\ pc' = "idle"
    /\ outcome' = IF pc = "finish" /\ ~canceled THEN "Aborted"
                  ELSE IF pc = "finish" THEN "Canceled" ELSE Outcome
    /\ UNCHANGED <<ticket, ctx, canceled, locals, listed, scanner, delayed, abandoned>>

-----------------------------------------------------------------------------
(* Everything else that may happen meanwhile *)

\* Bridge.cancel; the context follows when its goroutine runs.
Cancel ==
    /\ pc # "idle" /\ ~canceled
    /\ canceled' = TRUE
    /\ UNCHANGED <<pc, ticket, ctx, locals, listed, outcome, scanner, delayed, abandoned>>

ContextEnds ==
    /\ pc # "idle" /\ ctx = "live"
    /\ ctx' = "expired" \/ (canceled /\ ctx' = "canceled")
    /\ UNCHANGED <<pc, ticket, canceled, locals, listed, outcome, scanner, delayed, abandoned>>

Unchanged ==
    UNCHANGED <<ticket, ctx, canceled, listed, outcome, taken>>

\* The bridge is killed (launchd starts it again); a request may still be under way.
Crash ==
    /\ pc # "idle"
    /\ pc' = "idle" /\ outcome' = "Processing"
    /\ canceled' = FALSE /\ listed' = <<>>
    /\ abandoned' = abandoned \cup {run}
    /\ UNCHANGED wire \/ (pc = "create" /\ ctx = "live" /\ wire' = wire \cup {run})
    /\ UNCHANGED <<ticket, ctx, locals, scanner, late>>

\* Another client's job comes and goes.
OtherClient ==
    /\ IF OthersBusy
       THEN active' = {j \in active : j.name # Foreign} /\ UNCHANGED last
       ELSE Creates(Foreign)
    /\ UNCHANGED <<pc, locals, feeder, delayed, abandoned>> /\ Unchanged

\* A delayed CreateScanJob is executed, or lost for good.
LateCreate(r) ==
    /\ r \in wire
    /\ wire' = wire \ {r}
    /\ \/ UNCHANGED <<active, last, late>>
       \/ /\ Creates(r)
          /\ late' = IF r = run /\ pc = "lookup" THEN late ELSE late \cup {r}
    /\ UNCHANGED <<pc, locals, feeder, abandoned>> /\ Unchanged

\* The scanner ends a job itself; somebody loads, uses or takes sheets.
JobExpires(j) ==
    /\ j.name # Foreign
    /\ active' = active \ {j}
    /\ UNCHANGED <<pc, locals, last, feeder, delayed, abandoned>> /\ Unchanged

FeederChanges ==
    /\ feeder' \in (0..Sheets) \ {feeder}
    /\ UNCHANGED <<pc, locals, active, last, delayed, abandoned>> /\ Unchanged

-----------------------------------------------------------------------------
Work ==
    \/ AskStatus \/ AskJobs
    \/ \E id, token \in BOOLEAN : JobCreated(id, token)
    \/ CreateFails
    \/ PagesDone \/ ImageArrives \/ NoImages \/ FetchFails \/ Convert \/ Store
    \/ Lookup \/ CancelJob \/ Finish

Surroundings ==
    \/ Cancel \/ ContextEnds \/ Crash
    \/ OtherClient \/ FeederChanges
    \/ \E r \in wire : LateCreate(r)
    \/ \E j \in active : JobExpires(j)

Next ==
    \/ \E src \in {"Flatbed", "ADF"}, n \in Counts : Start(src, n)
    \/ Work \/ Surroundings

Spec == Init /\ [][Next]_vars

\* Every call has a deadline (http.Client.Timeout, the two contexts), so the worker
\* goes on; nothing else is bound to happen.
FairSpec == Spec /\ WF_vars(Work)
=============================================================================
