------------------------ MODULE SoaphtSessionProps -------------------------
(***************************************************************************)
(* What is claimed of a SANE handle of the plugin.                         *)
(***************************************************************************)
EXTENDS SoaphtSession

\* The job the plugin knows of.
Known == IF job_active THEN {job_id} ELSE {}

\* No job is forgotten: whatever the scanner keeps for us is the job of the open handle,
\* or its identity never arrived, or bb_close gave it up after CancelJob had failed
\* ("Failed cancellation retains the JobId", docs/ARCHITECTURE.md:99).
JobsAccounted ==
    /\ jobs \subseteq Known \cup lost \cup left
    /\ left \subseteq refused

\* A page is fetched under a live job with known geometry and never under one whose
\* cancellation is pending (bb_start_scan, bb_get_image_data, bb_get_parameters).
RetrieveReady ==
    pc \in {"header", "fetch", "reply", "decode"} => Fetchable /\ geometry

\* A call that failed leaves no job behind that nobody is going to cancel: every error
\* path of sane_start and sane_read leads through bb_end_scan.
FailedCallDropsJob ==
    pc = "idle" /\ stat \notin {"GOOD", "EOF"} => (job_active => cancel_pending)

\* The pages delivered under one JobId are consecutive images: after a page that failed,
\* was canceled or lost, a batch never goes on as if nothing had happened.
GaplessBatch ==
    \A i \in 1..Len(pages) - 1 :
        pages[i].job = pages[i + 1].job => pages[i + 1].image = pages[i].image + 1

\* The feeder's job has delivered a page before.
InBatch == job_is_adf /\ \E i \in 1..Len(pages) : pages[i].job = job_id

\* Within a batch an image is asked for only if a sheet is really there, although the
\* sensor may report the last one too long (the settling polls of bb_is_paper_in_adf).
SheetForNextPage == pc = "fetch" /\ InBatch => feeder > 0

\* Why these hold: what each step of a call may rely on.
Ownership ==
    /\ pc # "idle" \/ job_active => handle = "open"
    /\ cancel_pending => job_active /\ job_id \in refused
    /\ pc = "create" => ~job_active
    /\ pc = "created" => Fetchable
    /\ pc = "free" /\ job_active => cancel_pending
    /\ Fetchable /\ pc \notin {"created", "abort"} => geometry

\* Why a sheet is there: each positive answer without a sheet uses up some lag, and a
\* batch needs more positive answers than there is lag.
Settling ==
    /\ job_id <= created /\ \A i \in 1..Len(pages) : pages[i].job <= created
    /\ pc = "paper" /\ job_active /\ feeder = 0 => lag + Polls <= SensorLag + polls
    /\ pc = "begin" /\ job_active /\ source = "ADF" => feeder > 0
    /\ pc = "created" => \A i \in 1..Len(pages) : pages[i].job < job_id
    /\ pc = "header" => (InBatch => feeder > 0)

\* Why a batch has no gaps: while a page is being converted its job is fetchable and the
\* image held is the last one the scanner took; whatever else became of an image, the
\* call is on its way to bb_end_scan, or the job is gone or pending.
Doomed == {"cleanup", "abort", "unwind", "closing"}

Converting ==
    /\ ip => Fetchable /\ pc \in {"idle", "fetch", "reply", "decode", "read"}
    /\ pc \in {"fetch", "reply", "decode", "read"} => ip
    /\ pc \in {"decode", "read"} \/ (pc = "idle" /\ ip) => jpeg # 0
    /\ jpeg # 0 => pc \in {"decode", "read"} \cup Doomed \/ (pc = "idle" /\ ip)

ImageIsLatest ==
    /\ jpeg # 0 /\ pc \notin Doomed => jpeg = images
    /\ pc = "reply" => reply \in {images, 0, Broken}

Last == pages[Len(pages)]

InSequence ==
    Fetchable /\ pc \notin Doomed /\ pages # <<>> /\ Last.job = job_id =>
        /\ pc = "reply" /\ reply \in 1..ImageLimit => images = Last.image + 1
        /\ pc # "reply" /\ jpeg = 0 => images = Last.image
        /\ jpeg # 0 => images = Last.image + 1

Sequencing == Converting /\ ImageIsLatest /\ InSequence

\* All that the proofs need beside types and the properties above: every step of a call
\* finds the job, the feeder and the image it relies on.
SessionInvariant == Ownership /\ Settling /\ Sequencing

\* Every call returns, whatever the scanner answers and whenever the flag is set: a
\* failed CancelJob is not retried within the call.
CallsReturn == pc # "idle" ~> pc = "idle"

\* "read, next start or close performs cleanup" (docs/TROUBLESHOOTING.md:73): after
\* sane_cancel no page is delivered until the frontend starts again.
CancelHonoured == [][canceled => UNCHANGED pages]_vars

=============================================================================
