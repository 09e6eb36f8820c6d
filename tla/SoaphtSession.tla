--------------------------- MODULE SoaphtSession ---------------------------
(***************************************************************************)
(* A SANE handle of the SOAPHT plugin: the calls sane_start, sane_read,    *)
(* sane_close of the patched soapht.c (patches/04-soapht-macos-plugin) and *)
(* the bb_ functions they are made of (soapht-macos/bb_soapht_macos.c),    *)
(* with the scanner's side of the SOAP transactions.                       *)
(*                                                                         *)
(* One thread makes the calls.  sane_cancel may come from a signal handler *)
(* between any two steps and only sets user_cancel.  A call advances by    *)
(* steps named in pc; a step is what happens between two places where the  *)
(* flag is looked at or the scanner answers.                               *)
(***************************************************************************)
EXTENDS Naturals, Sequences

CONSTANTS
    Polls,       \* status queries between two ADF pages (6 in the code)
    SensorLag,   \* queries for which the feeder sensor may lag behind the last sheet
    Sheets,      \* sheets put into the feeder
    ImageLimit,  \* bound: images the scanner takes
    JobLimit     \* bound: jobs the scanner creates

ASSUME SessionAssumption ==
    /\ Polls \in Nat \ {0} /\ SensorLag \in Nat /\ Sheets \in Nat
    /\ ImageLimit \in Nat /\ JobLimit \in Nat
    /\ SensorLag < Polls

VARIABLES
    \* the handle (struct soap_session)
    handle,       \* "closed" or "open"
    source,       \* currentInputSource
    user_cancel,  \* the flag sane_cancel sets
    ip,           \* ip_handle is open: a page is being converted
    pc,           \* the step the running call is at, "idle" between calls
    polls,        \* queries bb_is_paper_in_adf still has to make
    stat,         \* what the running, or the last, call returns
    \* the plugin (struct bb_state)
    job_id, job_active, cancel_pending, job_is_adf,
    jpeg,         \* the image held, 0 for none
    geometry,     \* pixels_per_line and lines are known
    \* the scanner and the wire
    jobs,         \* jobs the scanner keeps for this client
    created,      \* jobs it ever created
    feeder,       \* sheets left in the feeder
    images,       \* images it ever took
    lag,          \* queries for which the sensor still reports the last sheet
    reply,        \* reply to RetrieveImage: an image, 0 for none, Broken
    \* history
    lost,         \* jobs whose identity never reached the plugin
    refused,      \* jobs whose CancelJob failed at least once
    left,         \* jobs given up by bb_close
    pages,        \* pages delivered in full, in order: [job |-> , image |-> ]
    canceled      \* sane_cancel was called since the last sane_start was entered

call    == <<pc, polls, stat>>
job     == <<job_id, job_active, cancel_pending, job_is_adf>>
scanner == <<jobs, created, feeder, images, lag>>
history == <<lost, refused, left, pages, canceled>>
vars == <<handle, source, user_cancel, ip, call, job, jpeg, geometry, scanner,
          reply, history>>

\* Also the number of a reply that holds no usable image.
Broken == ImageLimit + 1

\* The steps that end a scan: bb_end_scan or cancel_job, called from sane_start for an
\* earlier cancel, from bb_start_scan for a job that cannot be reused, inside a bb_
\* function that failed, at bugout, and from bb_close.
Ending == {"cleanup", "replace", "abort", "unwind", "closing"}

Steps == Ending \cup {"idle", "clear", "paper", "begin", "create", "created",
                      "header", "fetch", "reply", "decode", "read", "free"}

FlagsOK ==
    /\ user_cancel \in BOOLEAN /\ ip \in BOOLEAN /\ canceled \in BOOLEAN
    /\ job_active \in BOOLEAN /\ cancel_pending \in BOOLEAN
    /\ job_is_adf \in BOOLEAN /\ geometry \in BOOLEAN

CallOK ==
    /\ handle \in {"closed", "open"} /\ source \in {"ADF", "Platen"}
    /\ pc \in Steps /\ polls \in 0..Polls /\ (pc = "paper" => polls > 0)
    /\ stat \in {"GOOD", "EOF", "CANCELLED", "NO_DOCS", "FAILED"}

NumbersOK ==
    /\ job_id \in 0..JobLimit /\ jpeg \in 0..ImageLimit /\ reply \in 0..Broken
    /\ created \in 0..JobLimit /\ images \in 0..ImageLimit
    /\ feeder \in 0..Sheets /\ lag \in 0..SensorLag

JobSetsOK ==
    /\ jobs \subseteq 1..JobLimit /\ lost \subseteq 1..JobLimit
    /\ refused \subseteq 0..JobLimit /\ left \subseteq 0..JobLimit

PagesOK == pages \in Seq([job : 0..JobLimit, image : 0..ImageLimit])

TypeOK == FlagsOK /\ CallOK /\ NumbersOK /\ JobSetsOK /\ PagesOK

Init ==
    /\ handle = "closed" /\ source = "Platen"
    /\ user_cancel = FALSE /\ ip = FALSE
    /\ pc = "idle" /\ polls = 0 /\ stat = "GOOD"
    /\ job_id = 0 /\ job_active = FALSE /\ cancel_pending = FALSE /\ job_is_adf = FALSE
    /\ jpeg = 0 /\ geometry = FALSE
    /\ jobs = {} /\ created = 0 /\ feeder = Sheets /\ images = 0 /\ lag = 0
    /\ reply = 0
    /\ lost = {} /\ refused = {} /\ left = {} /\ pages = <<>>
    /\ canceled = FALSE

-----------------------------------------------------------------------------
(* Moves of the program counter *)

Go(step) == pc' = step /\ UNCHANGED <<polls, stat>>
\* A failure on the way: the status is kept for the caller.
Fail(step, status) == pc' = step /\ stat' = status /\ UNCHANGED polls
Return(status) == Fail("idle", status)
\* A call that fails while the flag is up reports either.
FailAs(step) ==
    \E status \in {"FAILED"} \cup (IF user_cancel THEN {"CANCELLED"} ELSE {}) :
        Fail(step, status)

Idle == handle = "open" /\ pc = "idle"

-----------------------------------------------------------------------------
(* Opening, options, cancel *)

\* sane_open and bb_open: one GetScannerElements transaction; when it or the parsing of
\* its answer fails, the state is freed and there is no handle.
Open ==
    /\ handle = "closed" /\ pc = "idle"
    /\ \/ /\ handle' = "open" /\ source' = "Platen"
          /\ user_cancel' = FALSE /\ canceled' = FALSE
          /\ Return("GOOD")
       \/ /\ Return("FAILED")
          /\ UNCHANGED <<handle, source, user_cancel, canceled>>
    /\ UNCHANGED <<ip, job, jpeg, geometry, scanner, reply, lost, refused, left, pages>>

\* The frontend chooses the source between two pages.
SetSource ==
    /\ Idle /\ ~ip
    /\ source' = IF source = "ADF" THEN "Platen" ELSE "ADF"
    /\ UNCHANGED <<handle, user_cancel, ip, call, job, jpeg, geometry, scanner, reply, history>>

\* sane_cancel, possibly from a signal handler: no I/O, only the flag.
Cancel ==
    /\ handle = "open" /\ pc \notin {"closing", "free"}
    /\ user_cancel' = TRUE /\ canceled' = TRUE
    /\ UNCHANGED <<handle, source, ip, call, job, jpeg, geometry, scanner, reply,
                   lost, refused, left, pages>>

-----------------------------------------------------------------------------
(* Ending a scan *)

\* Mutant: bugout insists until the scanner answers.
AfterEndInsists(ok) ==
    \/ pc = "cleanup" /\ ok /\ Go("clear")
    \/ pc = "cleanup" /\ ~ok /\ Return("FAILED")
    \/ pc = "replace" /\ ok /\ Go("create")
    \/ pc = "replace" /\ ~ok /\ Fail("unwind", "FAILED")
    \/ pc = "abort" /\ Go("unwind")
    \/ pc = "unwind" /\ Go(IF ok THEN "idle" ELSE "abort")
    \/ pc = "closing" /\ Go("free")

\* Where the call goes on after its job was canceled, or could not be.
AfterEnd(ok) ==
    \/ pc = "cleanup" /\ ok /\ Go("clear")
    \/ pc = "cleanup" /\ ~ok /\ Return("FAILED")
    \/ pc = "replace" /\ ok /\ Go("create")
    \/ pc = "replace" /\ ~ok /\ Fail("unwind", "FAILED")
    \/ pc = "abort" /\ Go("unwind")
    \/ pc = "unwind" /\ Go("idle")
    \/ pc = "closing" /\ Go("free")

\* Mutant: the job is forgotten although it was not canceled.
CancelForgets(ok) ==
    /\ job_id' = 0 /\ job_active' = FALSE /\ cancel_pending' = FALSE
    /\ refused' = IF ok THEN refused ELSE refused \cup {job_id}
    /\ UNCHANGED job_is_adf

\* The answer of CancelJob: a failed cancellation keeps the JobId, marked pending.
CancelAnswered(ok) ==
    IF ok THEN /\ job_id' = 0 /\ job_active' = FALSE /\ cancel_pending' = FALSE
               /\ UNCHANGED <<job_is_adf, refused>>
          ELSE /\ cancel_pending' = TRUE /\ refused' = refused \cup {job_id}
               /\ UNCHANGED <<job_id, job_active, job_is_adf>>

\* Image and geometry go whatever becomes of the job.
ForgetImage == jpeg' = 0 /\ geometry' = FALSE

\* cancel_job has nothing to do without a job.
NothingToEnd ==
    /\ pc \in Ending /\ ~job_active
    /\ AfterEnd(TRUE) /\ ForgetImage
    /\ UNCHANGED <<handle, source, user_cancel, ip, job, scanner, reply, history>>

\* CancelJob is sent even when user_cancel is set.  It may be executed although its
\* answer is lost, or fail before anything was sent.
CancelJob ==
    /\ pc \in Ending /\ job_active
    /\ \E ok \in BOOLEAN :
          /\ CancelAnswered(ok) /\ AfterEnd(ok)
          /\ \/ jobs' = jobs \ {job_id}
             \/ ~ok /\ UNCHANGED jobs
    /\ ForgetImage
    /\ UNCHANGED <<handle, source, user_cancel, ip, created, feeder, images, lag, reply,
                   lost, left, pages, canceled>>

-----------------------------------------------------------------------------
(* sane_start *)

\* A cancel left over from before is finished first.
Start ==
    /\ Idle /\ (ip => user_cancel)
    /\ canceled' = FALSE
    /\ IF user_cancel THEN ip' = FALSE /\ Go("cleanup")
                      ELSE UNCHANGED ip /\ Go("clear")
    /\ UNCHANGED <<handle, source, user_cancel, job, jpeg, geometry, scanner, reply,
                   lost, refused, left, pages>>

\* Mutant: no settling within a batch.
OnePoll == 1

\* The feeder is asked once, or Polls times within a batch.
PollsDue == IF job_active THEN Polls ELSE 1

\* user_cancel = 0.
ClearFlag ==
    /\ pc = "clear" /\ user_cancel' = FALSE
    /\ IF source = "ADF"
         THEN pc' = "paper" /\ polls' = PollsDue /\ UNCHANGED stat
         ELSE Go("begin")
    /\ UNCHANGED <<handle, source, ip, job, jpeg, geometry, scanner, reply, history>>

\* The answer of the sensor, which may lag behind the last sheet.
PaperInADF == feeder > 0 \/ lag > 0
Sense == lag' = (IF lag > 0 THEN lag - 1 ELSE 0)

\* query_paper_in_adf says yes: bb_is_paper_in_adf goes on until it has asked enough.
PaperFound ==
    /\ pc = "paper" /\ ~user_cancel
    /\ PaperInADF /\ Sense
    /\ polls' = polls - 1 /\ UNCHANGED stat
    /\ pc' = IF polls = 1 THEN "begin" ELSE "paper"
    /\ UNCHANGED <<handle, source, user_cancel, ip, job, jpeg, geometry, jobs, created, feeder,
                   images, reply, history>>

\* The feeder is empty, and the sensor has settled: SANE_STATUS_NO_DOCS.
FeederEmpty ==
    /\ pc = "paper" /\ ~user_cancel /\ feeder = 0
    /\ Sense /\ Fail("unwind", "NO_DOCS")
    /\ UNCHANGED <<handle, source, user_cancel, ip, job, jpeg, geometry, jobs, created, feeder,
                   images, reply, history>>

\* The query failed, reported a jam, or met the flag.
PaperUnknown ==
    /\ pc = "paper" /\ FailAs("unwind")
    /\ UNCHANGED <<handle, source, user_cancel, ip, job, jpeg, geometry, scanner, reply, history>>

\* A job that is still there continues an ADF batch; otherwise it goes before a new one.
Reusable == job_active /\ ~cancel_pending /\ source = "ADF" /\ job_is_adf

\* What comes before CreateScanJob.
BeforeCreate == IF job_active THEN "replace" ELSE "create"

BeginScan ==
    /\ pc = "begin"
    /\ IF user_cancel
         THEN Fail("unwind", "CANCELLED") /\ UNCHANGED <<jpeg, job, geometry>>
         ELSE /\ jpeg' = 0 /\ UNCHANGED <<job, geometry>>
              /\ IF Reusable THEN Go("header")
                 ELSE Go(BeforeCreate)
    /\ UNCHANGED <<handle, source, user_cancel, ip, scanner, reply, history>>

\* The ticket cannot be made, or CreateScanJob fails without having been executed.
CreateRefused ==
    /\ pc = "create" /\ FailAs("unwind")
    /\ job_id' = 0 /\ geometry' = FALSE
    /\ UNCHANGED <<handle, source, user_cancel, ip, job_active, cancel_pending, job_is_adf,
                   jpeg, scanner, reply, history>>

NewJob == created < JobLimit /\ created' = created + 1 /\ jobs' = jobs \cup {created + 1}

\* The job exists, its identity is lost with the answer or cannot be read from it.
CreateLost ==
    /\ pc = "create" /\ ~user_cancel /\ NewJob
    /\ lost' = lost \cup {created + 1}
    /\ Fail("unwind", "FAILED")
    /\ job_id' = 0 /\ geometry' = FALSE
    /\ UNCHANGED <<handle, source, user_cancel, ip, job_active, cancel_pending, job_is_adf,
                   jpeg, feeder, images, lag, reply, refused, left, pages, canceled>>

\* The plugin learns the JobId, also when the flag was set while it waited.
CreateAnswered ==
    /\ pc = "create" /\ ~user_cancel /\ NewJob
    /\ job_id' = created + 1 /\ job_active' = TRUE /\ job_is_adf' = (source = "ADF")
    /\ geometry' = FALSE /\ Go("created")
    /\ UNCHANGED <<handle, source, user_cancel, ip, cancel_pending, jpeg, feeder, images,
                   lag, reply, history>>

\* A cancel or unusable metadata ends the job at once.
Created ==
    /\ pc = "created"
    /\ \/ /\ Fail("abort", IF user_cancel THEN "CANCELLED" ELSE "FAILED")
          /\ UNCHANGED geometry
       \/ ~user_cancel /\ geometry' = TRUE /\ Go("header")
    /\ UNCHANGED <<handle, source, user_cancel, ip, job, jpeg, scanner, reply, history>>

\* sane_start opens the image processor and feeds it until the header is through.
OpenImage ==
    /\ pc = "header"
    /\ \/ ip' = TRUE /\ Go("fetch")
       \/ Fail("unwind", "FAILED") /\ UNCHANGED ip
    /\ UNCHANGED <<handle, source, user_cancel, job, jpeg, geometry, scanner, reply, history>>

\* bb_get_image_data asks for an image only under a job that is not being canceled.
Fetchable == job_active /\ ~cancel_pending

\* RetrieveImage is not sent: the flag is set (seen before or inside the transaction),
\* there is no job, or the channel cannot be opened.
FetchRefused ==
    /\ pc = "fetch"
    /\ \/ user_cancel /\ Fail("unwind", "CANCELLED")
       \/ ~user_cancel /\ ~Fetchable /\ Fail("unwind", "FAILED")
       \/ Fetchable /\ FailAs("abort")
    /\ ip' = FALSE
    /\ UNCHANGED <<handle, source, user_cancel, job, jpeg, geometry, scanner, reply, history>>

\* RetrieveImage is sent; the scanner feeds a sheet when it scans from the feeder.  The
\* answer may be lost or damaged.
RequestImage ==
    /\ pc = "fetch" /\ ~user_cancel /\ Fetchable
    /\ \/ /\ job_id \in jobs /\ images < ImageLimit
          /\ job_is_adf => feeder > 0
          /\ images' = images + 1
          /\ reply' \in {images + 1, 0, Broken}
          /\ IF job_is_adf
               THEN feeder' = feeder - 1 /\ lag' = (IF feeder = 1 THEN SensorLag ELSE lag)
               ELSE UNCHANGED <<feeder, lag>>
       \/ reply' = 0 /\ UNCHANGED <<images, feeder, lag>>
    /\ Go("reply")
    /\ UNCHANGED <<handle, source, user_cancel, ip, job, jpeg, geometry, jobs, created, history>>

\* The answer is drained to its end before the flag counts; an image that cannot be
\* extracted, a jam included, ends the job.
ImageReceived ==
    /\ pc = "reply"
    /\ reply' = 0
    /\ IF reply \in 1..ImageLimit /\ ~user_cancel
         THEN jpeg' = reply /\ Go("decode") /\ UNCHANGED ip
         ELSE /\ FailAs("abort")
              /\ ip' = FALSE /\ UNCHANGED jpeg
    /\ UNCHANGED <<handle, source, user_cancel, job, geometry, scanner, history>>

\* Mutant: the error path returns without bb_end_scan.
DecodeReturns ==
    /\ pc = "decode"
    /\ \/ ~user_cancel /\ Return("GOOD") /\ UNCHANGED ip
       \/ FailAs("idle") /\ ip' = FALSE
    /\ UNCHANGED <<handle, source, user_cancel, job, jpeg, geometry, scanner, reply, history>>

\* The image processor reads the header and sane_start returns, or gives up.
Decode ==
    /\ pc = "decode"
    /\ \/ ~user_cancel /\ Return("GOOD") /\ UNCHANGED ip
       \/ FailAs("unwind") /\ ip' = FALSE
    /\ UNCHANGED <<handle, source, user_cancel, job, jpeg, geometry, scanner, reply, history>>

-----------------------------------------------------------------------------
(* sane_read, sane_close *)

\* A frontend reads while a page is open, or to learn that it was canceled.
Read ==
    /\ Idle /\ (ip \/ user_cancel)
    /\ IF user_cancel THEN Fail("unwind", "CANCELLED") /\ ip' = FALSE
                      ELSE Go("read") /\ UNCHANGED ip
    /\ UNCHANGED <<handle, source, user_cancel, job, jpeg, geometry, scanner, reply, history>>

\* Some rows were converted.
MoreRows ==
    /\ pc = "read" /\ ~user_cancel /\ Return("GOOD")
    /\ UNCHANGED <<handle, source, user_cancel, ip, job, jpeg, geometry, scanner, reply, history>>

\* The last row: end of page, the job stays for the next sheet.
PageDone ==
    /\ pc = "read" /\ ~user_cancel
    /\ Return("EOF") /\ ip' = FALSE /\ jpeg' = 0
    /\ pages' = Append(pages, [job |-> job_id, image |-> jpeg])
    /\ UNCHANGED <<handle, source, user_cancel, job, geometry, scanner, reply,
                   lost, refused, left, canceled>>

\* Mutant: bb_end_page(ps, 0), whatever the status.
ReadKeepsJob ==
    /\ pc = "read"
    /\ Return(IF user_cancel THEN "CANCELLED" ELSE "FAILED") /\ ip' = FALSE /\ jpeg' = 0
    /\ UNCHANGED <<handle, source, user_cancel, job, geometry, scanner, reply, history>>

\* The conversion failed or the flag was set meanwhile: bb_end_page(ps, 1).
ReadFailed ==
    /\ pc = "read"
    /\ Fail("unwind", IF user_cancel THEN "CANCELLED" ELSE "FAILED") /\ ip' = FALSE
    /\ UNCHANGED <<handle, source, user_cancel, job, jpeg, geometry, scanner, reply, history>>

Close ==
    /\ Idle /\ ip' = FALSE /\ Go("closing")
    /\ UNCHANGED <<handle, source, user_cancel, job, jpeg, geometry, scanner, reply, history>>

\* bb_close frees the state even when the job could not be canceled.
Free ==
    /\ pc = "free" /\ Go("idle")
    /\ handle' = "closed" /\ user_cancel' = FALSE
    /\ left' = IF job_active THEN left \cup {job_id} ELSE left
    /\ job_id' = 0 /\ job_active' = FALSE /\ cancel_pending' = FALSE /\ job_is_adf' = FALSE
    /\ UNCHANGED <<source, ip, jpeg, geometry, scanner, reply, lost, refused, pages, canceled>>

-----------------------------------------------------------------------------
(* The scanner *)

\* It may end a job by itself.
JobExpires ==
    /\ \E id \in jobs : jobs' = jobs \ {id}
    /\ UNCHANGED <<handle, source, user_cancel, ip, call, job, jpeg, geometry, created, feeder,
                   images, lag, reply, history>>

-----------------------------------------------------------------------------
(* Specification *)

\* The steps of a call that is running.
Step ==
    \/ NothingToEnd \/ CancelJob
    \/ ClearFlag \/ PaperFound \/ FeederEmpty \/ PaperUnknown \/ BeginScan
    \/ CreateRefused \/ CreateLost \/ CreateAnswered \/ Created \/ OpenImage
    \/ FetchRefused \/ RequestImage \/ ImageReceived \/ Decode
    \/ MoreRows \/ PageDone \/ ReadFailed \/ Free

Next == Open \/ SetSource \/ Cancel \/ Start \/ Read \/ Close \/ Step \/ JobExpires

Spec == Init /\ [][Next]_vars

\* A call that runs goes on: every transaction has a deadline.
FairSpec == Spec /\ WF_vars(Step)
=============================================================================
