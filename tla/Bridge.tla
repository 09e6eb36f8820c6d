------------------------------- MODULE Bridge -------------------------------
(***************************************************************************)
(* The local eSCL bridge, src/airscan-bridge/main.go (and the skeleton of  *)
(* runWSD in wsd.go): the life of a scan job under one mutex, shared by    *)
(* its worker goroutine, the watchdog of its scanimage process, the HTTP   *)
(* handlers, the reaper and the shutdown of main().                        *)
(*                                                                         *)
(* One action is one critical section of Bridge.mu, or one step a          *)
(* goroutine takes outside it.  The status handler is the only one that    *)
(* keeps the mutex across a slow call, so "probing" stands for the mutex   *)
(* being held by it and Lock for the mutex being free.                     *)
(*                                                                         *)
(* Abstracted: times (a timer may fire at any moment after it is armed;    *)
(* the 3-second throttle of status probes is left out), page contents, the *)
(* reason strings, HTTP texts, logging.  A boolean field of Job is the set *)
(* of the jobs for which it is true.                                       *)
(***************************************************************************)
EXTENDS Integers, Sequences, FiniteSets

CONSTANTS
    Jobs,       \* the jobs that may ever be created; an id is never reused
    Requests,   \* concurrent NextDocument requests
    NoJob,      \* Bridge.Active == nil
    Backends,   \* the ways to scan the bridge may be started for
    SlotLimit,  \* len(b.Jobs) >= 4 refuses a job
    PageLimit,  \* 100 pages per batch
    Sources,    \* the input sources a client may ask for
    Details,    \* what the worker's error text contains
    Replies,    \* <<scanner state, feeder state>> answers of a status query
    NoReply     \* the status query failed

Statuses == {"Idle", "Processing", "Stopped"} \X
            {"Loaded", "Empty", "Jam", "Unknown", "Processing"}

ASSUME BridgeAssumption ==
    /\ NoJob \notin Jobs
    /\ Backends \subseteq {"usb", "wsd"}
    /\ SlotLimit \in Nat \ {0}
    /\ PageLimit \in Nat \ {0}
    /\ Sources \subseteq {"Flatbed", "ADF"}
    /\ "" \in Details /\ Details \subseteq {"", "out of documents", "jammed"}
    /\ Replies \subseteq Statuses
    /\ NoReply \notin Statuses

VARIABLES
    active,     \* Bridge.Active
    jobs,       \* the domain of Bridge.Jobs
    spool,      \* the jobs whose spool directory exists
    state, errorHTTP, pages, sent, source,                  \* fields of each Job
    canceled,   \* the jobs whose CancelOnce has run
    failed,     \* those with Failure # ""
    done, deleted, reading,
    stale,      \* those whose Touched is more than two minutes old
    pc,         \* run(): where the worker of each job is
    erred, detail, reply,   \* its error, the text of it, and what recovery reported
    proc,       \* the scanimage process of each job
    watchdog,   \* the goroutine that interrupts and kills it
    req,        \* NextDocument requests
    delivered,  \* history: the pages of each job sent in full, in order
    settling,   \* ReadyAfter is still in the future
    probing,    \* a status probe runs with the mutex held
    status,     \* <<ScannerState, AdfState>>
    main,       \* main() after the shutdown signal
    backend     \* "wsd" (runWSD) when AIRSCAN_WSD_URL is set, else "usb" (scanimage)

table == <<active, jobs, spool>>
fields == <<errorHTTP, pages, sent, source>>
ends == <<failed, done, deleted>>
uses == <<reading, stale>>
results == <<erred, detail, reply>>
process == <<proc, watchdog>>
device == <<settling, probing, status>>

job == <<fields, state, canceled, ends, uses>>
vars == <<table, job, pc, results, process, req, delivered, device, main, backend>>

-----------------------------------------------------------------------------
States == {"Pending", "Processing", "Completed", "Canceled", "Aborted"}

WorkerPC == {"unborn", "settle", "start", "scan", "wait", "recover",
             "wsdScan", "wsdCleanup", "finish", "ended"}

RequestPC == {"idle", "loop", "copy", "wait", "woken", "leave"}

RequestState == [pc : RequestPC, job : Jobs \cup {NoJob}, page : Nat]

Answers == Replies \cup {NoReply}

TableOK ==
    active \in Jobs \cup {NoJob} /\ jobs \subseteq Jobs /\ spool \subseteq Jobs

JobOK ==
    /\ state \in [Jobs -> States]
    /\ errorHTTP \in [Jobs -> {0, 404, 500}]
    /\ pages \in [Jobs -> Nat] /\ sent \in [Jobs -> Nat]
    /\ source \in [Jobs -> {"Flatbed", "ADF"}]
    /\ canceled \subseteq Jobs /\ failed \subseteq Jobs /\ done \subseteq Jobs
    /\ deleted \subseteq Jobs /\ reading \subseteq Jobs /\ stale \subseteq Jobs

WorkerOK ==
    /\ pc \in [Jobs -> WorkerPC]
    /\ erred \subseteq Jobs
    /\ detail \in [Jobs -> Details]
    /\ reply \in [Jobs -> Answers]
    /\ proc \in [Jobs -> {"none", "running", "interrupted", "exited"}]
    /\ watchdog \in [Jobs -> {"off", "armed", "grace"}]

\* A request inside the handler has a job.
Engaged(f) == \A r \in Requests : f[r].pc # "idle" => f[r].job \in Jobs

RequestOK ==
    /\ req \in [Requests -> RequestState] /\ Engaged(req)
    /\ delivered \in [Jobs -> Seq(Nat)]

BridgeOK ==
    /\ settling \in BOOLEAN /\ probing \in BOOLEAN
    /\ status \in Statuses
    /\ main \in {"serving", "closed", "drained", "exited", "gaveUp"}

StateOK == TableOK /\ JobOK /\ WorkerOK /\ RequestOK /\ BridgeOK

TypeOK == StateOK /\ backend \in Backends

NoRequest == [pc |-> "idle", job |-> NoJob, page |-> 0]

Init ==
    /\ active = NoJob
    /\ jobs = {} /\ spool = {}
    /\ state = [j \in Jobs |-> "Pending"]
    /\ errorHTTP = [j \in Jobs |-> 0]
    /\ pages = [j \in Jobs |-> 0] /\ sent = [j \in Jobs |-> 0]
    /\ source = [j \in Jobs |-> "Flatbed"]
    /\ canceled = {} /\ failed = {} /\ done = {}
    /\ deleted = {} /\ reading = {} /\ stale = {}
    /\ pc = [j \in Jobs |-> "unborn"]
    /\ erred = {}
    /\ detail = [j \in Jobs |-> ""]
    /\ reply = [j \in Jobs |-> NoReply]
    /\ proc = [j \in Jobs |-> "none"]
    /\ watchdog = [j \in Jobs |-> "off"]
    /\ req = [r \in Requests |-> NoRequest]
    /\ delivered = [j \in Jobs |-> <<>>]
    /\ settling = FALSE /\ probing = FALSE
    /\ status = <<"Idle", "Unknown">>
    /\ main = "serving"
    /\ backend \in Backends

-----------------------------------------------------------------------------
(* Helpers *)

Lock == ~probing                       \* b.mu can be taken

Closed == main # "serving"             \* b.Closed

Running == main \notin {"exited", "gaveUp"}

\* A handler may run: after the shutdown signal, one that had been called before.
Listening == main \in {"serving", "closed"}

\* Mutant: cancel() wakes nobody.
NobodyWakes(S) == req

\* notify(): every request parked on a Changed channel of a job of S becomes runnable.
Notify(S) ==
    [r \in Requests |-> IF req[r].pc = "wait" /\ req[r].job \in S
                        THEN [req[r] EXCEPT !.pc = "woken"] ELSE req[r]]

\* Mutant: CancelOnce is gone and every call writes the state.
EveryCancel(S) == S

\* The jobs of S that cancel() still changes.
FirstCancel(S) == S \ canceled

\* cancel() for the jobs of S; Notify(FirstCancel(S)) goes with it.
Cancel(S) ==
    /\ canceled' = canceled \cup S
    /\ state' = [j \in Jobs |-> IF j \in FirstCancel(S) THEN "Canceled" ELSE state[j]]

\* Mutant: the job is forgotten, its directory stays.
ForgetOnly(S) == jobs' = jobs \ S /\ UNCHANGED spool

\* delete(b.Jobs, id) with os.RemoveAll(dir), for the jobs of S.
Remove(S) == jobs' = jobs \ S /\ spool' = spool \ S

WorkerGoes(j, p) == pc' = [pc EXCEPT ![j] = p]

Leave(r) == req' = [req EXCEPT ![r].pc = "leave"]

\* Who is talking to the scanner: processes, recovery helpers, WSD workers.
Talking == {j \in Jobs : \/ proc[j] \in {"running", "interrupted"}
                         \/ pc[j] \in {"recover", "wsdScan", "wsdCleanup"}
                         \/ pc[j] = "start" /\ backend = "wsd"}

-----------------------------------------------------------------------------
(* HTTP handlers on the job collection *)

\* create() answers 503.
Busy == Closed \/ active # NoJob \/ Cardinality(jobs) >= SlotLimit

Create(j, src) ==
    /\ Listening /\ Lock
    /\ pc[j] = "unborn" /\ ~Busy
    /\ jobs' = jobs \cup {j}
    /\ spool' = spool \cup {j}
    /\ active' = j
    /\ source' = [source EXCEPT ![j] = src]
    /\ WorkerGoes(j, "settle")
    /\ UNCHANGED <<state, errorHTTP, pages, sent, canceled, ends, uses, results,
                   process, req, delivered, device, main>>

\* GET of a job, a method or sub-resource the bridge does not serve, and a second
\* NextDocument (409) only refresh Touched.
Touch(j) ==
    /\ Listening /\ Lock /\ j \in jobs
    /\ stale' = stale \ {j}
    /\ UNCHANGED <<table, fields, state, canceled, ends, reading, pc, results, process,
                   req, delivered, device, main>>

Delete(j) ==
    /\ Listening /\ Lock /\ j \in jobs
    /\ stale' = stale \ {j}
    /\ deleted' = deleted \cup {j}
    /\ Cancel({j}) /\ req' = Notify(FirstCancel({j}))
    /\ IF j \in done \ reading THEN Remove({j}) ELSE UNCHANGED <<jobs, spool>>
    /\ UNCHANGED <<active, fields, failed, done, reading, pc, results, process,
                   delivered, device, main>>

\* Mutant: the probe does not look at Active.
ProbeAnytime == ~settling

\* status() may run the helper.
ProbeDue == active = NoJob /\ ~settling

\* The status handler starts the helper and keeps the mutex.
StatusProbe ==
    /\ Listening /\ Lock
    /\ ProbeDue
    /\ probing' = TRUE
    /\ UNCHANGED <<table, job, pc, results, process, req, delivered, settling, status, main>>

\* A failed probe is reported as a stopped scanner.
StatusReply(answer) ==
    /\ probing
    /\ probing' = FALSE
    /\ status' = IF answer = NoReply THEN <<"Stopped", "Unknown">> ELSE answer
    /\ UNCHANGED <<table, job, pc, results, process, req, delivered, settling, main>>

-----------------------------------------------------------------------------
(* NextDocument *)

\* Mutant: the Reading flag is not tested.
ReadableTwice(j) == TRUE

\* No other request is inside NextDocument.
Readable(j) == j \notin reading

NextDocument(r, j) ==
    /\ Listening /\ Lock /\ j \in jobs
    /\ req[r].pc = "idle"
    /\ Readable(j)
    /\ stale' = stale \ {j}
    /\ reading' = reading \cup {j}
    /\ req' = [req EXCEPT ![r] = [pc |-> "loop", job |-> j, page |-> 0]]
    /\ UNCHANGED <<table, fields, state, canceled, ends, pc, results, process, delivered,
                   device, main>>

\* One turn of the handler's loop under the mutex.
LookAtJob(r) ==
    /\ req[r].pc \in {"loop", "woken"} /\ Lock
    /\ LET j == req[r].job IN
       req' = [req EXCEPT ![r] =
                 IF state[j] = "Canceled" /\ j \notin failed THEN [@ EXCEPT !.pc = "leave"]
                 ELSE IF sent[j] < pages[j]
                      THEN [pc |-> "copy", job |-> j, page |-> sent[j] + 1]
                 ELSE IF j \in done \cup failed THEN [@ EXCEPT !.pc = "leave"]
                 ELSE [@ EXCEPT !.pc = "wait"]]
    /\ UNCHANGED <<table, job, pc, results, process, delivered, device, main>>

\* The whole page reached the client.
PageSent(r) ==
    /\ req[r].pc = "copy" /\ Lock
    /\ LET j == req[r].job IN
       /\ sent' = [sent EXCEPT ![j] = @ + 1]
       /\ stale' = stale \ {j}
       /\ state' = [state EXCEPT ![j] =
                      IF j \in done /\ sent'[j] = pages[j] /\ @ # "Aborted"
                      THEN "Completed" ELSE @]
       /\ delivered' = [delivered EXCEPT ![j] = Append(@, req[r].page)]
    /\ Leave(r)
    /\ UNCHANGED <<table, errorHTTP, pages, source, canceled, ends, reading, pc, results,
                   process, device, main>>

\* The client went away, in the middle of a page or while it waited: the job is canceled.
ClientGone(r) ==
    /\ req[r].pc \in {"copy", "wait", "woken"} /\ Lock
    /\ LET j == req[r].job IN
       /\ Cancel({j})
       /\ req' = [Notify(FirstCancel({j})) EXCEPT ![r].pc = "leave"]
    /\ UNCHANGED <<table, fields, ends, uses, pc, results, process, delivered, device, main>>

\* Two seconds passed.  A timer and a notification that are both ready are taken at random.
PendingTimer(r) ==
    /\ req[r].pc \in {"wait", "woken"}
    /\ Leave(r)
    /\ UNCHANGED <<table, job, pc, results, process, delivered, device, main>>

\* The page file cannot be opened.
PageUnavailable(r) ==
    /\ req[r].pc = "copy"
    /\ Leave(r)
    /\ UNCHANGED <<table, job, pc, results, process, delivered, device, main>>

\* Mutant: the deferred function does not collect.
LeaveNeverCollects(j) == FALSE

\* The deferred function of NextDocument collects a deleted, finished job.
LeaveCollects(j) == j \in deleted \cap done

LeaveDocument(r) ==
    /\ req[r].pc = "leave" /\ Lock
    /\ LET j == req[r].job IN
       /\ reading' = reading \ {j}
       /\ IF LeaveCollects(j) THEN Remove({j}) ELSE UNCHANGED <<jobs, spool>>
    /\ req' = [req EXCEPT ![r] = NoRequest]
    /\ UNCHANGED <<active, fields, state, canceled, ends, stale, pc, results, process,
                   delivered, device, main>>

-----------------------------------------------------------------------------
(* run(): the worker of a job *)

\* The worker of j calls finish with or without an error of its own and no text.
ToFinish(j, e) ==
    /\ WorkerGoes(j, "finish")
    /\ erred' = IF e THEN erred \cup {j} ELSE erred
    /\ UNCHANGED <<detail, reply>>

SettleOver ==
    /\ settling
    /\ settling' = FALSE
    /\ UNCHANGED <<table, job, pc, results, process, req, delivered, probing, status, main>>

\* The settling interval is over, or the job is canceled before.
WorkerReady(j) ==
    /\ pc[j] = "settle"
    /\ IF j \in canceled THEN ToFinish(j, FALSE)
       ELSE ~settling /\ WorkerGoes(j, "start") /\ UNCHANGED results
    /\ UNCHANGED <<table, job, process, req, delivered, device, main>>

\* Mutant: the second look at the state, under the mutex, is dropped.
WantedOnce(j) == TRUE

StillWanted(j) == state[j] # "Canceled"

\* cmd.Start under the mutex; the pipe or the process may fail.
Start(j) ==
    /\ backend = "usb" /\ pc[j] = "start" /\ Lock
    /\ \/ /\ ~StillWanted(j)
          /\ ToFinish(j, FALSE)
          /\ UNCHANGED <<state, req, process>>
       \/ /\ StillWanted(j)
          /\ ToFinish(j, TRUE)
          /\ req' = Notify({j})
          /\ UNCHANGED <<state, process>>
       \/ /\ StillWanted(j)
          /\ WorkerGoes(j, "scan")
          /\ state' = [state EXCEPT ![j] = "Processing"]
          /\ req' = Notify({j})
          /\ proc' = [proc EXCEPT ![j] = "running"]
          /\ watchdog' = [watchdog EXCEPT ![j] = "armed"]
          /\ UNCHANGED results
    /\ UNCHANGED <<table, fields, canceled, ends, uses, delivered, device, main>>

\* A page is published and the waiting request is told.
Publish(j) ==
    /\ Lock
    /\ pages[j] < PageLimit
    /\ pages' = [pages EXCEPT ![j] = @ + 1]
    /\ req' = Notify({j})
    /\ UNCHANGED <<table, errorHTTP, sent, source, state, canceled, ends, uses, pc, results,
                   process, delivered, device, main>>

\* scanimage printed the name of a good page.  Nothing here asks whether the job is
\* canceled, and names may still be in the pipe after the process has exited.
PageRead(j) == backend = "usb" /\ pc[j] = "scan" /\ Publish(j)

\* Failure is set, then cancel() called.
Fail(j) ==
    /\ failed' = failed \cup {j}
    /\ Cancel({j}) /\ req' = Notify(FirstCancel({j}))

\* A wrong name, an oversized or undecodable page, or one page too many.
PageError(j) ==
    /\ backend = "usb" /\ pc[j] = "scan" /\ Lock
    /\ Fail(j)
    /\ WorkerGoes(j, "wait")
    /\ erred' = erred \cup {j}
    /\ UNCHANGED <<table, fields, done, deleted, uses, detail, reply, process, delivered,
                   device, main>>

EndOfPages(j) ==
    /\ pc[j] = "scan" /\ proc[j] = "exited"
    /\ WorkerGoes(j, "wait")
    /\ UNCHANGED <<table, job, results, process, req, delivered, device, main>>

\* cmd.Wait: e tells whether the process failed, d what it wrote to stderr.  After any
\* error the recovery helper gets the device.
ProcessReaped(j, e, d) ==
    /\ pc[j] = "wait" /\ proc[j] = "exited"
    /\ erred' = IF e THEN erred \cup {j} ELSE erred
    /\ detail' = [detail EXCEPT ![j] = d]
    /\ WorkerGoes(j, IF j \in erred' THEN "recover" ELSE "finish")
    /\ UNCHANGED <<table, job, reply, process, req, delivered, device, main>>

\* The helper drained the device and asked for its status, or failed.
Recover(j, answer) ==
    /\ pc[j] = "recover" /\ Lock
    /\ reply' = [reply EXCEPT ![j] = answer]
    /\ WorkerGoes(j, "finish")
    /\ UNCHANGED <<table, job, erred, detail, process, req, delivered, device, main>>

\* runWSD without its protocol.  The scanner is not free:
WsdUnavailable(j) ==
    /\ backend = "wsd" /\ pc[j] = "start"
    /\ ToFinish(j, TRUE)
    /\ UNCHANGED <<table, job, process, req, delivered, device, main>>

\* The scan begins; for a canceled job it does too, with a canceled context.
WsdBegin(j) ==
    /\ backend = "wsd" /\ pc[j] = "start" /\ Lock
    /\ WorkerGoes(j, "wsdScan")
    /\ IF StillWanted(j)
       THEN state' = [state EXCEPT ![j] = "Processing"] /\ req' = Notify({j})
       ELSE UNCHANGED <<state, req>>
    /\ UNCHANGED <<table, fields, canceled, ends, uses, results, process, delivered, device,
                   main>>

WsdPage(j) == pc[j] = "wsdScan" /\ StillWanted(j) /\ Publish(j)

\* The retrieval ends.
WsdEnd(j, e, d) ==
    /\ pc[j] = "wsdScan"
    /\ d = "" \/ (d = "out of documents" /\ source[j] = "ADF")
    /\ WorkerGoes(j, "wsdCleanup")
    /\ erred' = IF e THEN erred \cup {j} ELSE erred
    /\ detail' = [detail EXCEPT ![j] = d]
    /\ UNCHANGED <<table, job, reply, process, req, delivered, device, main>>

\* CancelJob (which may fail), a status query, and a look at the expired context.
WsdCleanup(j, e, answer, expired) ==
    /\ pc[j] = "wsdCleanup" /\ Lock
    /\ WorkerGoes(j, "finish")
    /\ erred' = IF e THEN erred \cup {j} ELSE erred
    /\ reply' = [reply EXCEPT ![j] = answer]
    /\ failed' = IF expired THEN failed \cup {j} ELSE failed
    /\ UNCHANGED <<table, fields, state, canceled, done, deleted, uses, detail, process, req,
                   delivered, device, main>>

-----------------------------------------------------------------------------
(* finish() *)

\* A recorded failure aborts even a canceled job; a plain error does not.
Aborts(j) == j \in failed \/ (j \in erred /\ state[j] # "Canceled")

EndState(j) ==
    IF Aborts(j) THEN "Aborted"
    ELSE IF state[j] = "Canceled" THEN "Canceled"
    ELSE IF sent[j] = pages[j] THEN "Completed" ELSE "Processing"

\* Mutant: the two results of the recovery are swapped.
SwappedStatus(j) == IF reply[j] # NoReply THEN <<reply[j][2], reply[j][1]>> ELSE status

\* What ScannerStatus reports from then on.
EndStatus(j) ==
    LET empty == detail[j] = "out of documents" IN
    IF reply[j] # NoReply THEN reply[j]
    ELSE IF Aborts(j)
    THEN <<"Stopped", IF empty THEN "Empty"
                      ELSE IF detail[j] = "jammed" THEN "Jam" ELSE status[2]>>
    ELSE IF state[j] = "Canceled" THEN status
    ELSE <<"Idle", IF empty /\ source[j] = "ADF" THEN "Empty" ELSE status[2]>>

\* Mutant: Active is not reset.
NotReleased(j) == active

Released(j) == IF active = j THEN NoJob ELSE active

Finish(j) ==
    /\ pc[j] = "finish" /\ Lock
    /\ WorkerGoes(j, "ended")
    /\ done' = done \cup {j}
    /\ active' = Released(j)
    /\ settling' = TRUE
    /\ state' = [state EXCEPT ![j] = EndState(j)]
    /\ errorHTTP' = [errorHTTP EXCEPT ![j] =
                       IF ~Aborts(j) THEN @
                       ELSE IF detail[j] = "out of documents" THEN 404 ELSE 500]
    /\ status' = EndStatus(j)
    /\ req' = Notify({j})
    /\ IF j \in deleted \ reading THEN Remove({j}) ELSE UNCHANGED <<jobs, spool>>
    \* the locals of run() are gone
    /\ erred' = erred \ {j}
    /\ detail' = [detail EXCEPT ![j] = ""]
    /\ reply' = [reply EXCEPT ![j] = NoReply]
    /\ UNCHANGED <<pages, sent, source, canceled, failed, deleted, uses, process, delivered,
                   probing, main>>

-----------------------------------------------------------------------------
(* The scanimage process (external) and its watchdog *)

ProcessExits(j) ==
    /\ proc[j] \in {"running", "interrupted"}
    /\ proc' = [proc EXCEPT ![j] = "exited"]
    /\ UNCHANGED <<table, job, pc, results, watchdog, req, delivered, device, main>>

Interrupt(j) ==
    /\ proc' = [proc EXCEPT ![j] = IF @ = "running" THEN "interrupted" ELSE @]
    /\ watchdog' = [watchdog EXCEPT ![j] = "grace"]

WatchdogCancel(j) ==
    /\ watchdog[j] = "armed" /\ j \in canceled
    /\ Interrupt(j)
    /\ UNCHANGED <<table, job, pc, results, req, delivered, device, main>>

\* Fifteen minutes have passed.
WatchdogTimeout(j) ==
    /\ watchdog[j] = "armed" /\ Lock
    /\ IF j \in done THEN UNCHANGED <<failed, state, canceled, req>> ELSE Fail(j)
    /\ Interrupt(j)
    /\ UNCHANGED <<table, fields, done, deleted, uses, pc, results, delivered, device, main>>

\* The worker has closed the channel exited.
WatchdogStop(j) ==
    /\ watchdog[j] # "off" /\ pc[j] \notin {"scan", "wait"}
    /\ watchdog' = [watchdog EXCEPT ![j] = "off"]
    /\ UNCHANGED <<table, job, pc, results, proc, req, delivered, device, main>>

\* Mutant: the watchdog stops after the interrupt.
WatchdogForgets(j) ==
    /\ watchdog[j] = "grace"
    /\ watchdog' = [watchdog EXCEPT ![j] = "off"]
    /\ UNCHANGED <<table, job, pc, results, proc, req, delivered, device, main>>

\* The 320-second grace period is over.
WatchdogKill(j) ==
    /\ watchdog[j] = "grace"
    /\ watchdog' = [watchdog EXCEPT ![j] = "off"]
    /\ proc' = [proc EXCEPT ![j] = "exited"]
    /\ UNCHANGED <<table, job, pc, results, req, delivered, device, main>>

-----------------------------------------------------------------------------
(* The reaper and the end of main() *)

\* Two minutes without a client (only the reaper looks at Touched).
Age(j) ==
    /\ j \in jobs \ stale
    /\ stale' = stale \cup {j}
    /\ UNCHANGED <<table, fields, state, canceled, ends, reading, pc, results, process, req,
                   delivered, device, main>>

\* Mutants: a job being read is reaped; a job already canceled is passed over.
AbandonedBusy == jobs \cap stale
AbandonedOnce == ((jobs \cap stale) \ reading) \ canceled

Abandoned == (jobs \cap stale) \ reading

\* A last tick may still be served after the shutdown signal.
Reap ==
    /\ Lock
    /\ Abandoned # {}
    /\ Remove(Abandoned \cap done)
    /\ Cancel(Abandoned \ done) /\ req' = Notify(FirstCancel(Abandoned \ done))
    /\ UNCHANGED <<active, fields, ends, uses, pc, results, process, delivered, device, main>>

\* shutdown()
Shutdown ==
    /\ main = "serving" /\ Lock
    /\ main' = "closed"
    /\ Cancel(jobs \ done) /\ req' = Notify(FirstCancel(jobs \ done))
    /\ UNCHANGED <<table, fields, ends, uses, pc, results, process, delivered, device>>

\* srv.Shutdown: the listener is closed and the last handler has returned.
HandlersDone ==
    /\ main = "closed" /\ Lock
    /\ \A r \in Requests : req[r].pc = "idle"
    /\ main' = "drained"
    /\ UNCHANGED <<table, job, pc, results, process, req, delivered, device>>

\* No acquisition is left: the spools go.
RemoveSpools ==
    /\ main = "drained"
    /\ active = NoJob
    /\ main' = "exited"
    /\ spool' = spool \ jobs
    /\ UNCHANGED <<active, jobs, job, pc, results, process, req, delivered, device>>

\* The 390 seconds of the shutdown context are over: handlers are not awaited any more,
\* and an acquisition that goes on keeps its spool and its process.
ShutdownExpires ==
    /\ main \in {"closed", "drained"} /\ Lock
    /\ IF active = NoJob THEN main' = "exited" /\ spool' = spool \ jobs
       ELSE main' = "gaveUp" /\ UNCHANGED spool
    /\ UNCHANGED <<active, jobs, job, pc, results, process, req, delivered, device>>

-----------------------------------------------------------------------------
Client(j) ==
    \/ \E src \in Sources : Create(j, src)
    \/ Touch(j) \/ Delete(j) \/ Age(j)
    \/ \E r \in Requests : NextDocument(r, j)

Handler(r) ==
    \/ LookAtJob(r) \/ PageSent(r) \/ PageUnavailable(r)
    \/ PendingTimer(r) \/ ClientGone(r) \/ LeaveDocument(r)

Worker(j) ==
    \/ WorkerReady(j) \/ Start(j) \/ EndOfPages(j)
    \/ \E e \in BOOLEAN, d \in Details : ProcessReaped(j, e, d) \/ WsdEnd(j, e, d)
    \/ \E answer \in Answers : Recover(j, answer)
    \/ WsdUnavailable(j) \/ WsdBegin(j)
    \/ \E e, x \in BOOLEAN, answer \in Answers : WsdCleanup(j, e, answer, x)
    \/ Finish(j)

Device(j) == PageRead(j) \/ PageError(j) \/ WsdPage(j) \/ ProcessExits(j)

Watchdog(j) ==
    WatchdogCancel(j) \/ WatchdogTimeout(j) \/ WatchdogStop(j) \/ WatchdogKill(j)

Status == StatusProbe \/ \E answer \in Answers : StatusReply(answer)

Ending == Shutdown \/ HandlersDone \/ RemoveSpools \/ ShutdownExpires

\* A step A of the running program, whose environment does not change.
Kept(A) == Running /\ A /\ UNCHANGED backend

Next ==
    /\ Running /\ UNCHANGED backend
    /\ \/ \E j \in Jobs : Client(j) \/ Worker(j) \/ Device(j) \/ Watchdog(j)
       \/ \E r \in Requests : Handler(r)
       \/ Status \/ SettleOver \/ Reap \/ Ending

Spec == Init /\ [][Next]_vars

(* Go schedules every runnable goroutine, and sync.Mutex hands the lock to a waiter
   that starves: steps that a stream of status probes can block only now and then
   are strongly fair.  Timers fire.  A client takes its page or hangs up (a stalled
   one is the network's failure: the server sets no write timeout).  Nothing makes
   a user ask for anything, a process exit by itself, or the shutdown timer win. *)
Fairness ==
    /\ \A j \in Jobs : /\ WF_vars(Kept(Worker(j)))
                       /\ WF_vars(Kept(Watchdog(j)))
    /\ \A r \in Requests : SF_vars(Kept(Handler(r)))
    /\ WF_vars(Kept(\E answer \in Answers : StatusReply(answer)))
    /\ WF_vars(Kept(SettleOver))
    /\ SF_vars(Kept(main = "serving" /\ Reap))
    /\ SF_vars(Kept(HandlersDone)) /\ WF_vars(Kept(RemoveSpools))

FairSpec == Spec /\ Fairness
=============================================================================
