------------------------- MODULE BridgeServeProofs -------------------------
(***************************************************************************)
(* Proofs about what the bridge does for its clients: requests, pages,     *)
(* spools and wakeups, and that it implements ScanService.                 *)
(***************************************************************************)
EXTENDS BridgeProofs

-----------------------------------------------------------------------------
(* How a step changes the requests *)

\* In f every request has the job and the page it has now, is in the handler if it is
\* now, and copies or waits only if it does so now.
Eased(f) ==
    \A r \in Requests :
        /\ f[r].job = req[r].job /\ f[r].page = req[r].page
        /\ f[r].pc = "idle" <=> req[r].pc = "idle"
        /\ f[r].pc \in {"copy", "wait"} => req[r].pc = f[r].pc

\* No request for a job of S waits in f.
Woken(f, S) == \A r \in Requests : f[r].pc = "wait" => f[r].job \notin S

\* Only the place in the handler changes.
LEMMA AtKeeps ==
    ASSUME NEW q \in RequestState, NEW p
    PROVE  At(q, p).job = q.job /\ At(q, p).pc = p /\ At(q, p).page = q.page
BY ZenonT(60) DEF At, RequestState

\* notify() eases the requests and leaves none waiting for a job of S.
LEMMA NotifyEases ==
    ASSUME RequestOK, NEW S
    PROVE  Eased(Notify(S)) /\ Woken(Notify(S), S)
<1>1. Notify(S) = [r \in Requests |-> IF req[r].pc = "wait" /\ req[r].job \in S
                                     THEN At(req[r], "woken") ELSE req[r]]
  BY DEF Notify, At
<1>2. ASSUME NEW r \in Requests
      PROVE  /\ Notify(S)[r].job = req[r].job /\ Notify(S)[r].page = req[r].page
             /\ Notify(S)[r].pc = IF req[r].pc = "wait" /\ req[r].job \in S
                                  THEN "woken" ELSE req[r].pc
  <2>1. req[r] \in RequestState
    BY DEF RequestOK
  <2>2. /\ At(req[r], "woken").job = req[r].job
        /\ At(req[r], "woken").page = req[r].page
        /\ At(req[r], "woken").pc = "woken"
    BY <2>1, AtKeeps
  <2>. QED
    BY <1>1, <2>2
<1>. QED
  BY <1>2 DEF Eased, Woken

\* A request that is on its way out is eased.
LEMMA LeaveEases ==
    ASSUME NEW f \in [Requests -> RequestState], Eased(f),
           NEW r \in Requests, req[r].pc # "idle"
    PROVE  Eased([f EXCEPT ![r].pc = "leave"])
<1>1. [f EXCEPT ![r].pc = "leave"] = [f EXCEPT ![r] = At(f[r], "leave")]
  BY DEF At
<1>2. /\ At(f[r], "leave").job = f[r].job /\ At(f[r], "leave").page = f[r].page
      /\ At(f[r], "leave").pc = "leave"
  BY AtKeeps
<1>. QED
  BY <1>1, <1>2 DEF Eased

\* Nothing happened to the requests.
LEMMA SameEases == UNCHANGED req => Eased(req')
BY DEF Eased

\* Every step of the bridge eases the requests, except that one enters the handler, looks
\* at its job, or leaves it.
LEMMA StepEases ==
    ASSUME TypeOK, [Next]_vars
    PROVE  \/ Eased(req')
           \/ \E r \in Requests : LookAtJob(r) \/ LeaveDocument(r)
           \/ \E r \in Requests, j \in Jobs : NextDocument(r, j)
<1>. USE DEF table, job, fields, ends, uses, results, process, device
<1>a. RequestOK /\ req \in [Requests -> RequestState]
  BY DEF TypeOK, StateOK, RequestOK
<1>b. ASSUME UNCHANGED req PROVE Eased(req')
  BY <1>b, SameEases
<1>c. ASSUME NEW S, req' = Notify(S) PROVE Eased(req')
  BY <1>a, <1>c, NotifyEases
<1>d. ASSUME NEW r \in Requests, req[r].pc # "idle", Leave(r) PROVE Eased(req')
  <2>1. Eased(req)
    BY DEF Eased
  <2>. QED
    BY <1>a, <1>d, <2>1, LeaveEases DEF Leave
<1>1. CASE UNCHANGED vars
  BY <1>1, <1>b DEF vars
<1>2. ASSUME NEW j \in Jobs, Client(j)
      PROVE  Eased(req') \/ \E r \in Requests : NextDocument(r, j)
  BY <1>2, <1>b, <1>c DEF Client, Create, Touch, Delete, Age
<1>3. ASSUME NEW j \in Jobs, Worker(j) PROVE Eased(req')
  BY <1>3, <1>b, <1>c DEF Worker, WorkerReady, Start, EndOfPages, ProcessReaped, WsdEnd, Recover,
     WsdUnavailable, WsdBegin, WsdCleanup, Finish
<1>4. ASSUME NEW j \in Jobs, Device(j) \/ Watchdog(j) PROVE Eased(req')
  BY <1>4, <1>b, <1>c DEF Device, PageRead, WsdPage, Publish, PageError, Fail, ProcessExits,
     Watchdog, WatchdogCancel, WatchdogTimeout, WatchdogStop, WatchdogKill
<1>5. ASSUME NEW r \in Requests, Handler(r)
      PROVE  Eased(req') \/ LookAtJob(r) \/ LeaveDocument(r)
  <2>1. CASE PageSent(r) \/ PageUnavailable(r) \/ PendingTimer(r)
    BY <2>1, <1>d DEF PageSent, PageUnavailable, PendingTimer
  <2>2. CASE ClientGone(r)
    <3>1. PICK f : f = Notify(FirstCancel({req[r].job}))
      OBVIOUS
    <3>2. Eased(f) /\ f \in [Requests -> RequestState]
      BY <1>a, <3>1, NotifyEases, NotifyType
    <3>3. req' = [f EXCEPT ![r].pc = "leave"] /\ req[r].pc # "idle"
      BY <2>2, <3>1 DEF ClientGone
    <3>. QED
      BY <3>2, <3>3, LeaveEases
  <2>. QED
    BY <1>5, <2>1, <2>2 DEF Handler
<1>6. CASE Status \/ SettleOver \/ Reap \/ Ending
  BY <1>6, <1>b, <1>c DEF Status, StatusProbe, StatusReply, SettleOver, Reap, Ending, Shutdown,
     HandlersDone, RemoveSpools, ShutdownExpires
<1>. QED
  BY <1>1, <1>2, <1>3, <1>4, <1>5, <1>6 DEF Next

-----------------------------------------------------------------------------
(* Readers, spools and the removal of deleted jobs.  A request holds its job by the    *)
(* Reading flag, which only one request sets and which keeps every removal away, except *)
(* the one by that request itself on its way out.                                      *)

Held == \A r \in Requests : req[r].pc # "idle" => req[r].job \in reading

OneReader ==
    \A r, q \in Requests :
        req[r].pc # "idle" /\ req[q].pc # "idle" /\ req[r].job = req[q].job => r = q

Serving ==
    /\ Held /\ OneReader
    /\ reading \subseteq jobs
    /\ Running => spool = jobs
    /\ DeletedIsCollected

\* The requests keep their jobs, and the table is unchanged.
LEMMA QuietServing ==
    ASSUME Serving, Running, Eased(req'),
           UNCHANGED <<jobs, spool, deleted, done, reading>>
    PROVE  Serving'
BY DEF Serving, Held, OneReader, DeletedIsCollected, Eased


LEMMA ServingOfRequest ==
    ASSUME TypeOK, Serving, Running, UNCHANGED main, NEW r \in Requests,
           LookAtJob(r) \/ LeaveDocument(r) \/ \E j \in Jobs : NextDocument(r, j)
    PROVE  Serving'
<1>. USE DEF table, job, fields, ends, uses, results, process, device
<1>a. req \in [Requests -> RequestState]
  BY DEF TypeOK, StateOK, RequestOK
<1>b. Running'
  BY DEF Running
<1>1. CASE LookAtJob(r)
  <2>1. /\ UNCHANGED <<jobs, spool, deleted, done, reading>>
        /\ \A q \in Requests : q # r => req'[q] = req[q]
        /\ req[r].pc # "idle"
    BY <1>1, <1>a DEF LookAtJob
  <2>2. req'[r].pc # "idle" /\ req'[r].job = req[r].job
    <3>1. /\ At(req[r], "leave").pc = "leave" /\ At(req[r], "leave").job = req[r].job
          /\ At(req[r], "wait").pc = "wait" /\ At(req[r], "wait").job = req[r].job
      BY <1>a, AtKeeps
    <3>. QED
      BY <1>1, <1>a, <3>1 DEF LookAtJob, At
  <2>. QED
    BY <2>1, <2>2 DEF Serving, Held, OneReader, DeletedIsCollected, Running
<1>2. CASE LeaveDocument(r)
  <2>1. /\ \A q \in Requests : q # r => req'[q] = req[q]
        /\ req'[r].pc = "idle" /\ req[r].pc # "idle"
        /\ reading' = reading \ {req[r].job} /\ UNCHANGED <<deleted, done>>
    BY <1>2, <1>a DEF LeaveDocument, NoRequest
  <2>2. Held' /\ OneReader'
    BY <2>1 DEF Serving, Held, OneReader
  <2>3. reading' \subseteq jobs' /\ (Running => spool' = jobs')
    BY <1>2, <2>1 DEF LeaveDocument, Remove, Serving
  <2>4. DeletedIsCollected'
    BY <1>2, <2>1 DEF LeaveDocument, LeaveCollects, Remove, Serving, DeletedIsCollected
  <2>. QED
    BY <2>2, <2>3, <2>4 DEF Serving, Running
<1>3. ASSUME NEW j \in Jobs, NextDocument(r, j) PROVE Serving'
  <2>1. /\ \A q \in Requests : q # r => req'[q] = req[q]
        /\ req'[r].pc = "loop" /\ req'[r].job = j /\ req[r].pc = "idle"
        /\ reading' = reading \cup {j} /\ j \notin reading /\ j \in jobs
        /\ UNCHANGED <<jobs, spool, deleted, done>>
    BY <1>3, <1>a DEF NextDocument, Readable
  <2>2. Held' /\ OneReader'
    BY <2>1 DEF Serving, Held, OneReader
  <2>. QED
    BY <2>1, <2>2 DEF Serving, DeletedIsCollected, Running
<1>. QED
  BY <1>1, <1>2, <1>3

LEMMA ServingOfJob ==
    ASSUME TypeOK, Acquisition, Serving, Running, UNCHANGED main, Eased(req'), NEW j \in Jobs,
           Client(j) \/ Worker(j) \/ Device(j) \/ Watchdog(j),
           \A r \in Requests : ~NextDocument(r, j)
    PROVE  Serving'
<1>. USE DEF table, job, fields, ends, uses, results, process, device
<1>1. ASSUME NEW src \in Sources, Create(j, src) PROVE Serving'
  <2>1. j \notin done
    BY <1>1 DEF Create, Acquisition
  <2>. QED
    BY <1>1, <2>1 DEF Create, Serving, Held, OneReader, DeletedIsCollected, Eased, Running
<1>2. CASE Delete(j)
  <2>1. UNCHANGED <<reading, done>> /\ deleted' = deleted \cup {j}
        /\ IF j \in done \ reading THEN Remove({j}) ELSE UNCHANGED <<jobs, spool>>
    BY <1>2 DEF Delete
  <2>. QED
    BY <2>1 DEF Serving, Held, OneReader, DeletedIsCollected, Eased, Remove, Running
<1>3. CASE Finish(j)
  <2>1. UNCHANGED <<reading, deleted>> /\ done' = done \cup {j}
        /\ IF j \in deleted \ reading THEN Remove({j}) ELSE UNCHANGED <<jobs, spool>>
    BY <1>3 DEF Finish
  <2>. QED
    BY <2>1 DEF Serving, Held, OneReader, DeletedIsCollected, Eased, Remove, Running
<1>4. CASE Touch(j) \/ Age(j)
  BY <1>4, QuietServing DEF Touch, Age
<1>5. CASE Worker(j) /\ ~Finish(j)
  BY <1>5, QuietServing DEF Worker, WorkerReady, Start, EndOfPages, ProcessReaped, WsdEnd,
     Recover, WsdUnavailable, WsdBegin, WsdCleanup
<1>6. CASE Device(j) \/ Watchdog(j)
  BY <1>6, QuietServing DEF Device, PageRead, WsdPage, Publish, PageError, ProcessExits,
     Watchdog, WatchdogCancel, WatchdogTimeout, WatchdogStop, WatchdogKill
<1>. QED
  BY <1>1, <1>2, <1>3, <1>4, <1>5, <1>6 DEF Client

LEMMA ServingOfBridge ==
    ASSUME TypeOK, Serving, Running, Eased(req'),
           \/ UNCHANGED main /\ \E r \in Requests : Handler(r) /\ ~LookAtJob(r) /\ ~LeaveDocument(r)
           \/ Status \/ SettleOver \/ Reap \/ Ending
    PROVE  Serving'
<1>. USE DEF table, job, fields, ends, uses, results, process, device
<1>1. ASSUME NEW r \in Requests, Handler(r), ~LookAtJob(r), ~LeaveDocument(r) PROVE Serving'
  BY <1>1, QuietServing DEF Handler, PageSent, PageUnavailable, PendingTimer, ClientGone
<1>2. CASE Status \/ SettleOver \/ Shutdown \/ HandlersDone
  BY <1>2, QuietServing DEF Status, StatusProbe, StatusReply, SettleOver, Shutdown, HandlersDone
<1>3. CASE Reap
  <2>1. UNCHANGED <<reading, deleted, done>> /\ Remove(Abandoned \cap done)
    BY <1>3 DEF Reap
  <2>. QED
    BY <2>1 DEF Abandoned, Serving, Held, OneReader, DeletedIsCollected, Eased, Remove, Running
<1>4. CASE RemoveSpools \/ ShutdownExpires
  <2>1. UNCHANGED <<jobs, reading, deleted, done>> /\ ~Running'
    BY <1>4 DEF RemoveSpools, ShutdownExpires, Running
  <2>. QED
    BY <2>1 DEF Serving, Held, OneReader, DeletedIsCollected, Eased
<1>. QED
  BY <1>1, <1>2, <1>3, <1>4 DEF Ending

LEMMA ServingInit == Init => Serving
<1>. SUFFICES ASSUME Init PROVE Serving
  OBVIOUS
<1>1. /\ jobs = {} /\ spool = {} /\ reading = {} /\ done = {}
      /\ \A r \in Requests : req[r].pc = "idle"
  BY DEF Init, NoRequest
<1>. QED
  BY <1>1 DEF Serving, Held, OneReader, DeletedIsCollected

LEMMA ServingNext == TypeOK /\ Acquisition /\ Serving /\ [Next]_vars => Serving'
<1>. SUFFICES ASSUME TypeOK, Acquisition, Serving, [Next]_vars PROVE Serving'
  OBVIOUS
<1>. USE DEF table, job, fields, ends, uses, results, process, device
<1>1. CASE UNCHANGED vars
  BY <1>1 DEF vars, Serving, Held, OneReader, DeletedIsCollected, Running
<1>2. ASSUME Next, NEW r \in Requests,
             LookAtJob(r) \/ LeaveDocument(r) \/ \E j \in Jobs : NextDocument(r, j)
      PROVE  Serving'
  <2>1. UNCHANGED main
    BY <1>2 DEF LookAtJob, LeaveDocument, NextDocument
  <2>. QED
    BY <1>2, <2>1, ServingOfRequest DEF Next
<1>3. CASE /\ Next
           /\ \A r \in Requests : ~LookAtJob(r) /\ ~LeaveDocument(r)
                                  /\ \A j \in Jobs : ~NextDocument(r, j)
  <2>1. Eased(req') /\ Running
    BY <1>3, StepEases DEF Next
  <2>2. ASSUME NEW j \in Jobs, Client(j) \/ Worker(j) \/ Device(j) \/ Watchdog(j)
        PROVE  Serving'
    <3>1. UNCHANGED main
      BY <2>2 DEF Client, Create, Touch, Delete, Age, NextDocument, Worker, WorkerReady, Start,
         EndOfPages, ProcessReaped, WsdEnd, Recover, WsdUnavailable, WsdBegin, WsdCleanup, Finish,
         Device, PageRead, WsdPage, Publish, PageError, ProcessExits,
         Watchdog, WatchdogCancel, WatchdogTimeout, WatchdogStop, WatchdogKill
    <3>. QED
      BY <1>3, <2>1, <2>2, <3>1, ServingOfJob
  <2>3. ASSUME NEW r \in Requests, Handler(r) PROVE UNCHANGED main
    BY <2>3 DEF Handler, LookAtJob, PageSent, PageUnavailable, PendingTimer, ClientGone,
       LeaveDocument
  <2>. QED
    BY <1>3, <2>1, <2>2, <2>3, ServingOfBridge DEF Next
<1>. QED
  BY <1>1, <1>2, <1>3

LEMMA ServingCorrect == Spec => []Serving
BY TypeCorrect, AcquisitionCorrect, ServingInit, ServingNext, PTL DEF Spec

\* Every spool is that of a job in the table, and no request loses the directory it reads.
THEOREM SpoolsFollowJobs == Spec => []SpoolFollowsJob
<1>1. Serving => SpoolFollowsJob
  BY DEF Serving, Held, SpoolFollowsJob
<1>. QED
  BY <1>1, ServingCorrect, PTL

\* A deleted job that has ended is gone, unless a request is still inside NextDocument.
THEOREM DeletedJobsGo == Spec => []DeletedIsCollected
<1>1. Serving => DeletedIsCollected
  BY DEF Serving
<1>. QED
  BY <1>1, ServingCorrect, PTL

-----------------------------------------------------------------------------
(* Pages.  A request copies the page after the last one sent: no other request of its   *)
(* job can send one meanwhile.                                                         *)

Count(n) == [i \in 1 .. n |-> i]

Copying ==
    \A r \in Requests : req[r].pc = "copy" =>
        req[r].page = sent[req[r].job] + 1 /\ sent[req[r].job] < pages[req[r].job]

Delivery == DeliveredInOrder /\ Copying

LEMMA CountOn ==
    ASSUME NEW n \in Nat
    PROVE  Append(Count(n), n + 1) = Count(n + 1)
BY DEF Count

\* Nothing was sent, and no page got lost.
LEMMA QuietDelivery ==
    ASSUME TypeOK, Delivery, Eased(req'), UNCHANGED <<sent, delivered>>,
           pages' \in [Jobs -> Nat], \A j \in Jobs : pages[j] <= pages'[j]
    PROVE  Delivery'
<1>1. \A j \in Jobs : sent[j] \in Nat /\ pages[j] \in Nat /\ pages'[j] \in Nat
  BY DEF TypeOK, StateOK, JobOK
<1>2. DeliveredInOrder'
  BY <1>1 DEF Delivery, DeliveredInOrder
<1>3. ASSUME NEW r \in Requests, req'[r].pc = "copy"
      PROVE  req'[r].page = sent[req'[r].job] + 1 /\ sent[req'[r].job] < pages'[req'[r].job]
  <2>1. req[r].pc = "copy" /\ req[r].job = req'[r].job /\ req[r].page = req'[r].page
    BY <1>3 DEF Eased
  <2>2. req[r].job \in Jobs
    BY <2>1 DEF TypeOK, StateOK, RequestOK, Engaged
  <2>. QED
    BY <1>1, <2>1, <2>2 DEF Delivery, Copying
<1>. QED
  BY <1>2, <1>3 DEF Delivery, Copying

LEMMA DeliveryOfRequest ==
    ASSUME TypeOK, Serving, Delivery, NEW r \in Requests,
           PageSent(r) \/ LookAtJob(r) \/ LeaveDocument(r) \/ \E j \in Jobs : NextDocument(r, j)
    PROVE  Delivery'
<1>. USE DEF table, job, fields, ends, uses, results, process, device
<1>a. req \in [Requests -> RequestState]
      /\ \A j \in Jobs : sent[j] \in Nat /\ pages[j] \in Nat
  BY DEF TypeOK, StateOK, RequestOK, JobOK
<1>1. CASE PageSent(r)
  <2>. DEFINE j == req[r].job
  <2>1. /\ req[r].pc = "copy" /\ j \in Jobs
        /\ sent' = [sent EXCEPT ![j] = @ + 1] /\ UNCHANGED pages
        /\ delivered' = [delivered EXCEPT ![j] = Append(@, req[r].page)]
        /\ Leave(r)
    BY <1>1 DEF PageSent, TypeOK, StateOK, RequestOK, Engaged
  <2>2. req[r].page = sent[j] + 1 /\ sent[j] < pages[j]
    BY <2>1 DEF Delivery, Copying
  <2>3. delivered[j] = Count(sent[j])
    BY <2>1 DEF Delivery, DeliveredInOrder, Count
  <2>4. sent'[j] = sent[j] + 1 /\ delivered'[j] = Count(sent'[j]) /\ sent'[j] <= pages[j]
    <3>1. sent[j] \in Nat /\ pages[j] \in Nat
      BY <1>a, <2>1
    <3>2. sent'[j] = sent[j] + 1 /\ delivered'[j] = Append(delivered[j], req[r].page)
      BY <2>1 DEF TypeOK, StateOK, JobOK, RequestOK
    <3>3. Append(Count(sent[j]), sent[j] + 1) = Count(sent[j] + 1)
      BY <3>1, CountOn
    <3>. QED
      BY <2>2, <2>3, <3>1, <3>2, <3>3
  <2>5. \A k \in Jobs : k # j => sent'[k] = sent[k] /\ delivered'[k] = delivered[k]
    BY <2>1 DEF TypeOK, StateOK, JobOK, RequestOK
  <2>6. DeliveredInOrder'
    BY <2>1, <2>4, <2>5 DEF Delivery, DeliveredInOrder, Count
  <2>7. Eased(req')
    <3>1. Eased(req)
      BY DEF Eased
    <3>. QED
      BY <1>a, <2>1, <3>1, LeaveEases DEF Leave
  <2>8. req'[r].pc # "copy"
    <3>1. req' = [req EXCEPT ![r] = At(req[r], "leave")]
      BY <2>1 DEF Leave, At
    <3>. QED
      BY <1>a, <3>1, AtKeeps
  <2>9. ASSUME NEW q \in Requests, req'[q].pc = "copy"
        PROVE  req'[q].page = sent'[req'[q].job] + 1
               /\ sent'[req'[q].job] < pages'[req'[q].job]
    <3>1. /\ req[q].pc = "copy" /\ req'[q].job = req[q].job /\ req'[q].page = req[q].page
          /\ q # r
      BY <2>7, <2>8, <2>9 DEF Eased
    <3>2. req[q].job # j /\ req[q].job \in Jobs
      BY <2>1, <3>1 DEF Serving, OneReader, TypeOK, StateOK, RequestOK, Engaged
    <3>. QED
      BY <2>1, <2>5, <3>1, <3>2 DEF Delivery, Copying
  <2>. QED
    BY <2>6, <2>9 DEF Delivery, Copying
<1>2. CASE LookAtJob(r) \/ LeaveDocument(r) \/ \E j \in Jobs : NextDocument(r, j)
  <2>1. /\ UNCHANGED <<sent, pages, delivered>>
        /\ \A q \in Requests : q # r => req'[q] = req[q]
    BY <1>a, <1>2 DEF LookAtJob, LeaveDocument, NextDocument
  <2>2. req'[r].pc = "copy" => req'[r].page = sent[req'[r].job] + 1
                               /\ sent[req'[r].job] < pages[req'[r].job]
    <3>1. At(req[r], "leave").pc = "leave" /\ At(req[r], "wait").pc = "wait"
      BY <1>a, AtKeeps
    <3>2. CASE LookAtJob(r)
      BY <1>a, <3>1, <3>2 DEF LookAtJob, At
    <3>3. CASE LeaveDocument(r)
      BY <1>a, <3>3 DEF LeaveDocument, NoRequest
    <3>4. CASE \E j \in Jobs : NextDocument(r, j)
      BY <1>a, <3>4 DEF NextDocument
    <3>. QED
      BY <1>2, <3>2, <3>3, <3>4
  <2>. QED
    BY <2>1, <2>2 DEF Delivery, DeliveredInOrder, Copying
<1>. QED
  BY <1>1, <1>2

\* Only Publish changes the number of pages, and adds one.
LEMMA PagesGrow ==
    ASSUME TypeOK, [Next]_vars
    PROVE  pages' \in [Jobs -> Nat] /\ \A j \in Jobs : pages[j] <= pages'[j]
<1>. USE DEF table, job, fields, ends, uses, results, process, device
<1>a. pages \in [Jobs -> Nat]
  BY DEF TypeOK, StateOK, JobOK
<1>b. ASSUME UNCHANGED pages PROVE \A j \in Jobs : pages[j] <= pages'[j]
  BY <1>a, <1>b
<1>c. pages' \in [Jobs -> Nat]
  BY NextType DEF TypeOK, StateOK, JobOK
<1>1. ASSUME NEW j \in Jobs, PageRead(j) \/ WsdPage(j)
      PROVE  \A k \in Jobs : pages[k] <= pages'[k]
  BY <1>a, <1>1 DEF PageRead, WsdPage, Publish
<1>2. ASSUME NEW j \in Jobs, Client(j) PROVE UNCHANGED pages
  BY <1>2 DEF Client, Create, Touch, Delete, Age, NextDocument
<1>3. ASSUME NEW j \in Jobs, Worker(j) PROVE UNCHANGED pages
  BY <1>3 DEF Worker, WorkerReady, Start, EndOfPages, ProcessReaped, WsdEnd, Recover,
     WsdUnavailable, WsdBegin, WsdCleanup, Finish
<1>4. ASSUME NEW j \in Jobs, PageError(j) \/ ProcessExits(j) \/ Watchdog(j) PROVE UNCHANGED pages
  BY <1>4 DEF PageError, ProcessExits, Watchdog, WatchdogCancel, WatchdogTimeout, WatchdogStop,
     WatchdogKill
<1>5. ASSUME NEW r \in Requests, Handler(r) PROVE UNCHANGED pages
  BY <1>5 DEF Handler, LookAtJob, PageSent, PageUnavailable, PendingTimer, ClientGone,
     LeaveDocument
<1>6. ASSUME Status \/ SettleOver \/ Reap \/ Ending PROVE UNCHANGED pages
  BY <1>6 DEF Status, StatusProbe, StatusReply, SettleOver, Reap, Ending, Shutdown,
     HandlersDone, RemoveSpools, ShutdownExpires
<1>7. UNCHANGED vars => UNCHANGED pages
  BY DEF vars
<1>. QED
  BY <1>b, <1>c, <1>1, <1>2, <1>3, <1>4, <1>5, <1>6, <1>7 DEF Next, Device

\* Only PageSent sends.
LEMMA OnlyPageSentSends ==
    ASSUME [Next]_vars, \A r \in Requests : ~PageSent(r)
    PROVE  UNCHANGED <<sent, delivered>>
<1>. USE DEF table, job, fields, ends, uses, results, process, device
<1>2. ASSUME NEW j \in Jobs, Client(j) \/ Device(j) PROVE UNCHANGED <<sent, delivered>>
  BY <1>2 DEF Client, Create, Touch, Delete, Age, NextDocument, Device, PageRead, WsdPage,
     Publish, PageError, ProcessExits
<1>3. ASSUME NEW j \in Jobs, Worker(j) \/ Watchdog(j) PROVE UNCHANGED <<sent, delivered>>
  BY <1>3 DEF Worker, WorkerReady, Start, EndOfPages, ProcessReaped, WsdEnd, Recover,
     WsdUnavailable, WsdBegin, WsdCleanup, Finish, Watchdog, WatchdogCancel, WatchdogTimeout,
     WatchdogStop, WatchdogKill
<1>5. ASSUME NEW r \in Requests, Handler(r) PROVE UNCHANGED <<sent, delivered>>
  BY <1>5 DEF Handler, LookAtJob, PageUnavailable, PendingTimer, ClientGone, LeaveDocument
<1>6. ASSUME Status \/ SettleOver \/ Reap \/ Ending PROVE UNCHANGED <<sent, delivered>>
  BY <1>6 DEF Status, StatusProbe, StatusReply, SettleOver, Reap, Ending, Shutdown,
     HandlersDone, RemoveSpools, ShutdownExpires
<1>7. UNCHANGED vars => UNCHANGED <<sent, delivered>>
  BY DEF vars
<1>. QED
  BY <1>2, <1>3, <1>5, <1>6, <1>7 DEF Next

LEMMA DeliveryInit == Init => Delivery
<1>. SUFFICES ASSUME Init PROVE Delivery
  OBVIOUS
<1>1. /\ \A j \in Jobs : sent[j] = 0 /\ pages[j] = 0 /\ delivered[j] = <<>>
      /\ \A r \in Requests : req[r].pc = "idle"
  BY DEF Init, NoRequest
<1>2. <<>> = [i \in 1 .. 0 |-> i]
  OBVIOUS
<1>. QED
  BY <1>1, <1>2 DEF Delivery, DeliveredInOrder, Copying

LEMMA DeliveryNext == TypeOK /\ Serving /\ Delivery /\ [Next]_vars => Delivery'
<1>. SUFFICES ASSUME TypeOK, Serving, Delivery, [Next]_vars PROVE Delivery'
  OBVIOUS
<1>1. CASE \E r \in Requests : \/ PageSent(r) \/ LookAtJob(r) \/ LeaveDocument(r)
                               \/ \E j \in Jobs : NextDocument(r, j)
  BY <1>1, DeliveryOfRequest
<1>2. CASE ~\E r \in Requests : \/ PageSent(r) \/ LookAtJob(r) \/ LeaveDocument(r)
                                \/ \E j \in Jobs : NextDocument(r, j)
  BY <1>2, StepEases, PagesGrow, OnlyPageSentSends, QuietDelivery
<1>. QED
  BY <1>1, <1>2

LEMMA DeliveryCorrect == Spec => []Delivery
BY TypeCorrect, ServingCorrect, DeliveryInit, DeliveryNext, PTL DEF Spec

\* The pages of a job reach its clients in full at most once each and in their order.
THEOREM PagesInOrder == Spec => []DeliveredInOrder
<1>1. Delivery => DeliveredInOrder
  BY DEF Delivery
<1>. QED
  BY <1>1, DeliveryCorrect, PTL

-----------------------------------------------------------------------------
(* Wakeups.  Every critical section that gives a waiting request something to report    *)
(* notifies it; CancelOnce may skip the notification, but only after an earlier one.    *)

\* Job j has nothing new to report.
Undisturbed(j) ==
    /\ sent'[j] = sent[j] /\ pages'[j] = pages[j]
    /\ j \in done' => j \in done
    /\ j \in canceled' => j \in canceled
    /\ j \in failed' => j \in failed \/ pc'[j] = "finish"
    /\ pc[j] = "finish" => pc'[j] = "finish"

LEMMA QuietWakeup ==
    ASSUME NoLostWakeup, Eased(req'),
           \A r \in Requests : req'[r].pc = "wait" => Undisturbed(req'[r].job)
    PROVE  NoLostWakeup'
<1>. SUFFICES ASSUME NEW r \in Requests, req'[r].pc = "wait", NEW j, j = req'[r].job
              PROVE  /\ sent'[j] = pages'[j]
                     /\ j \notin done' \cup canceled'
                     /\ j \in failed' => pc'[j] = "finish"
  BY DEF NoLostWakeup
<1>1. req[r].pc = "wait" /\ req[r].job = j /\ Undisturbed(j)
  BY DEF Eased
<1>2. /\ sent[j] = pages[j] /\ j \notin done \cup canceled
      /\ j \in failed => pc[j] = "finish"
  BY <1>1 DEF NoLostWakeup
<1>. QED
  BY <1>1, <1>2 DEF Undisturbed

\* cancel() for the jobs of S, some of which may fail as well.
LEMMA CancelWakeup ==
    ASSUME TypeOK, NoLostWakeup, NEW S, Cancel(S), req' = Notify(FirstCancel(S)),
           failed' \subseteq failed \cup S,
           UNCHANGED <<sent, pages, done>>, \A k \in Jobs : pc[k] = "finish" => pc'[k] = "finish"
    PROVE  NoLostWakeup'
<1>1. Eased(req') /\ Woken(req', FirstCancel(S))
  BY NotifyEases DEF TypeOK, StateOK
<1>2. ASSUME NEW r \in Requests, req'[r].pc = "wait" PROVE Undisturbed(req'[r].job)
  <2>1. req[r].pc = "wait" /\ req[r].job = req'[r].job
    BY <1>1, <1>2 DEF Eased
  <2>2. req'[r].job \in Jobs /\ req'[r].job \notin canceled
    BY <2>1 DEF NoLostWakeup, TypeOK, StateOK, RequestOK, Engaged
  <2>3. req'[r].job \notin S
    BY <1>1, <1>2, <2>2 DEF Woken, FirstCancel
  <2>4. \A k \in Jobs \ S : (k \in canceled' <=> k \in canceled) /\ (k \in failed' => k \in failed)
    BY DEF Cancel
  <2>. QED
    BY <2>2, <2>3, <2>4 DEF Undisturbed
<1>. QED
  BY <1>1, <1>2, QuietWakeup

LEMMA WakeupOfRequest ==
    ASSUME TypeOK, Outcome, Serving, Delivery, NoLostWakeup, NEW r \in Requests,
           Handler(r) \/ \E j \in Jobs : NextDocument(r, j)
    PROVE  NoLostWakeup'
<1>. USE DEF table, job, fields, ends, uses, results, process, device
<1>a. /\ req \in [Requests -> RequestState]
      /\ \A q \in Requests : req[q].pc # "idle" => req[q].job \in Jobs
      /\ \A j \in Jobs : sent[j] \in Nat /\ pages[j] \in Nat
  BY DEF TypeOK, StateOK, RequestOK, JobOK, Engaged
<1>b. ASSUME UNCHANGED <<sent, pages, done, canceled, failed, pc>>,
             \A q \in Requests : q # r => req'[q] = req[q],
             req'[r].pc # "wait"
      PROVE  NoLostWakeup'
  BY <1>b DEF NoLostWakeup
<1>c. ASSUME Leave(r)
      PROVE  /\ \A q \in Requests : q # r => req'[q] = req[q]
             /\ req'[r].pc = "leave"
  <2>1. req' = [req EXCEPT ![r] = At(req[r], "leave")]
    BY <1>c DEF Leave, At
  <2>. QED
    BY <1>a, <2>1, AtKeeps
<1>1. CASE LookAtJob(r)
  <2>. DEFINE j == req[r].job
  <2>1. /\ UNCHANGED <<sent, pages, done, canceled, failed, pc>>
        /\ \A q \in Requests : q # r => req'[q] = req[q]
        /\ j \in Jobs
    BY <1>a, <1>1 DEF LookAtJob
  <2>2. /\ At(req[r], "leave").pc = "leave"
        /\ At(req[r], "wait").pc = "wait" /\ At(req[r], "wait").job = j
    BY <1>a, AtKeeps
  <2>3. CASE req'[r].pc = "wait"
    <3>1. /\ req'[r].job = j /\ ~(sent[j] < pages[j]) /\ j \notin done \cup failed
          /\ state[j] # "Canceled"
      BY <1>1, <1>a, <2>2, <2>3 DEF LookAtJob, At
    <3>2. sent[j] <= pages[j]
      BY <2>1 DEF Delivery, DeliveredInOrder
    <3>3. j \notin canceled
      BY <2>1, <3>1 DEF Outcome, CanceledShowsCanceled
    <3>4. sent[j] = pages[j]
      BY <1>a, <2>1, <3>1, <3>2
    <3>. QED
      BY <2>1, <3>1, <3>3, <3>4 DEF NoLostWakeup
  <2>. QED
    BY <1>b, <2>1, <2>3
<1>2. CASE PageSent(r)
  <2>. DEFINE j == req[r].job
  <2>1. /\ req[r].pc = "copy" /\ UNCHANGED <<pages, done, canceled, failed, pc>>
        /\ \A k \in Jobs : k # j => sent'[k] = sent[k]
        /\ \A q \in Requests : q # r => req'[q] = req[q]
        /\ req'[r].pc = "leave"
    BY <1>2, <1>c DEF PageSent, TypeOK, StateOK, JobOK
  <2>2. ASSUME NEW q \in Requests, req'[q].pc = "wait"
        PROVE  q # r /\ req[q].pc = "wait" /\ req[q].job # j /\ req[q].job \in Jobs
    BY <1>a, <2>1, <2>2 DEF Serving, OneReader
  <2>. QED
    BY <2>1, <2>2 DEF NoLostWakeup
<1>3. CASE PageUnavailable(r) \/ PendingTimer(r)
  BY <1>3, <1>b, <1>c DEF PageUnavailable, PendingTimer
<1>4. CASE ClientGone(r)
  <2>. DEFINE S == {req[r].job}
  <2>1. PICK f : f = Notify(FirstCancel(S))
    OBVIOUS
  <2>2. /\ Eased(f) /\ Woken(f, FirstCancel(S)) /\ f \in [Requests -> RequestState]
    BY <2>1, NotifyEases, NotifyType DEF TypeOK, StateOK
  <2>3. /\ Cancel(S) /\ req' = [f EXCEPT ![r] = At(f[r], "leave")]
        /\ UNCHANGED <<sent, pages, done, failed, pc>>
    BY <1>4, <2>1 DEF ClientGone, At
  <2>4. req'[r].pc = "leave" /\ \A q \in Requests : q # r => req'[q] = f[q]
    BY <2>2, <2>3, AtKeeps
  <2>5. ASSUME NEW q \in Requests, req'[q].pc = "wait"
        PROVE  /\ req[q].pc = "wait" /\ req'[q].job = req[q].job
               /\ req[q].job \notin canceled'
    <3>1. q # r /\ f[q].pc = "wait" /\ f[q].job = req'[q].job
      BY <2>4, <2>5
    <3>2. req[q].pc = "wait" /\ req'[q].job = req[q].job
      BY <2>2, <3>1 DEF Eased
    <3>3. req[q].job \notin canceled /\ req[q].job \notin FirstCancel(S)
      BY <2>2, <3>1, <3>2 DEF Woken, NoLostWakeup
    <3>. QED
      BY <2>3, <3>2, <3>3 DEF Cancel, FirstCancel
  <2>. QED
    BY <2>3, <2>5 DEF NoLostWakeup
<1>5. CASE LeaveDocument(r)
  <2>1. /\ \A q \in Requests : q # r => req'[q] = req[q]
        /\ req'[r].pc = "idle" /\ UNCHANGED <<sent, pages, done, canceled, failed, pc>>
    BY <1>a, <1>5 DEF LeaveDocument, NoRequest
  <2>. QED
    BY <1>b, <2>1
<1>6. ASSUME NEW j \in Jobs, NextDocument(r, j) PROVE NoLostWakeup'
  <2>1. /\ \A q \in Requests : q # r => req'[q] = req[q]
        /\ req'[r].pc = "loop" /\ UNCHANGED <<sent, pages, done, canceled, failed, pc>>
    BY <1>a, <1>6 DEF NextDocument
  <2>. QED
    BY <1>b, <2>1
<1>. QED
  BY <1>1, <1>2, <1>3, <1>4, <1>5, <1>6 DEF Handler

\* A critical section that notifies the jobs of S and disturbs no other.
LEMMA NotifyWakeup ==
    ASSUME TypeOK, NoLostWakeup, NEW S, req' = Notify(S), \A k \in Jobs \ S : Undisturbed(k)
    PROVE  NoLostWakeup'
<1>1. Eased(req') /\ Woken(req', S)
  BY NotifyEases DEF TypeOK, StateOK
<1>2. ASSUME NEW r \in Requests, req'[r].pc = "wait" PROVE req'[r].job \in Jobs \ S
  <2>1. req[r].pc = "wait" /\ req[r].job = req'[r].job
    BY <1>1, <1>2 DEF Eased
  <2>. QED
    BY <1>1, <1>2, <2>1 DEF Woken, TypeOK, StateOK, RequestOK, Engaged
<1>. QED
  BY <1>1, <1>2, QuietWakeup

\* No job is disturbed.
LEMMA SilentWakeup ==
    ASSUME TypeOK, NoLostWakeup, UNCHANGED req, \A k \in Jobs : Undisturbed(k)
    PROVE  NoLostWakeup'
<1>1. \A r \in Requests : req[r].pc = "wait" => req[r].job \in Jobs
  BY DEF TypeOK, StateOK, RequestOK, Engaged
<1>. QED
  BY <1>1, SameEases, QuietWakeup

LEMMA WakeupOfJob ==
    ASSUME TypeOK, NoLostWakeup, NEW j \in Jobs,
           Client(j) \/ Worker(j) \/ Device(j) \/ Watchdog(j),
           \A r \in Requests : ~NextDocument(r, j)
    PROVE  NoLostWakeup'
<1>. USE DEF WorkerGoes, ToFinish, table, job, fields, ends, uses, results, process, device
<1>a. pc \in [Jobs -> WorkerPC] /\ pages \in [Jobs -> Nat]
  BY DEF TypeOK, StateOK, WorkerOK, JobOK
<1>b. ASSUME UNCHANGED <<sent, pages, done, canceled, failed>>,
             \A k \in Jobs : pc[k] = "finish" => pc'[k] = "finish",
             UNCHANGED req \/ req' = Notify({j})
      PROVE  NoLostWakeup'
  <2>1. \A k \in Jobs : Undisturbed(k)
    BY <1>a, <1>b DEF Undisturbed
  <2>2. CASE req' = Notify({j})
    BY <2>1, <2>2, NotifyWakeup
  <2>. QED
    BY <1>b, <2>1, <2>2, SilentWakeup
<1>1. CASE Client(j) /\ ~Delete(j)
  <2>1. /\ UNCHANGED <<sent, pages, done, canceled, failed, req>>
        /\ \A k \in Jobs : pc[k] = "finish" => pc'[k] = "finish"
    BY <1>a, <1>1 DEF Client, Create, Touch, Age
  <2>. QED
    BY <1>b, <2>1
<1>2. CASE Delete(j)
  BY <1>2, CancelWakeup DEF Delete
<1>3. CASE \/ WorkerReady(j) \/ Start(j) \/ EndOfPages(j)
           \/ \E e \in BOOLEAN, d \in Details : ProcessReaped(j, e, d) \/ WsdEnd(j, e, d)
           \/ \E answer \in Answers : Recover(j, answer)
           \/ WsdUnavailable(j) \/ WsdBegin(j)
  <2>1. /\ UNCHANGED <<sent, pages, done, canceled, failed>>
        /\ \A k \in Jobs : pc[k] = "finish" => pc'[k] = "finish"
        /\ UNCHANGED req \/ req' = Notify({j})
    BY <1>a, <1>3 DEF WorkerReady, Start, EndOfPages, ProcessReaped, WsdEnd, Recover,
       WsdUnavailable, WsdBegin
  <2>. QED
    BY <1>b, <2>1
<1>4. ASSUME NEW e \in BOOLEAN, NEW x \in BOOLEAN, NEW answer \in Answers,
             WsdCleanup(j, e, answer, x)
      PROVE  NoLostWakeup'
  <2>1. /\ UNCHANGED <<sent, pages, done, canceled, req>>
        /\ pc' = [pc EXCEPT ![j] = "finish"] /\ failed' \subseteq failed \cup {j}
    BY <1>4 DEF WsdCleanup
  <2>2. \A k \in Jobs : Undisturbed(k)
    BY <1>a, <2>1 DEF Undisturbed
  <2>. QED
    BY <2>1, <2>2, SilentWakeup
<1>5. CASE Finish(j)
  <2>1. /\ UNCHANGED <<sent, pages, canceled, failed>> /\ done' = done \cup {j}
        /\ req' = Notify({j}) /\ pc' = [pc EXCEPT ![j] = "ended"]
    BY <1>5 DEF Finish
  <2>2. \A k \in Jobs \ {j} : Undisturbed(k)
    BY <1>a, <2>1 DEF Undisturbed
  <2>. QED
    BY <2>1, <2>2, NotifyWakeup
<1>6. CASE Publish(j)
  <2>1. /\ UNCHANGED <<sent, done, canceled, failed, pc>> /\ req' = Notify({j})
        /\ pages' = [pages EXCEPT ![j] = @ + 1]
    BY <1>6 DEF Publish
  <2>2. \A k \in Jobs \ {j} : Undisturbed(k)
    BY <1>a, <2>1 DEF Undisturbed
  <2>. QED
    BY <2>1, <2>2, NotifyWakeup
<1>7. ASSUME Fail(j), UNCHANGED <<sent, pages, done>>,
             \A k \in Jobs : pc[k] = "finish" => pc'[k] = "finish"
      PROVE  NoLostWakeup'
  BY <1>7, CancelWakeup DEF Fail
<1>8. CASE PageError(j)
  <2>1. Fail(j) /\ UNCHANGED <<sent, pages, done>>
        /\ \A k \in Jobs : pc[k] = "finish" => pc'[k] = "finish"
    BY <1>a, <1>8 DEF PageError
  <2>. QED
    BY <1>7, <2>1
<1>9. CASE WatchdogTimeout(j)
  <2>1. UNCHANGED <<sent, pages, done, pc>> /\ (Fail(j) \/ UNCHANGED <<canceled, failed, req>>)
    BY <1>9 DEF WatchdogTimeout
  <2>2. CASE Fail(j)
    BY <1>7, <2>1, <2>2
  <2>3. CASE UNCHANGED <<canceled, failed, req>>
    BY <1>b, <2>1, <2>3
  <2>. QED
    BY <2>1, <2>2, <2>3
<1>10. CASE ProcessExits(j) \/ WatchdogCancel(j) \/ WatchdogStop(j) \/ WatchdogKill(j)
  <2>1. UNCHANGED <<sent, pages, done, canceled, failed, pc, req>>
    BY <1>10 DEF ProcessExits, WatchdogCancel, WatchdogStop, WatchdogKill
  <2>. QED
    BY <1>b, <2>1
<1>11. CASE Worker(j)
  BY <1>3, <1>4, <1>5, <1>11 DEF Worker
<1>12. CASE Device(j) \/ Watchdog(j)
  BY <1>6, <1>8, <1>9, <1>10, <1>12 DEF Device, PageRead, WsdPage, Watchdog
<1>. QED
  BY <1>1, <1>2, <1>11, <1>12

LEMMA WakeupOfBridge ==
    ASSUME TypeOK, NoLostWakeup, Status \/ SettleOver \/ Reap \/ Ending
    PROVE  NoLostWakeup'
<1>. USE DEF table, job, fields, ends, uses, results, process, device
<1>1. CASE Reap \/ Shutdown
  BY <1>1, CancelWakeup DEF Reap, Shutdown
<1>2. CASE Status \/ SettleOver \/ HandlersDone \/ RemoveSpools \/ ShutdownExpires
  <2>1. UNCHANGED <<sent, pages, done, canceled, failed, pc, req>>
    BY <1>2 DEF Status, StatusProbe, StatusReply, SettleOver, HandlersDone, RemoveSpools,
       ShutdownExpires
  <2>. QED
    BY <2>1 DEF NoLostWakeup
<1>. QED
  BY <1>1, <1>2 DEF Ending

LEMMA WakeupNext ==
    TypeOK /\ Outcome /\ Serving /\ Delivery /\ NoLostWakeup /\ [Next]_vars => NoLostWakeup'
<1>. SUFFICES ASSUME TypeOK, Outcome, Serving, Delivery, NoLostWakeup, [Next]_vars
              PROVE  NoLostWakeup'
  OBVIOUS
<1>1. CASE UNCHANGED vars
  BY <1>1 DEF vars, job, fields, ends, NoLostWakeup
<1>2. CASE Next
  BY <1>2, WakeupOfRequest, WakeupOfJob, WakeupOfBridge DEF Next
<1>. QED
  BY <1>1, <1>2

\* A request never sleeps on something it should have reported.
THEOREM NoWakeupIsLost == Spec => []NoLostWakeup
<1>1. Init => NoLostWakeup
  BY DEF Init, NoRequest, NoLostWakeup
<1>2. Spec => []Outcome
  BY TypeCorrect, AcquisitionCorrect, OutcomeInit, OutcomeNext, PTL DEF Spec
<1>. QED
  BY <1>1, <1>2, TypeCorrect, ServingCorrect, DeliveryCorrect, WakeupNext, PTL DEF Spec
=============================================================================
