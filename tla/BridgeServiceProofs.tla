------------------------- MODULE BridgeServiceProofs -------------------------
(***************************************************************************)
(* Proofs about the beginning and the end of the bridge's work: which      *)
(* scans start, what main() leaves behind, and that all of it implements   *)
(* ScanService.                                                            *)
(***************************************************************************)
EXTENDS BridgeServeProofs

-----------------------------------------------------------------------------
(* Starts and exits.  The unfinished job is in the table, which is why shutdown() finds *)
(* and cancels it; and the settling interval cannot begin while a worker is past it,    *)
(* because it begins where a job ends.                                                 *)

Wanted ==
    /\ active # NoJob => active \in jobs
    /\ active # NoJob /\ Closed => active \in canceled
    /\ \A j \in Jobs : pc[j] = "start" => ~settling

Born == \A j \in jobs : pc[j] # "unborn"

Left == main = "exited" => active = NoJob /\ spool = {}

Ordered == Wanted /\ Born /\ Left

\* Nothing begins, ends or is removed that is not over.
LEMMA QuietOrdered ==
    ASSUME Ordered, Running, UNCHANGED <<active, main>>,
           active # NoJob /\ active \in jobs => active \in jobs',
           jobs' \subseteq jobs, jobs \subseteq Jobs,
           canceled \subseteq canceled', settling' => settling,
           \A j \in Jobs : pc'[j] = "start" => pc[j] = "start" \/ ~settling,
           \A j \in Jobs : pc'[j] = "unborn" => pc[j] = "unborn"
    PROVE  Ordered'
<1>1. Wanted'
  BY DEF Ordered, Wanted, Closed
<1>2. Left'
  BY DEF Ordered, Left, Running
<1>3. Born'
  BY DEF Ordered, Born
<1>. QED
  BY <1>1, <1>2, <1>3 DEF Ordered

LEMMA OrderedOfJob ==
    ASSUME TypeOK, Acquisition, Ordered, Running, NEW j \in Jobs,
           Client(j) \/ Worker(j) \/ Device(j) \/ Watchdog(j)
    PROVE  Ordered'
<1>. USE DEF WorkerGoes, ToFinish, table, job, fields, ends, uses, results, process, device
<1>a. pc \in [Jobs -> WorkerPC]
  BY DEF TypeOK, StateOK, WorkerOK
<1>b. (active # NoJob => active \notin done) /\ jobs \subseteq Jobs
  BY DEF Acquisition, ActiveIsUnfinished, TypeOK, StateOK, TableOK
<1>1. ASSUME NEW src \in Sources, Create(j, src) PROVE Ordered'
  <2>1. Born'
    BY <1>a, <1>b, <1>1 DEF Create, Ordered, Born
  <2>2. Wanted' /\ Left'
    BY <1>a, <1>1, BridgeAssumption DEF Create, Busy, Ordered, Wanted, Left, Closed, Running
  <2>. QED
    BY <2>1, <2>2 DEF Ordered
<1>2. CASE Touch(j) \/ Age(j) \/ \E r \in Requests : NextDocument(r, j)
  BY <1>b, <1>2, QuietOrdered DEF Touch, Age, NextDocument
<1>3. CASE Delete(j)
  BY <1>b, <1>3, QuietOrdered DEF Delete, Remove, Cancel
<1>4. CASE WorkerReady(j)
  BY <1>a, <1>b, <1>4, QuietOrdered DEF WorkerReady
<1>5. CASE \/ Start(j) \/ EndOfPages(j)
           \/ \E e \in BOOLEAN, d \in Details : ProcessReaped(j, e, d) \/ WsdEnd(j, e, d)
           \/ \E answer \in Answers : Recover(j, answer)
           \/ WsdUnavailable(j) \/ WsdBegin(j)
           \/ \E e, x \in BOOLEAN, answer \in Answers : WsdCleanup(j, e, answer, x)
  <2>1. /\ UNCHANGED <<active, main, jobs, canceled, settling>>
        /\ \E p \in {"finish", "scan", "wait", "recover", "wsdScan", "wsdCleanup"} :
             pc' = [pc EXCEPT ![j] = p]
    BY <1>5 DEF Start, EndOfPages, ProcessReaped, WsdEnd, Recover, WsdUnavailable, WsdBegin,
       WsdCleanup
  <2>2. \A k \in Jobs : pc'[k] \in {"start", "unborn"} => pc[k] = pc'[k]
    BY <1>a, <2>1
  <2>. QED
    BY <1>b, <2>1, <2>2, QuietOrdered
<1>6. CASE Finish(j)
  <2>1. /\ active' = NoJob /\ UNCHANGED main /\ pc' = [pc EXCEPT ![j] = "ended"]
        /\ active = j
    BY <1>6, BridgeAssumption DEF Finish, Released, Acquisition, ActiveIsUnfinished
  <2>2. ASSUME NEW k \in Jobs, pc'[k] = "start" PROVE FALSE
    <3>1. k # j /\ pc[k] = "start"
      BY <1>a, <2>1, <2>2
    <3>2. active = k
      BY <3>1 DEF Acquisition, ActiveIsUnfinished
    <3>. QED
      BY <2>1, <3>1, <3>2
  <2>3. Born'
    BY <1>a, <1>b, <1>6, <2>1 DEF Finish, Remove, Ordered, Born
  <2>. QED
    BY <2>1, <2>2, <2>3 DEF Ordered, Wanted, Left, Running
<1>7. CASE Publish(j) \/ PageError(j)
  BY <1>a, <1>b, <1>7, QuietOrdered DEF Publish, PageError, Fail, Cancel
<1>8. CASE ProcessExits(j) \/ Watchdog(j)
  BY <1>b, <1>8, QuietOrdered DEF ProcessExits, Watchdog, WatchdogCancel, WatchdogTimeout, Fail, Cancel,
     WatchdogStop, WatchdogKill
<1>9. CASE Client(j)
  BY <1>1, <1>2, <1>3, <1>9 DEF Client
<1>10. CASE Worker(j)
  BY <1>4, <1>5, <1>6, <1>10 DEF Worker
<1>. QED
  BY <1>7, <1>8, <1>9, <1>10 DEF Device, PageRead, WsdPage

LEMMA OrderedOfBridge ==
    ASSUME TypeOK, Acquisition, Serving, Ordered, Running,
           \/ \E r \in Requests : Handler(r)
           \/ Status \/ SettleOver \/ Reap \/ Ending
    PROVE  Ordered'
<1>. USE DEF table, job, fields, ends, uses, results, process, device
<1>b. (active # NoJob => active \notin done) /\ jobs \subseteq Jobs
  BY DEF Acquisition, ActiveIsUnfinished, TypeOK, StateOK, TableOK
<1>1. ASSUME NEW r \in Requests, Handler(r) PROVE Ordered'
  <2>1. UNCHANGED <<active, main, pc, settling>> /\ canceled \subseteq canceled'
    BY <1>1 DEF Handler, LookAtJob, PageSent, PageUnavailable, PendingTimer, ClientGone,
       LeaveDocument, Cancel
  <2>2. jobs \ done \subseteq jobs' /\ jobs' \subseteq jobs
    BY <1>1 DEF Handler, LookAtJob, PageSent, PageUnavailable, PendingTimer, ClientGone,
       LeaveDocument, LeaveCollects, Remove
  <2>. QED
    BY <1>b, <2>1, <2>2, QuietOrdered
<1>2. CASE Status
  BY <1>b, <1>2, QuietOrdered DEF Status, StatusProbe, StatusReply
<1>3. CASE SettleOver
  BY <1>b, <1>3, QuietOrdered DEF SettleOver
<1>4. CASE Reap
  BY <1>b, <1>4, QuietOrdered DEF Reap, Remove, Cancel
<1>5. CASE Shutdown
  BY <1>b, <1>5 DEF Shutdown, Cancel, Ordered, Wanted, Born, Left, Closed
<1>6. CASE HandlersDone
  BY <1>6 DEF HandlersDone, Ordered, Wanted, Born, Left, Closed
<1>7. CASE RemoveSpools \/ ShutdownExpires
  <2>1. /\ UNCHANGED <<active, jobs, canceled, pc, settling>>
        /\ main \in {"closed", "drained"}
        /\ main' = "exited" => active = NoJob /\ spool' = {}
    BY <1>7 DEF RemoveSpools, ShutdownExpires, Serving
  <2>. QED
    BY <2>1 DEF Ordered, Wanted, Born, Left, Closed
<1>. QED
  BY <1>1, <1>2, <1>3, <1>4, <1>5, <1>6, <1>7 DEF Ending

LEMMA OrderedInit == Init => Ordered
BY DEF Init, Ordered, Wanted, Born, Left

LEMMA OrderedNext == TypeOK /\ Acquisition /\ Serving /\ Ordered /\ [Next]_vars => Ordered'
<1>. SUFFICES ASSUME TypeOK, Acquisition, Serving, Ordered, [Next]_vars PROVE Ordered'
  OBVIOUS
<1>1. CASE UNCHANGED vars
  BY <1>1 DEF vars, table, job, device, Ordered, Wanted, Born, Left, Closed
<1>2. CASE Next
  BY <1>2, OrderedOfJob, OrderedOfBridge DEF Next
<1>. QED
  BY <1>1, <1>2

LEMMA OrderedCorrect == Spec => []Ordered
BY TypeCorrect, AcquisitionCorrect, ServingCorrect, OrderedInit, OrderedNext, PTL DEF Spec

\* When main() returns with no acquisition left, the spools are gone and nobody talks to
\* the scanner.
THEOREM ExitIsClean == Spec => []CleanExit
<1>1. Acquisition /\ Ordered => CleanExit
  <2>. SUFFICES ASSUME Acquisition, Ordered, main = "exited"
                PROVE  spool = {} /\ Talking = {}
    BY DEF CleanExit
  <2>1. active = NoJob /\ spool = {}
    BY DEF Ordered, Left
  <2>2. ASSUME NEW j \in Talking PROVE FALSE
    <3>1. j \in Jobs /\ active = j
      BY <2>2 DEF Talking, Acquisition, ActiveIsUnfinished
    <3>. QED
      BY <2>1, <3>1, BridgeAssumption
  <2>. QED
    BY <2>1, <2>2
<1>. QED
  BY <1>1, AcquisitionCorrect, OrderedCorrect, PTL

\* A scan starts only while its job is wanted, after the settling interval, and never once
\* the shutdown has begun.
THEOREM OnlyWantedStarts == Spec => StartStillWanted
<1>. DEFINE Good == \A j \in Jobs : proc[j] = "none" /\ proc'[j] = "running"
                      => j \notin canceled /\ ~settling /\ ~Closed /\ active = j
<1>1. TypeOK /\ Acquisition /\ Outcome /\ Ordered /\ [Next]_vars => [Good]_vars
  <2>. SUFFICES ASSUME TypeOK, Acquisition, Outcome, Ordered, Next,
                       NEW j \in Jobs, proc[j] = "none", proc'[j] = "running"
                PROVE  j \notin canceled /\ ~settling /\ ~Closed /\ active = j
    OBVIOUS
  <2>. USE DEF table, job, fields, ends, uses, results, process, device
  <2>a. proc \in [Jobs -> {"none", "running", "interrupted", "exited"}]
    BY DEF TypeOK, StateOK, WorkerOK
  <2>1. pc[j] = "start" /\ StillWanted(j)
    <3>1. ASSUME NEW k \in Jobs, Start(k) PROVE k = j /\ pc[j] = "start" /\ StillWanted(j)
      BY <2>a, <3>1 DEF Start
    <3>2. ASSUME NEW k \in Jobs, Client(k) \/ Device(k) PROVE FALSE
      BY <2>a, <3>2 DEF Client, Create, Touch, Delete, Age, NextDocument, Device, PageRead,
         WsdPage, Publish, PageError, ProcessExits
    <3>3. ASSUME NEW k \in Jobs, Worker(k), ~Start(k) PROVE FALSE
      BY <2>a, <3>3 DEF Worker, WorkerReady, EndOfPages, ProcessReaped, WsdEnd, Recover,
         WsdUnavailable, WsdBegin, WsdCleanup, Finish
    <3>4. ASSUME NEW k \in Jobs, Watchdog(k) PROVE FALSE
      BY <2>a, <3>4 DEF Watchdog, WatchdogCancel, WatchdogTimeout, Interrupt, WatchdogStop,
         WatchdogKill
    <3>5. ASSUME NEW r \in Requests, Handler(r) PROVE FALSE
      BY <3>5 DEF Handler, LookAtJob, PageSent, PageUnavailable, PendingTimer, ClientGone,
         LeaveDocument
    <3>6. ASSUME Status \/ SettleOver \/ Reap \/ Ending PROVE FALSE
      BY <3>6 DEF Status, StatusProbe, StatusReply, SettleOver, Reap, Ending, Shutdown,
         HandlersDone, RemoveSpools, ShutdownExpires
    <3>. QED
      BY <3>1, <3>2, <3>3, <3>4, <3>5, <3>6 DEF Next
  <2>2. j \notin done /\ active = j /\ j # NoJob
    BY <2>1, BridgeAssumption DEF Acquisition, ActiveIsUnfinished
  <2>3. j \notin canceled
    BY <2>1, <2>2 DEF StillWanted, Outcome, CanceledShowsCanceled
  <2>. QED
    BY <2>1, <2>2, <2>3 DEF Ordered, Wanted
<1>2. Spec => []Outcome
  BY TypeCorrect, AcquisitionCorrect, OutcomeInit, OutcomeNext, PTL DEF Spec
<1>3. Spec => [][Good]_vars
  BY <1>1, <1>2, TypeCorrect, AcquisitionCorrect, OrderedCorrect, PTL DEF Spec
<1>. QED
  BY <1>3 DEF StartStillWanted

-----------------------------------------------------------------------------
(* The refinement: one step of the bridge is one step of the service or none.           *)

\* What the service sees is unchanged.
LEMMA ServiceStutters ==
    ASSUME UNCHANGED <<pages, delivered, done, jobs>>, Closed' <=> Closed,
           \A k \in Jobs : pc'[k] = "unborn" <=> pc[k] = "unborn"
    PROVE  UNCHANGED Service!svars
<1>1. UNCHANGED [j \in Jobs |-> Phase(j)]
  BY DEF Phase
<1>2. UNCHANGED (~Closed)
  OBVIOUS
<1>. QED
  BY <1>1, <1>2 DEF Service!svars

\* Jobs of S that have ended leave the table.
LEMMA ServiceForgets ==
    ASSUME NEW S \in SUBSET Jobs, jobs' = jobs \ S, S \subseteq jobs \cap done,
           \A j \in S : pc[j] # "unborn",
           UNCHANGED <<pages, delivered, done, pc, main>>
    PROVE  Service!Next
<1>1. \A j \in S : [k \in Jobs |-> Phase(k)][j] = "ended"
  BY DEF Phase
<1>2. [j \in Jobs |-> Phase(j)]' =
        [j \in Jobs |-> IF j \in S THEN "gone" ELSE [k \in Jobs |-> Phase(k)][j]]
  BY DEF Phase
<1>3. Service!Forget(S)
  BY <1>1, <1>2 DEF Service!Forget, Closed
<1>. QED
  BY <1>3 DEF Service!Next

LEMMA ServiceInit == Init => Service!Init
<1>. SUFFICES ASSUME Init PROVE Service!Init
  OBVIOUS
<1>1. [j \in Jobs |-> Phase(j)] = [j \in Jobs |-> "unborn"]
  BY DEF Init, Phase
<1>2. (~Closed) = TRUE
  BY DEF Init, Closed
<1>. QED
  BY <1>1, <1>2 DEF Init, Service!Init

LEMMA ServiceOfClient ==
    ASSUME TypeOK, Acquisition, Serving, Ordered, NEW j \in Jobs, Client(j)
    PROVE  [Service!Next]_(Service!svars)
<1>. USE DEF table, job, fields, ends, uses, results, process, device
<1>a. pc \in [Jobs -> WorkerPC] /\ jobs \subseteq Jobs
  BY DEF TypeOK, StateOK, WorkerOK, TableOK
<1>1. ASSUME NEW src \in Sources, Create(j, src) PROVE Service!Accept(j)
  <2>. DEFINE phase == [k \in Jobs |-> Phase(k)]
  <2>1. /\ pc[j] = "unborn" /\ ~Closed /\ active = NoJob /\ j \notin done
        /\ pc' = [pc EXCEPT ![j] = "settle"] /\ jobs' = jobs \cup {j}
        /\ UNCHANGED <<pages, delivered, done, main>>
    BY <1>1 DEF Create, WorkerGoes, Busy, Acquisition
  <2>2. phase[j] = "unborn"
    BY <2>1 DEF Phase
  <2>3. ASSUME NEW k \in Jobs PROVE phase[k] # "acquiring"
    BY <2>1, BridgeAssumption DEF Phase, Acquisition, ActiveIsUnfinished
  <2>4. phase' = [phase EXCEPT ![j] = "acquiring"]
    BY <1>a, <2>1 DEF Phase
  <2>. QED
    BY <2>1, <2>2, <2>3, <2>4 DEF Service!Accept, Closed
<1>2. CASE Touch(j) \/ Age(j) \/ \E r \in Requests : NextDocument(r, j)
  BY <1>2, ServiceStutters DEF Touch, Age, NextDocument, Closed
<1>3. CASE Delete(j)
  <2>1. j \in jobs /\ UNCHANGED <<pages, delivered, done, pc, main>>
    BY <1>3 DEF Delete
  <2>2. CASE j \in done \ reading
    <3>1. jobs' = jobs \ {j} /\ pc[j] = "ended"
      BY <1>3, <2>2 DEF Delete, Remove, Acquisition
    <3>2. /\ {j} \in SUBSET Jobs /\ {j} \subseteq jobs \cap done
          /\ \A k \in {j} : pc[k] # "unborn"
      BY <2>1, <2>2, <3>1
    <3>. QED
      BY <2>1, <3>1, <3>2, ServiceForgets
  <2>3. CASE j \notin done \ reading
    <3>1. UNCHANGED jobs
      BY <1>3, <2>3 DEF Delete
    <3>. QED
      BY <2>1, <3>1, ServiceStutters DEF Closed
  <2>. QED
    BY <2>2, <2>3
<1>. QED
  BY <1>1, <1>2, <1>3 DEF Client, Service!Next

LEMMA ServiceOfHandler ==
    ASSUME TypeOK, Acquisition, Serving, Delivery, Ordered, NEW r \in Requests, Handler(r)
    PROVE  [Service!Next]_(Service!svars)
<1>. USE DEF table, job, fields, ends, uses, results, process, device
<1>1. CASE PageSent(r)
  <2>. DEFINE j == req[r].job
              phase == [k \in Jobs |-> Phase(k)]
  <2>1. /\ req[r].pc = "copy" /\ j \in Jobs
        /\ delivered' = [delivered EXCEPT ![j] = Append(@, req[r].page)]
        /\ UNCHANGED <<pages, done, jobs, pc, main>>
    BY <1>1 DEF PageSent, TypeOK, StateOK, RequestOK, Engaged
  <2>2. j \in jobs /\ pc[j] # "unborn"
    BY <2>1 DEF Serving, Held, Ordered, Born
  <2>3. phase[j] \in {"acquiring", "ended"}
    BY <2>1, <2>2 DEF Phase
  <2>4. req[r].page = sent[j] + 1 /\ sent[j] < pages[j] /\ sent[j] \in Nat
        /\ delivered[j] = [i \in 1 .. sent[j] |-> i]
    BY <2>1 DEF Delivery, Copying, DeliveredInOrder, TypeOK, StateOK, JobOK
  <2>5. Len(delivered[j]) = sent[j]
    BY <2>4
  <2>6. delivered' = [delivered EXCEPT ![j] = Append(@, Len(@) + 1)]
    BY <2>1, <2>4, <2>5
  <2>7. UNCHANGED phase
    BY <2>1 DEF Phase
  <2>8. Service!Deliver(j)
    BY <2>1, <2>3, <2>4, <2>5, <2>6, <2>7 DEF Service!Deliver, Closed
  <2>. QED
    BY <2>1, <2>8 DEF Service!Next
<1>2. CASE LookAtJob(r) \/ PageUnavailable(r) \/ PendingTimer(r) \/ ClientGone(r)
  BY <1>2, ServiceStutters DEF LookAtJob, PageUnavailable, PendingTimer, ClientGone, Closed
<1>3. CASE LeaveDocument(r)
  <2>. DEFINE j == req[r].job
  <2>1. /\ j \in Jobs /\ j \in jobs /\ UNCHANGED <<pages, delivered, done, pc, main>>
    BY <1>3 DEF LeaveDocument, Serving, Held, TypeOK, StateOK, RequestOK, Engaged
  <2>2. CASE LeaveCollects(j)
    <3>1. jobs' = jobs \ {j} /\ j \in done /\ pc[j] = "ended"
      BY <1>3, <2>1, <2>2 DEF LeaveDocument, LeaveCollects, Remove, Acquisition
    <3>2. /\ {j} \in SUBSET Jobs /\ {j} \subseteq jobs \cap done
          /\ \A k \in {j} : pc[k] # "unborn"
      BY <2>1, <3>1
    <3>. QED
      BY <2>1, <3>1, <3>2, ServiceForgets
  <2>3. CASE ~LeaveCollects(j)
    <3>1. UNCHANGED jobs
      BY <1>3, <2>3 DEF LeaveDocument
    <3>. QED
      BY <2>1, <3>1, ServiceStutters DEF Closed
  <2>. QED
    BY <2>2, <2>3
<1>. QED
  BY <1>1, <1>2, <1>3 DEF Handler

\* A worker that moves on is between its birth and its end.
LEMMA ServiceOfWorker ==
    ASSUME TypeOK, Acquisition, Serving, Ordered, NEW j \in Jobs, Worker(j)
    PROVE  [Service!Next]_(Service!svars)
<1>. USE DEF WorkerGoes, ToFinish, table, job, fields, ends, uses, results, process, device
<1>. DEFINE phase == [k \in Jobs |-> Phase(k)]
<1>a. pc \in [Jobs -> WorkerPC]
  BY DEF TypeOK, StateOK, WorkerOK
<1>1. CASE \/ WorkerReady(j) \/ Start(j) \/ EndOfPages(j)
           \/ \E e \in BOOLEAN, d \in Details : ProcessReaped(j, e, d) \/ WsdEnd(j, e, d)
           \/ \E answer \in Answers : Recover(j, answer)
           \/ WsdUnavailable(j) \/ WsdBegin(j)
           \/ \E e, x \in BOOLEAN, answer \in Answers : WsdCleanup(j, e, answer, x)
  <2>1. /\ UNCHANGED <<pages, delivered, done, jobs, main>> /\ pc[j] # "unborn"
        /\ \/ UNCHANGED pc
           \/ \E p \in WorkerPC \ {"unborn"} : pc' = [pc EXCEPT ![j] = p]
    BY <1>1 DEF WorkerReady, Start, EndOfPages, ProcessReaped, WsdEnd, Recover, WsdUnavailable,
       WsdBegin, WsdCleanup, WorkerPC
  <2>2. \A k \in Jobs : pc'[k] = "unborn" <=> pc[k] = "unborn"
    BY <1>a, <2>1
  <2>. QED
    BY <2>1, <2>2, ServiceStutters DEF Closed
<1>2. CASE Finish(j)
  <2>1. /\ pc[j] = "finish" /\ pc' = [pc EXCEPT ![j] = "ended"] /\ done' = done \cup {j}
        /\ UNCHANGED <<pages, delivered, main>>
        /\ jobs' = jobs \ {j} \/ UNCHANGED jobs
    BY <1>2 DEF Finish, Remove
  <2>2. j \notin done /\ j \in jobs
    BY <2>1, BridgeAssumption DEF Acquisition, ActiveIsUnfinished, Ordered, Wanted
  <2>3. phase[j] = "acquiring"
    BY <2>1, <2>2 DEF Phase
  <2>4. PICK p : p = IF j \in jobs' THEN "ended" ELSE "gone"
    OBVIOUS
  <2>5. phase' = [phase EXCEPT ![j] = p]
    BY <1>a, <2>1, <2>4 DEF Phase
  <2>6. Service!End(j)
    BY <2>1, <2>3, <2>4, <2>5 DEF Service!End, Closed
  <2>. QED
    BY <2>6 DEF Service!Next
<1>. QED
  BY <1>1, <1>2 DEF Worker

LEMMA ServiceOfDevice ==
    ASSUME TypeOK, Acquisition, NEW j \in Jobs, Device(j) \/ Watchdog(j)
    PROVE  [Service!Next]_(Service!svars)
<1>. USE DEF WorkerGoes, table, job, fields, ends, uses, results, process, device
<1>. DEFINE phase == [k \in Jobs |-> Phase(k)]
<1>a. pc \in [Jobs -> WorkerPC]
  BY DEF TypeOK, StateOK, WorkerOK
<1>1. CASE PageRead(j) \/ WsdPage(j)
  <2>1. /\ pc[j] \in {"scan", "wsdScan"} /\ pages' = [pages EXCEPT ![j] = @ + 1]
        /\ UNCHANGED <<delivered, done, jobs, pc, main>>
    BY <1>1 DEF PageRead, WsdPage, Publish
  <2>2. phase[j] = "acquiring" /\ UNCHANGED phase
    BY <2>1 DEF Phase, Acquisition
  <2>3. Service!Publish(j)
    BY <2>1, <2>2 DEF Service!Publish, Closed
  <2>. QED
    BY <2>3 DEF Service!Next
<1>2. CASE PageError(j) \/ ProcessExits(j) \/ Watchdog(j)
  <2>1. /\ UNCHANGED <<pages, delivered, done, jobs, main>>
        /\ UNCHANGED pc \/ (pc[j] = "scan" /\ pc' = [pc EXCEPT ![j] = "wait"])
    BY <1>2 DEF PageError, ProcessExits, Watchdog, WatchdogCancel, WatchdogTimeout, WatchdogStop,
       WatchdogKill
  <2>2. \A k \in Jobs : pc'[k] = "unborn" <=> pc[k] = "unborn"
    BY <1>a, <2>1
  <2>. QED
    BY <2>1, <2>2, ServiceStutters DEF Closed
<1>. QED
  BY <1>1, <1>2 DEF Device

LEMMA ServiceOfBridge ==
    ASSUME TypeOK, Acquisition, Ordered, Status \/ SettleOver \/ Reap \/ Ending
    PROVE  [Service!Next]_(Service!svars)
<1>. USE DEF table, job, fields, ends, uses, results, process, device
<1>1. CASE Status \/ SettleOver \/ HandlersDone \/ RemoveSpools \/ ShutdownExpires
  <2>1. UNCHANGED <<pages, delivered, done, jobs, pc>> /\ (Closed' <=> Closed)
    BY <1>1 DEF Status, StatusProbe, StatusReply, SettleOver, HandlersDone, RemoveSpools,
       ShutdownExpires, Closed
  <2>. QED
    BY <2>1, ServiceStutters
<1>2. CASE Reap
  <2>1. UNCHANGED <<pages, delivered, done, pc, main>> /\ jobs' = jobs \ (Abandoned \cap done)
    BY <1>2 DEF Reap, Remove
  <2>2. /\ Abandoned \cap done \in SUBSET Jobs
        /\ Abandoned \cap done \subseteq jobs \cap done
        /\ \A k \in Abandoned \cap done : pc[k] # "unborn"
    BY DEF Abandoned, Ordered, Born, TypeOK, StateOK, TableOK
  <2>. QED
    BY <2>1, <2>2, ServiceForgets
<1>3. CASE Shutdown
  <2>1. UNCHANGED <<pages, delivered, done, jobs, pc>> /\ main' = "closed"
    BY <1>3 DEF Shutdown
  <2>2. UNCHANGED [j \in Jobs |-> Phase(j)]
    BY <2>1 DEF Phase
  <2>3. Service!Close
    BY <2>1, <2>2 DEF Service!Close, Closed
  <2>. QED
    BY <2>3 DEF Service!Next
<1>. QED
  BY <1>1, <1>2, <1>3 DEF Ending

LEMMA ServiceNext ==
    TypeOK /\ Acquisition /\ Serving /\ Delivery /\ Ordered /\ [Next]_vars
      => [Service!Next]_(Service!svars)
<1>. SUFFICES ASSUME TypeOK, Acquisition, Serving, Delivery, Ordered, [Next]_vars
              PROVE  [Service!Next]_(Service!svars)
  OBVIOUS
<1>1. CASE UNCHANGED vars
  BY <1>1, ServiceStutters DEF vars, table, job, fields, ends, Closed
<1>2. CASE Next
  BY <1>2, ServiceOfClient, ServiceOfHandler, ServiceOfWorker, ServiceOfDevice, ServiceOfBridge
  DEF Next
<1>. QED
  BY <1>1, <1>2

\* The bridge implements ScanService: one acquisition at a time, no job after the shutdown,
\* pages of a job delivered in order and only when they are there.
THEOREM BridgeImplementsService == Spec => ImplementsService
<1>. USE DEF ImplementsService, Service!Spec
<1>1. Spec => Service!Init
  BY ServiceInit DEF Spec
<1>. QED
  BY <1>1, TypeCorrect, AcquisitionCorrect, ServingCorrect, DeliveryCorrect, OrderedCorrect,
     ServiceNext, PTL DEF Spec
=============================================================================
