---------------------------- MODULE BridgeProofs ----------------------------
(***************************************************************************)
(* Proofs about the bridge, for any sets of jobs and requests, any limits  *)
(* and both backends.                                                      *)
(***************************************************************************)
EXTENDS BridgeProps, TLAPS

-----------------------------------------------------------------------------
(* Type correctness *)

At(q, p) == [q EXCEPT !.pc = p]

\* A request that moves stays a request, of the same job.
LEMMA AtType ==
    ASSUME NEW q \in RequestState, NEW p \in RequestPC
    PROVE  At(q, p) \in RequestState /\ At(q, p).job = q.job /\ At(q, p).pc = p
<1>1. At(q, p) \in RequestState
  BY ZenonT(60) DEF At, RequestState
<1>2. At(q, p).job = q.job /\ At(q, p).pc = p
  BY ZenonT(60) DEF At, RequestState
<1>. QED
  BY <1>1, <1>2

\* notify() only moves waiting requests.
LEMMA NotifyType ==
    ASSUME RequestOK, NEW S
    PROVE  Notify(S) \in [Requests -> RequestState] /\ Engaged(Notify(S))
<1>1. ASSUME NEW r \in Requests
      PROVE  /\ req[r] \in RequestState /\ At(req[r], "woken") \in RequestState
             /\ At(req[r], "woken").job = req[r].job
  BY AtType DEF RequestOK, RequestPC
<1>2. Notify(S) = [r \in Requests |-> IF req[r].pc = "wait" /\ req[r].job \in S
                                     THEN At(req[r], "woken") ELSE req[r]]
  BY DEF Notify, At
<1>3. Notify(S) \in [Requests -> RequestState]
  BY <1>1, <1>2
<1>. QED
  BY <1>1, <1>2, <1>3 DEF RequestOK, Engaged

\* A step of one request.
LEMMA MoveType ==
    ASSUME NEW f \in [Requests -> RequestState], Engaged(f),
           NEW r \in Requests, NEW p \in RequestPC, f[r].job \in Jobs
    PROVE  [f EXCEPT ![r].pc = p] \in [Requests -> RequestState]
           /\ Engaged([f EXCEPT ![r].pc = p])
<1>2. At(f[r], p) \in RequestState /\ At(f[r], p).job \in Jobs
  BY AtType
<1>3. [f EXCEPT ![r].pc = p] = [f EXCEPT ![r] = At(f[r], p)]
  BY DEF At
<1>. QED
  BY <1>2, <1>3 DEF Engaged

\* cancel() writes a legal state.
LEMMA CancelType ==
    ASSUME JobOK, NEW S, S \subseteq Jobs, Cancel(S)
    PROVE  canceled' \subseteq Jobs /\ state' \in [Jobs -> States]
BY DEF JobOK, Cancel, States

\* finish() leaves a legal state and a legal status.
LEMMA EndTypes ==
    ASSUME StateOK, NEW j \in Jobs
    PROVE  EndState(j) \in States /\ EndStatus(j) \in Statuses
<1>1. EndState(j) \in States
  BY DEF EndState, States
<1>2. status \in Statuses /\ status[2] \in {"Loaded", "Empty", "Jam", "Unknown", "Processing"}
  BY DEF StateOK, BridgeOK, Statuses
<1>3. reply[j] # NoReply => reply[j] \in Statuses
  BY BridgeAssumption DEF StateOK, WorkerOK, Answers
<1>. QED
  BY <1>1, <1>2, <1>3 DEF EndStatus, Statuses

\* Removing jobs only shrinks the table.
LEMMA RemoveType ==
    ASSUME TableOK, NEW S, Remove(S) \/ UNCHANGED <<jobs, spool>>, UNCHANGED active
    PROVE  TableOK'
BY DEF TableOK, Remove

-----------------------------------------------------------------------------
(* One lemma for each group of actions *)

LEMMA ClientType ==
    ASSUME StateOK, NEW j \in Jobs, Client(j)
    PROVE  StateOK'
<1>. USE DEF StateOK, table, fields, ends, uses, results, process, device
<1>1. ASSUME NEW src \in Sources, Create(j, src) PROVE StateOK'
  <2>1. TableOK'
    BY <1>1 DEF Create, TableOK
  <2>2. JobOK'
    BY <1>1, BridgeAssumption DEF Create, JobOK
  <2>3. WorkerOK'
    BY <1>1 DEF Create, WorkerGoes, WorkerOK, WorkerPC
  <2>. QED
    BY <1>1, <2>1, <2>2, <2>3 DEF Create, RequestOK, BridgeOK
<1>2. CASE Touch(j)
  BY <1>2 DEF Touch, TableOK, JobOK, WorkerOK, RequestOK, BridgeOK
<1>3. CASE Delete(j)
  <2>1. JobOK'
    <3>1. canceled' \subseteq Jobs /\ state' \in [Jobs -> States]
      BY <1>3, CancelType DEF Delete
    <3>. QED
      BY <1>3, <3>1 DEF Delete, JobOK
  <2>2. RequestOK'
    BY <1>3, NotifyType DEF Delete, RequestOK
  <2>3. TableOK'
    BY <1>3, RemoveType DEF Delete
  <2>. QED
    BY <1>3, <2>1, <2>2, <2>3 DEF Delete, WorkerOK, BridgeOK
<1>4. CASE Age(j)
  BY <1>4 DEF Age, TableOK, JobOK, WorkerOK, RequestOK, BridgeOK
<1>5. ASSUME NEW r \in Requests, NextDocument(r, j) PROVE StateOK'
  <2>1. JobOK'
    BY <1>5 DEF NextDocument, JobOK
  <2>2. RequestOK'
    BY <1>5 DEF NextDocument, RequestOK, Engaged, RequestState, RequestPC
  <2>. QED
    BY <1>5, <2>1, <2>2 DEF NextDocument, TableOK, WorkerOK, BridgeOK
<1>. QED
  BY <1>1, <1>2, <1>3, <1>4, <1>5 DEF Client

LEMMA HandlerType ==
    ASSUME StateOK, NEW r \in Requests, Handler(r)
    PROVE  StateOK'
<1>. USE DEF StateOK, table, job, fields, ends, uses, results, process, device
<1>. DEFINE j == req[r].job
<1>a. req[r] \in RequestState /\ j \in Jobs
  <2>1. req[r].pc # "idle"
    BY DEF Handler, LookAtJob, PageSent, PageUnavailable, PendingTimer, ClientGone, LeaveDocument
  <2>. QED
    BY <2>1 DEF RequestOK, Engaged
<1>b. ASSUME Leave(r) PROVE req' \in [Requests -> RequestState] /\ Engaged(req')
  <2>1. req \in [Requests -> RequestState] /\ Engaged(req) /\ "leave" \in RequestPC
    BY DEF RequestOK, RequestPC
  <2>. QED
    BY <1>a, <1>b, <2>1, MoveType, Zenon DEF Leave
<1>1. CASE LookAtJob(r)
  <2>1. /\ At(req[r], "leave") \in RequestState /\ At(req[r], "leave").job \in Jobs
        /\ At(req[r], "wait") \in RequestState /\ At(req[r], "wait").job \in Jobs
    BY <1>a, AtType DEF RequestPC
  <2>2. [pc |-> "copy", job |-> j, page |-> sent[j] + 1] \in RequestState
    BY <1>a DEF RequestState, RequestPC, JobOK
  <2>3. PICK q \in RequestState : q.job \in Jobs /\ req' = [req EXCEPT ![r] = q]
    BY <1>1, <1>a, <2>1, <2>2 DEF LookAtJob, At
  <2>4. RequestOK'
    BY <1>1, <2>3 DEF LookAtJob, RequestOK, Engaged
  <2>. QED
    BY <1>1, <2>4 DEF LookAtJob, TableOK, JobOK, WorkerOK, BridgeOK
<1>2. CASE PageSent(r)
  <2>1. req[r].page \in Nat
    BY <1>a DEF RequestState
  <2>2. RequestOK'
    BY <1>2, <1>a, <1>b, <2>1 DEF PageSent, RequestOK
  <2>3. JobOK'
    BY <1>2, <1>a DEF PageSent, JobOK, States
  <2>. QED
    BY <1>2, <2>2, <2>3 DEF PageSent, TableOK, WorkerOK, BridgeOK
<1>3. CASE PageUnavailable(r)
  BY <1>3, <1>b DEF PageUnavailable, TableOK, JobOK, WorkerOK, RequestOK, BridgeOK
<1>4. CASE PendingTimer(r)
  BY <1>4, <1>b DEF PendingTimer, TableOK, JobOK, WorkerOK, RequestOK, BridgeOK
<1>5. CASE ClientGone(r)
  <2>1. canceled' \subseteq Jobs /\ state' \in [Jobs -> States]
    BY <1>5, <1>a, CancelType DEF ClientGone
  <2>2. JobOK'
    BY <1>5, <2>1 DEF ClientGone, JobOK
  <2>3. PICK f \in [Requests -> RequestState] :
          Engaged(f) /\ f = Notify(FirstCancel({j}))
    BY NotifyType
  <2>4. f[r].job \in Jobs
    BY <2>3, <1>a, AtType DEF Notify, RequestPC, At
  <2>5. RequestOK'
    BY <1>5, <2>3, <2>4, MoveType DEF ClientGone, RequestOK, RequestPC
  <2>. QED
    BY <1>5, <2>2, <2>5 DEF ClientGone, TableOK, WorkerOK, BridgeOK
<1>6. CASE LeaveDocument(r)
  <2>1. RequestOK'
    BY <1>6, <1>a DEF LeaveDocument, NoRequest, RequestOK, Engaged, RequestState, RequestPC
  <2>2. TableOK'
    BY <1>6, RemoveType DEF LeaveDocument
  <2>. QED
    BY <1>6, <2>1, <2>2 DEF LeaveDocument, JobOK, WorkerOK, BridgeOK
<1>. QED
  BY <1>1, <1>2, <1>3, <1>4, <1>5, <1>6 DEF Handler

LEMMA WorkerType ==
    ASSUME StateOK, NEW j \in Jobs, Worker(j)
    PROVE  StateOK'
<1>. USE DEF StateOK, WorkerGoes, ToFinish, table, job, fields, ends, uses, results, process, device
<1>1. CASE WorkerReady(j)
  <2>1. WorkerOK'
    BY <1>1 DEF WorkerReady, WorkerOK, WorkerPC
  <2>. QED
    BY <1>1, <2>1 DEF WorkerReady, TableOK, JobOK, RequestOK, BridgeOK
<1>2. CASE Start(j)
  <2>1. WorkerOK'
    BY <1>2 DEF Start, WorkerOK, WorkerPC
  <2>2. JobOK'
    BY <1>2 DEF Start, JobOK, States
  <2>3. RequestOK'
    BY <1>2, NotifyType DEF Start, RequestOK
  <2>. QED
    BY <1>2, <2>1, <2>2, <2>3 DEF Start, TableOK, BridgeOK
<1>3. CASE EndOfPages(j)
  <2>1. WorkerOK'
    BY <1>3 DEF EndOfPages, WorkerOK, WorkerPC
  <2>. QED
    BY <1>3, <2>1 DEF EndOfPages, TableOK, JobOK, RequestOK, BridgeOK
<1>4. ASSUME NEW e \in BOOLEAN, NEW d \in Details, ProcessReaped(j, e, d) \/ WsdEnd(j, e, d)
      PROVE  StateOK'
  <2>1. WorkerOK'
    BY <1>4 DEF ProcessReaped, WsdEnd, WorkerOK, WorkerPC
  <2>2. CASE ProcessReaped(j, e, d)
    BY <2>1, <2>2 DEF ProcessReaped, TableOK, JobOK, RequestOK, BridgeOK
  <2>3. CASE WsdEnd(j, e, d)
    BY <2>1, <2>3 DEF WsdEnd, TableOK, JobOK, RequestOK, BridgeOK
  <2>. QED
    BY <1>4, <2>2, <2>3
<1>5. ASSUME NEW answer \in Answers, Recover(j, answer)
      PROVE  StateOK'
  <2>1. WorkerOK'
    BY <1>5 DEF Recover, WorkerOK, WorkerPC
  <2>. QED
    BY <1>5, <2>1 DEF Recover, TableOK, JobOK, RequestOK, BridgeOK
<1>6. CASE WsdUnavailable(j)
  <2>1. WorkerOK'
    BY <1>6 DEF WsdUnavailable, WorkerOK, WorkerPC
  <2>. QED
    BY <1>6, <2>1 DEF WsdUnavailable, TableOK, JobOK, RequestOK, BridgeOK
<1>7. CASE WsdBegin(j)
  <2>1. WorkerOK'
    BY <1>7 DEF WsdBegin, WorkerOK, WorkerPC
  <2>2. JobOK'
    BY <1>7 DEF WsdBegin, JobOK, States
  <2>3. RequestOK'
    BY <1>7, NotifyType DEF WsdBegin, RequestOK
  <2>. QED
    BY <1>7, <2>1, <2>2, <2>3 DEF WsdBegin, TableOK, BridgeOK
<1>8. ASSUME NEW e \in BOOLEAN, NEW x \in BOOLEAN, NEW answer \in Answers,
             WsdCleanup(j, e, answer, x)
      PROVE  StateOK'
  <2>1. WorkerOK'
    BY <1>8 DEF WsdCleanup, WorkerOK, WorkerPC
  <2>2. JobOK'
    BY <1>8 DEF WsdCleanup, JobOK
  <2>. QED
    BY <1>8, <2>1, <2>2 DEF WsdCleanup, TableOK, RequestOK, BridgeOK
<1>9. CASE Finish(j)
  <2>1. WorkerOK'
    BY <1>9, BridgeAssumption DEF Finish, WorkerOK, WorkerPC, Answers
  <2>2. JobOK'
    <3>1. state' \in [Jobs -> States]
      BY <1>9, EndTypes DEF Finish, JobOK
    <3>2. errorHTTP' \in [Jobs -> {0, 404, 500}]
      <4>. DEFINE code == IF ~Aborts(j) THEN errorHTTP[j]
                          ELSE IF detail[j] = "out of documents" THEN 404 ELSE 500
      <4>1. code \in {0, 404, 500}
        BY DEF JobOK, Aborts
      <4>2. errorHTTP' = [errorHTTP EXCEPT ![j] = code]
        BY <1>9, Zenon DEF Finish
      <4>. HIDE DEF code
      <4>. QED
        BY <4>1, <4>2 DEF JobOK
    <3>3. UNCHANGED <<pages, sent, source, canceled, failed, deleted, uses>>
          /\ done' = done \cup {j}
      BY <1>9 DEF Finish
    <3>. QED
      BY <3>1, <3>2, <3>3 DEF JobOK
  <2>3. RequestOK'
    BY <1>9, NotifyType DEF Finish, RequestOK
  <2>4. TableOK'
    BY <1>9 DEF Finish, TableOK, Remove, Released
  <2>5. BridgeOK'
    BY <1>9, EndTypes DEF Finish, BridgeOK
  <2>. QED
    BY <2>1, <2>2, <2>3, <2>4, <2>5
<1>. QED
  BY <1>1, <1>2, <1>3, <1>4, <1>5, <1>6, <1>7, <1>8, <1>9 DEF Worker

\* Fail() leaves legal fields behind.
LEMMA FailType ==
    ASSUME JobOK, RequestOK, NEW j \in Jobs, Fail(j), UNCHANGED delivered,
           UNCHANGED <<fields, done, deleted, uses>>
    PROVE  JobOK' /\ RequestOK'
<1>1. canceled' \subseteq Jobs /\ state' \in [Jobs -> States]
  BY CancelType DEF Fail
<1>2. JobOK'
  BY <1>1 DEF Fail, JobOK, fields, uses
<1>3. RequestOK'
  BY NotifyType DEF Fail, RequestOK
<1>. QED
  BY <1>2, <1>3

LEMMA DeviceType ==
    ASSUME StateOK, NEW j \in Jobs, Device(j)
    PROVE  StateOK'
<1>. USE DEF StateOK, WorkerGoes, table, job, fields, ends, uses, results, process, device
<1>1. ASSUME Publish(j) PROVE StateOK'
  <2>1. JobOK'
    BY <1>1 DEF Publish, JobOK
  <2>2. RequestOK'
    BY <1>1, NotifyType DEF Publish, RequestOK
  <2>. QED
    BY <1>1, <2>1, <2>2 DEF Publish, TableOK, WorkerOK, BridgeOK
<1>2. CASE PageError(j)
  <2>1. WorkerOK'
    BY <1>2 DEF PageError, WorkerOK, WorkerPC
  <2>2. JobOK' /\ RequestOK'
    BY <1>2, FailType DEF PageError
  <2>. QED
    BY <1>2, <2>1, <2>2 DEF PageError, TableOK, BridgeOK
<1>3. CASE ProcessExits(j)
  BY <1>3 DEF ProcessExits, TableOK, JobOK, WorkerOK, RequestOK, BridgeOK
<1>. QED
  BY <1>1, <1>2, <1>3 DEF Device, PageRead, WsdPage

LEMMA WatchdogType ==
    ASSUME StateOK, NEW j \in Jobs, Watchdog(j)
    PROVE  StateOK'
<1>. USE DEF StateOK, Interrupt, table, job, fields, ends, uses, results, process, device
<1>1. CASE WatchdogCancel(j)
  <2>1. WorkerOK'
    BY <1>1 DEF WatchdogCancel, WorkerOK
  <2>. QED
    BY <1>1, <2>1 DEF WatchdogCancel, TableOK, JobOK, RequestOK, BridgeOK
<1>2. CASE WatchdogTimeout(j)
  <2>1. WorkerOK'
    BY <1>2 DEF WatchdogTimeout, WorkerOK
  <2>2. JobOK' /\ RequestOK'
    <3>1. CASE j \in done
      BY <1>2, <3>1 DEF WatchdogTimeout, JobOK, RequestOK
    <3>2. CASE j \notin done
      BY <1>2, <3>2, FailType DEF WatchdogTimeout
    <3>. QED
      BY <3>1, <3>2
  <2>. QED
    BY <1>2, <2>1, <2>2 DEF WatchdogTimeout, TableOK, BridgeOK
<1>3. CASE WatchdogStop(j)
  BY <1>3 DEF WatchdogStop, TableOK, JobOK, WorkerOK, RequestOK, BridgeOK
<1>4. CASE WatchdogKill(j)
  BY <1>4 DEF WatchdogKill, TableOK, JobOK, WorkerOK, RequestOK, BridgeOK
<1>. QED
  BY <1>1, <1>2, <1>3, <1>4 DEF Watchdog

LEMMA StatusType ==
    ASSUME StateOK, Status \/ SettleOver
    PROVE  StateOK'
<1>. USE DEF StateOK, table, job, fields, ends, uses, results, process, device
<1>1. CASE StatusProbe
  BY <1>1 DEF StatusProbe, TableOK, JobOK, WorkerOK, RequestOK, BridgeOK
<1>2. ASSUME NEW answer \in Answers, StatusReply(answer) PROVE StateOK'
  <2>1. status' \in Statuses
    BY <1>2, BridgeAssumption DEF StatusReply, Answers, Statuses
  <2>. QED
    BY <1>2, <2>1 DEF StatusReply, TableOK, JobOK, WorkerOK, RequestOK, BridgeOK
<1>3. CASE SettleOver
  BY <1>3 DEF SettleOver, TableOK, JobOK, WorkerOK, RequestOK, BridgeOK
<1>. QED
  BY <1>1, <1>2, <1>3 DEF Status

LEMMA EndingType ==
    ASSUME StateOK, Reap \/ Ending
    PROVE  StateOK'
<1>. USE DEF StateOK, table, job, fields, ends, uses, results, process, device
<1>1. ASSUME NEW S, S \subseteq Jobs, Cancel(S), req' = Notify(FirstCancel(S)),
             UNCHANGED <<fields, ends, uses, delivered>>
      PROVE  JobOK' /\ RequestOK'
  <2>1. canceled' \subseteq Jobs /\ state' \in [Jobs -> States]
    BY <1>1, CancelType
  <2>2. JobOK'
    BY <1>1, <2>1 DEF JobOK
  <2>3. RequestOK'
    BY <1>1, NotifyType DEF RequestOK
  <2>. QED
    BY <2>2, <2>3
<1>2. CASE Reap
  <2>1. JobOK' /\ RequestOK'
    <3>1. Abandoned \ done \subseteq Jobs
      BY DEF Abandoned, TableOK
    <3>. QED
      BY <1>1, <1>2, <3>1 DEF Reap
  <2>2. TableOK'
    BY <1>2, RemoveType DEF Reap
  <2>. QED
    BY <1>2, <2>1, <2>2 DEF Reap, WorkerOK, BridgeOK
<1>3. CASE Shutdown
  <2>1. JobOK' /\ RequestOK'
    BY <1>1, <1>3 DEF Shutdown, TableOK
  <2>. QED
    BY <1>3, <2>1 DEF Shutdown, TableOK, WorkerOK, BridgeOK
<1>4. CASE HandlersDone
  BY <1>4 DEF HandlersDone, TableOK, JobOK, WorkerOK, RequestOK, BridgeOK
<1>5. CASE RemoveSpools \/ ShutdownExpires
  BY <1>5 DEF RemoveSpools, ShutdownExpires, TableOK, JobOK, WorkerOK, RequestOK, BridgeOK
<1>. QED
  BY <1>2, <1>3, <1>4, <1>5 DEF Ending

\* The initial state is well typed, and so is what every step leads to.
LEMMA InitType == Init => TypeOK
<1>1. ASSUME Init PROVE TypeOK
  <2>1. NoRequest \in RequestState /\ NoRequest.pc = "idle"
    BY DEF NoRequest, RequestState, RequestPC
  <2>2. RequestOK
    <3>1. req \in [Requests -> RequestState] /\ Engaged(req)
      BY <1>1, <2>1 DEF Init, Engaged
    <3>2. delivered \in [Jobs -> Seq(Nat)]
      <4>1. <<>> \in Seq(Nat)
        OBVIOUS
      <4>. QED
        BY <1>1, <4>1 DEF Init
    <3>. QED
      BY <3>1, <3>2 DEF RequestOK
  <2>3. WorkerOK
    BY <1>1, BridgeAssumption DEF Init, WorkerOK, WorkerPC, Answers
  <2>. QED
    BY <1>1, <2>2, <2>3 DEF Init, TypeOK, StateOK, TableOK, JobOK, States, BridgeOK, Statuses
<1>. QED
  BY <1>1

LEMMA NextType == TypeOK /\ [Next]_vars => TypeOK'
<1>. SUFFICES ASSUME TypeOK, [Next]_vars PROVE TypeOK'
  OBVIOUS
<1>1. CASE UNCHANGED vars
  BY <1>1 DEF vars, table, job, fields, ends, uses, results, process, device,
     TypeOK, StateOK, TableOK, JobOK, WorkerOK, RequestOK, BridgeOK
<1>2. CASE Next
  <2>1. StateOK'
    BY <1>2, ClientType, HandlerType, WorkerType, DeviceType, WatchdogType, StatusType,
       EndingType DEF Next, TypeOK
  <2>. QED
    BY <1>2, <2>1 DEF Next, TypeOK
<1>. QED
  BY <1>1, <1>2

\* Every reachable state of the bridge is well typed, whatever the constants are.
THEOREM TypeCorrect == Spec => []TypeOK
<1>. QED
  BY InitType, NextType, PTL DEF Spec

-----------------------------------------------------------------------------
(* One user of the scanner at a time.  Acquisition is inductive on top of TypeOK, and *)
(* whoever talks to the scanner is then the worker of the active job.                  *)

\* A step that leaves Active and the workers alone, and starts no process and no probe.
LEMMA QuietAcquisition ==
    ASSUME Acquisition, UNCHANGED <<active, pc, done>>, probing' => probing,
           \A j \in Jobs : proc'[j] \in {"running", "interrupted"}
                             => proc[j] \in {"running", "interrupted"}
    PROVE  Acquisition'
BY DEF Acquisition, ActiveIsUnfinished

\* A step of the worker of j between its birth and its end, after which its process
\* runs only if the worker still waits for it.
LEMMA WorkingAcquisition ==
    ASSUME TypeOK, Acquisition, NEW j \in Jobs, UNCHANGED <<active, done>>,
           NEW p \in WorkerPC \ {"unborn", "ended"}, pc' = [pc EXCEPT ![j] = p],
           pc[j] \notin {"unborn", "ended"}, probing' => probing,
           \A k \in Jobs \ {j} : proc'[k] = proc[k],
           proc'[j] \in {"running", "interrupted"} => p \in {"scan", "wait"}
    PROVE  Acquisition'
BY DEF Acquisition, ActiveIsUnfinished, TypeOK, StateOK, WorkerOK

\* The same when no process of j runs, for the steps outside the wait for scanimage.
LEMMA AwayAcquisition ==
    ASSUME TypeOK, Acquisition, NEW j \in Jobs, UNCHANGED <<active, done, proc>>,
           NEW p \in {"start", "recover", "wsdScan", "wsdCleanup", "finish"},
           pc' = [pc EXCEPT ![j] = p],
           pc[j] \notin {"unborn", "ended"}, probing' => probing,
           pc[j] \notin {"scan", "wait"} \/ proc[j] = "exited"
    PROVE  Acquisition'
BY DEF Acquisition, ActiveIsUnfinished, TypeOK, StateOK, WorkerOK

LEMMA AcquisitionOfWorker ==
    ASSUME TypeOK, Acquisition, NEW j \in Jobs, Worker(j)
    PROVE  Acquisition'
<1>. USE DEF WorkerGoes, ToFinish, table, job, fields, ends, uses, results, process, device
<1>a. pc \in [Jobs -> WorkerPC]
  BY DEF TypeOK, StateOK, WorkerOK
<1>1. CASE WorkerReady(j)
  <2>1. PICK p \in {"finish", "start"} : pc' = [pc EXCEPT ![j] = p]
    BY <1>1 DEF WorkerReady
  <2>2. UNCHANGED <<active, done, proc, probing>> /\ pc[j] = "settle"
    BY <1>1 DEF WorkerReady
  <2>. QED
    BY <2>1, <2>2, AwayAcquisition
<1>2. CASE Start(j)
  <2>1. UNCHANGED <<active, done, probing>> /\ pc[j] = "start"
    BY <1>2 DEF Start
  <2>2. CASE pc' = [pc EXCEPT ![j] = "finish"] /\ UNCHANGED process
    BY <2>1, <2>2, AwayAcquisition
  <2>3. CASE pc' = [pc EXCEPT ![j] = "scan"] /\ proc' = [proc EXCEPT ![j] = "running"]
    <3>1. \A k \in Jobs \ {j} : proc'[k] = proc[k]
      BY <2>3 DEF TypeOK, StateOK, WorkerOK
    <3>2. "scan" \in WorkerPC \ {"unborn", "ended"}
      BY DEF WorkerPC
    <3>. QED
      BY <2>1, <2>3, <3>1, <3>2, WorkingAcquisition
  <2>. QED
    BY <1>2, <2>2, <2>3 DEF Start
<1>3. CASE EndOfPages(j)
  <2>1. /\ UNCHANGED <<active, done, proc, probing>> /\ pc[j] = "scan"
        /\ pc' = [pc EXCEPT ![j] = "wait"] /\ "wait" \in WorkerPC \ {"unborn", "ended"}
    BY <1>3 DEF EndOfPages, WorkerPC
  <2>. QED
    BY <2>1, WorkingAcquisition
<1>4. ASSUME NEW e \in BOOLEAN, NEW d \in Details, ProcessReaped(j, e, d)
      PROVE  Acquisition'
  <2>1. PICK p \in {"recover", "finish"} : pc' = [pc EXCEPT ![j] = p]
    BY <1>4 DEF ProcessReaped
  <2>2. UNCHANGED <<active, done, proc, probing>> /\ pc[j] = "wait" /\ proc[j] = "exited"
    BY <1>4 DEF ProcessReaped
  <2>. QED
    BY <2>1, <2>2, AwayAcquisition
<1>5. ASSUME NEW e \in BOOLEAN, NEW d \in Details, WsdEnd(j, e, d)
      PROVE  Acquisition'
  <2>1. /\ UNCHANGED <<active, done, proc, probing>> /\ pc[j] = "wsdScan"
        /\ pc' = [pc EXCEPT ![j] = "wsdCleanup"]
    BY <1>5 DEF WsdEnd
  <2>. QED
    BY <2>1, AwayAcquisition
<1>6. ASSUME NEW answer \in Answers, Recover(j, answer)
      PROVE  Acquisition'
  <2>1. /\ UNCHANGED <<active, done, proc, probing>> /\ pc[j] = "recover"
        /\ pc' = [pc EXCEPT ![j] = "finish"]
    BY <1>6 DEF Recover
  <2>. QED
    BY <2>1, AwayAcquisition
<1>7. CASE WsdUnavailable(j)
  <2>1. /\ UNCHANGED <<active, done, proc, probing>> /\ pc[j] = "start"
        /\ pc' = [pc EXCEPT ![j] = "finish"]
    BY <1>7 DEF WsdUnavailable
  <2>. QED
    BY <2>1, AwayAcquisition
<1>8. CASE WsdBegin(j)
  <2>1. /\ UNCHANGED <<active, done, proc, probing>> /\ pc[j] = "start"
        /\ pc' = [pc EXCEPT ![j] = "wsdScan"]
    BY <1>8 DEF WsdBegin
  <2>. QED
    BY <2>1, AwayAcquisition
<1>9. ASSUME NEW e \in BOOLEAN, NEW x \in BOOLEAN, NEW answer \in Answers,
             WsdCleanup(j, e, answer, x)
      PROVE  Acquisition'
  <2>1. /\ UNCHANGED <<active, done, proc, probing>> /\ pc[j] = "wsdCleanup"
        /\ pc' = [pc EXCEPT ![j] = "finish"]
    BY <1>9 DEF WsdCleanup
  <2>. QED
    BY <2>1, AwayAcquisition
<1>10. CASE Finish(j)
  <2>1. active = j /\ active' = NoJob
    BY <1>10, BridgeAssumption DEF Finish, Released, Acquisition, ActiveIsUnfinished
  <2>2. done' = done \cup {j} /\ pc' = [pc EXCEPT ![j] = "ended"] /\ UNCHANGED proc
        /\ pc[j] = "finish"
    BY <1>10 DEF Finish
  <2>3. ASSUME NEW k \in Jobs, k # j PROVE pc'[k] = pc[k] /\ (k \in done' <=> k \in done)
    BY <1>a, <2>2, <2>3
  <2>4. pc'[j] = "ended" /\ j \in done' /\ j \in Jobs /\ NoJob \notin Jobs
    BY <1>a, <2>2, BridgeAssumption
  <2>5. ASSUME NEW k \in Jobs, k # j PROVE pc[k] = "unborn" \/ k \in done
    BY <2>1, <2>5 DEF Acquisition, ActiveIsUnfinished
  <2>6. ActiveIsUnfinished'
    BY <2>1, <2>3, <2>4, <2>5 DEF ActiveIsUnfinished
  <2>. QED
    BY <2>1, <2>2, <2>3, <2>4, <2>6 DEF Acquisition
<1>. QED
  BY <1>1, <1>2, <1>3, <1>4, <1>5, <1>6, <1>7, <1>8, <1>9, <1>10 DEF Worker

LEMMA AcquisitionOfOthers ==
    ASSUME TypeOK, Acquisition, NEW j \in Jobs, Client(j) \/ Device(j) \/ Watchdog(j)
    PROVE  Acquisition'
<1>. USE DEF WorkerGoes, table, job, fields, ends, uses, results, process, device
<1>a. pc \in [Jobs -> WorkerPC] /\ proc \in [Jobs -> {"none", "running", "interrupted", "exited"}]
  BY DEF TypeOK, StateOK, WorkerOK
<1>1. ASSUME NEW src \in Sources, Create(j, src) PROVE Acquisition'
  BY <1>a, <1>1, BridgeAssumption DEF Create, Busy, Lock, Acquisition, ActiveIsUnfinished
<1>2. CASE Touch(j) \/ Delete(j) \/ Age(j)
  BY <1>2, QuietAcquisition DEF Touch, Delete, Age
<1>3. ASSUME NEW r \in Requests, NextDocument(r, j) PROVE Acquisition'
  BY <1>3, QuietAcquisition DEF NextDocument
<1>4. CASE Publish(j)
  BY <1>4, QuietAcquisition DEF Publish
<1>5. CASE PageError(j)
  BY <1>5, WorkingAcquisition DEF PageError, WorkerPC
<1>6. CASE ProcessExits(j)
  BY <1>a, <1>6, QuietAcquisition DEF ProcessExits
<1>7. CASE WatchdogCancel(j)
  BY <1>a, <1>7, QuietAcquisition DEF WatchdogCancel, Interrupt
<1>8. CASE WatchdogTimeout(j)
  BY <1>a, <1>8, QuietAcquisition DEF WatchdogTimeout, Interrupt
<1>9. CASE WatchdogStop(j)
  BY <1>9, QuietAcquisition DEF WatchdogStop
<1>10. CASE WatchdogKill(j)
  BY <1>a, <1>10, QuietAcquisition DEF WatchdogKill
<1>. QED
  BY <1>1, <1>2, <1>3, <1>4, <1>5, <1>6, <1>7, <1>8, <1>9, <1>10
  DEF Client, Device, Watchdog, PageRead, WsdPage

LEMMA AcquisitionOfBridge ==
    ASSUME TypeOK, Acquisition,
           \/ \E r \in Requests : Handler(r)
           \/ Status \/ SettleOver \/ Reap \/ Ending
    PROVE  Acquisition'
<1>. USE DEF table, job, fields, ends, uses, results, process, device
<1>1. ASSUME NEW r \in Requests, Handler(r) PROVE Acquisition'
  <2>1. UNCHANGED <<active, pc, done, proc, probing>>
    BY <1>1 DEF Handler, LookAtJob, PageSent, PageUnavailable, PendingTimer, ClientGone,
       LeaveDocument
  <2>. QED
    BY <2>1, QuietAcquisition
<1>2. CASE StatusProbe
  BY <1>2 DEF StatusProbe, ProbeDue, Acquisition, ActiveIsUnfinished
<1>3. ASSUME NEW answer \in Answers, StatusReply(answer) PROVE Acquisition'
  BY <1>3, QuietAcquisition DEF StatusReply
<1>4. CASE SettleOver \/ Reap \/ Ending
  BY <1>4, QuietAcquisition DEF SettleOver, Reap, Ending, Shutdown, HandlersDone,
     RemoveSpools, ShutdownExpires
<1>. QED
  BY <1>1, <1>2, <1>3, <1>4 DEF Status

LEMMA AcquisitionInit == Init => Acquisition
<1>. SUFFICES ASSUME Init PROVE Acquisition
  OBVIOUS
<1>1. /\ active = NoJob /\ NoJob \notin Jobs /\ probing = FALSE /\ done = {}
      /\ \A j \in Jobs : pc[j] = "unborn" /\ proc[j] = "none"
  BY BridgeAssumption DEF Init
<1>. QED
  BY <1>1 DEF Acquisition, ActiveIsUnfinished

LEMMA AcquisitionNext == TypeOK /\ Acquisition /\ [Next]_vars => Acquisition'
<1>. SUFFICES ASSUME TypeOK, Acquisition, [Next]_vars PROVE Acquisition'
  OBVIOUS
<1>1. CASE UNCHANGED vars
  BY <1>1, QuietAcquisition DEF vars, table, job, ends, process, device
<1>2. CASE Next
  BY <1>2, AcquisitionOfWorker, AcquisitionOfOthers, AcquisitionOfBridge DEF Next
<1>. QED
  BY <1>1, <1>2

\* Active, the workers, their processes and the status probe agree in every reachable
\* state; in particular Active is exactly the job whose acquisition has not ended.
THEOREM AcquisitionCorrect == Spec => [](Acquisition /\ ActiveIsUnfinished)
<1>1. Acquisition => ActiveIsUnfinished
  BY DEF Acquisition
<1>. QED
  BY <1>1, TypeCorrect, AcquisitionInit, AcquisitionNext, PTL DEF Spec

\* Never two of scanimage, recovery helper, WSD worker and status probe at once.
THEOREM DeviceIsExclusive == Spec => []DeviceExclusive
<1>1. Acquisition => DeviceExclusive
  <2>. SUFFICES ASSUME Acquisition PROVE DeviceExclusive
    OBVIOUS
  <2>1. ASSUME NEW j \in Talking PROVE j \in Jobs /\ active = j
    BY <2>1 DEF Talking, Acquisition, ActiveIsUnfinished
  <2>. QED
    BY <2>1, BridgeAssumption DEF DeviceExclusive, Acquisition
<1>. QED
  BY <1>1, AcquisitionCorrect, PTL

-----------------------------------------------------------------------------
(* How jobs end.  A failure of a USB job is always followed by cancel() in the same    *)
(* critical section, which is why a later cancel() cannot hide it.                     *)

NotWsd(f) == \A j \in Jobs : f[j] \notin {"wsdScan", "wsdCleanup"}

Outcome ==
    /\ CanceledShowsCanceled
    /\ FailureStaysAborted
    /\ backend = "usb" => failed \subseteq canceled /\ NotWsd(pc)

\* A step that neither cancels, fails nor ends a job.
LEMMA QuietOutcome ==
    ASSUME Outcome, UNCHANGED <<state, canceled, failed, done, backend>>,
           backend = "usb" /\ NotWsd(pc) => NotWsd(pc')
    PROVE  Outcome'
BY DEF Outcome, CanceledShowsCanceled, FailureStaysAborted

\* cancel() for the jobs of S; those of them in F fail as well, none of which has ended.
LEMMA CancelOutcome ==
    ASSUME TypeOK, Outcome, NEW S, S \subseteq Jobs, Cancel(S), UNCHANGED <<done, backend>>,
           NEW F, F \subseteq S, F \cap done = {}, failed' = failed \cup F,
           backend = "usb" /\ NotWsd(pc) => NotWsd(pc')
    PROVE  Outcome'
<1>. USE DEF Outcome, CanceledShowsCanceled, FailureStaysAborted, Cancel, FirstCancel,
     TypeOK, StateOK, JobOK
<1>1. CanceledShowsCanceled'
  OBVIOUS
<1>2. backend = "usb" => failed' \subseteq canceled' /\ NotWsd(pc')
  OBVIOUS
<1>3. FailureStaysAborted'
  <2>1. ASSUME backend = "usb", NEW k \in failed' \cap done' PROVE state'[k] = "Aborted"
    BY <2>1
  <2>. QED
    BY <2>1
<1>. QED
  BY <1>1, <1>2, <1>3

LEMMA OutcomeOfJob ==
    ASSUME TypeOK, Acquisition, Outcome, UNCHANGED backend, NEW j \in Jobs,
           Client(j) \/ Worker(j) \/ Device(j) \/ Watchdog(j)
    PROVE  Outcome'
<1>. USE DEF WorkerGoes, ToFinish, table, job, fields, ends, uses, results, process, device
<1>a. pc \in [Jobs -> WorkerPC] /\ state \in [Jobs -> States]
  BY DEF TypeOK, StateOK, WorkerOK, JobOK
<1>1. CASE Client(j) /\ ~Delete(j)
  <2>1. UNCHANGED <<state, canceled, failed, done>>
        /\ (UNCHANGED pc \/ pc' = [pc EXCEPT ![j] = "settle"])
    BY <1>1 DEF Client, Create, Touch, Age, NextDocument
  <2>. QED
    BY <1>a, <2>1, QuietOutcome DEF NotWsd
<1>2. CASE Delete(j)
  <2>1. Cancel({j}) /\ UNCHANGED <<done, failed, pc>>
    BY <1>2 DEF Delete
  <2>2. failed' = failed \cup {}
    BY <2>1
  <2>. QED
    BY <2>1, <2>2, CancelOutcome
<1>3. CASE \/ WorkerReady(j) \/ EndOfPages(j)
           \/ \E e \in BOOLEAN, d \in Details : ProcessReaped(j, e, d)
           \/ \E answer \in Answers : Recover(j, answer)
           \/ WsdUnavailable(j)
  <2>1. UNCHANGED <<state, canceled, failed, done>>
        /\ \E p \in {"finish", "start", "wait", "recover"} : pc' = [pc EXCEPT ![j] = p]
    BY <1>3 DEF WorkerReady, EndOfPages, ProcessReaped, Recover, WsdUnavailable
  <2>. QED
    BY <1>a, <2>1, QuietOutcome DEF NotWsd
<1>4. CASE Start(j) \/ WsdBegin(j)
  <2>1. /\ UNCHANGED <<canceled, failed, done>> /\ pc[j] = "start"
        /\ \/ UNCHANGED state
           \/ state[j] # "Canceled" /\ state' = [state EXCEPT ![j] = "Processing"]
    BY <1>4 DEF Start, WsdBegin, StillWanted
  <2>2. j \notin done
    BY <2>1 DEF Acquisition
  <2>3. backend = "usb" /\ NotWsd(pc) => NotWsd(pc')
    BY <1>a, <1>4 DEF Start, WsdBegin, NotWsd
  <2>4. \A k \in Jobs \ {j} : state'[k] = state[k]
    BY <1>a, <2>1
  <2>5. j \in canceled => UNCHANGED state
    BY <2>1, <2>2 DEF Outcome, CanceledShowsCanceled
  <2>6. CanceledShowsCanceled'
    BY <2>1, <2>4, <2>5 DEF Outcome, CanceledShowsCanceled, TypeOK, StateOK, JobOK
  <2>7. FailureStaysAborted'
    BY <2>1, <2>2, <2>4 DEF Outcome, FailureStaysAborted, TypeOK, StateOK, JobOK
  <2>. QED
    BY <2>1, <2>3, <2>6, <2>7 DEF Outcome
<1>5. CASE \E e \in BOOLEAN, d \in Details : WsdEnd(j, e, d)
  <2>1. UNCHANGED <<state, canceled, failed, done>> /\ pc[j] = "wsdScan"
    BY <1>5 DEF WsdEnd
  <2>. QED
    BY <2>1, QuietOutcome DEF NotWsd
<1>6. CASE \E e, x \in BOOLEAN, answer \in Answers : WsdCleanup(j, e, answer, x)
  <2>1. UNCHANGED <<state, canceled, done>> /\ pc[j] = "wsdCleanup"
    BY <1>6 DEF WsdCleanup
  <2>2. backend # "usb"
    BY <2>1 DEF Outcome, NotWsd
  <2>. QED
    BY <2>1, <2>2 DEF Outcome, CanceledShowsCanceled, FailureStaysAborted
<1>7. CASE Finish(j)
  <2>1. /\ UNCHANGED <<canceled, failed>> /\ done' = done \cup {j}
        /\ state' = [state EXCEPT ![j] = EndState(j)]
        /\ pc' = [pc EXCEPT ![j] = "ended"]
    BY <1>7 DEF Finish
  <2>2. j \in failed => EndState(j) = "Aborted"
    BY DEF EndState, Aborts
  <2>3. backend = "usb" /\ NotWsd(pc) => NotWsd(pc')
    BY <1>a, <2>1 DEF NotWsd
  <2>4. j \in done' /\ \A k \in Jobs \ {j} :
                           state'[k] = state[k] /\ (k \in done' <=> k \in done)
    BY <1>a, <2>1
  <2>5. state'[j] = EndState(j)
    BY <1>a, <2>1
  <2>6. CanceledShowsCanceled'
    BY <2>1, <2>4 DEF Outcome, CanceledShowsCanceled, TypeOK, StateOK, JobOK
  <2>7. FailureStaysAborted'
    BY <2>1, <2>2, <2>4, <2>5 DEF Outcome, FailureStaysAborted, TypeOK, StateOK, JobOK
  <2>. QED
    BY <2>1, <2>3, <2>6, <2>7 DEF Outcome
<1>8. CASE PageError(j)
  <2>1. /\ Cancel({j}) /\ failed' = failed \cup {j} /\ UNCHANGED done
        /\ pc[j] = "scan" /\ pc' = [pc EXCEPT ![j] = "wait"]
    BY <1>8 DEF PageError, Fail
  <2>2. {j} \cap done = {}
    BY <2>1 DEF Acquisition
  <2>3. backend = "usb" /\ NotWsd(pc) => NotWsd(pc')
    BY <1>a, <2>1 DEF NotWsd
  <2>. QED
    BY <2>1, <2>2, <2>3, CancelOutcome
<1>9. CASE WatchdogTimeout(j)
  <2>1. CASE j \notin done
    <3>1. Cancel({j}) /\ failed' = failed \cup {j} /\ UNCHANGED <<done, pc>>
      BY <1>9, <2>1 DEF WatchdogTimeout, Fail
    <3>2. {j} \cap done = {}
      BY <2>1
    <3>. QED
      BY <3>1, <3>2, CancelOutcome
  <2>2. CASE j \in done
    BY <1>9, <2>2, QuietOutcome DEF WatchdogTimeout
  <2>. QED
    BY <2>1, <2>2
<1>10. CASE \/ PageRead(j) \/ WsdPage(j) \/ ProcessExits(j) \/ WatchdogCancel(j)
            \/ WatchdogStop(j) \/ WatchdogKill(j)
  <2>1. UNCHANGED <<state, canceled, failed, done, pc>>
    BY <1>10 DEF PageRead, WsdPage, Publish, ProcessExits, WatchdogCancel, WatchdogStop,
       WatchdogKill
  <2>. QED
    BY <2>1, QuietOutcome
<1>11. CASE Worker(j)
  BY <1>3, <1>4, <1>5, <1>6, <1>7, <1>11 DEF Worker
<1>12. CASE Device(j)
  BY <1>8, <1>10, <1>12 DEF Device
<1>13. CASE Watchdog(j)
  BY <1>9, <1>10, <1>13 DEF Watchdog
<1>. QED
  BY <1>1, <1>2, <1>11, <1>12, <1>13

LEMMA OutcomeOfBridge ==
    ASSUME TypeOK, Outcome, UNCHANGED backend,
           \/ \E r \in Requests : Handler(r)
           \/ Status \/ SettleOver \/ Reap \/ Ending
    PROVE  Outcome'
<1>. USE DEF table, job, fields, ends, uses, results, process, device
<1>1. ASSUME NEW r \in Requests, PageSent(r) PROVE Outcome'
  <2>1. req[r].job \in Jobs
    BY <1>1 DEF PageSent, TypeOK, StateOK, RequestOK, Engaged
  <2>2. /\ UNCHANGED <<canceled, failed, done, pc>>
        /\ \/ UNCHANGED state
           \/ /\ req[r].job \in done /\ state[req[r].job] # "Aborted"
              /\ state' = [state EXCEPT ![req[r].job] = "Completed"]
    BY <1>1, <2>1 DEF PageSent, TypeOK, StateOK, JobOK
  <2>. QED
    BY <2>1, <2>2 DEF Outcome, CanceledShowsCanceled, FailureStaysAborted, TypeOK, StateOK, JobOK
<1>2. ASSUME NEW S, S \subseteq Jobs, Cancel(S), UNCHANGED <<failed, done, pc>>
      PROVE  Outcome'
  <2>1. failed' = failed \cup {} /\ {} \subseteq S /\ {} \cap done = {}
        /\ (NotWsd(pc) => NotWsd(pc')) /\ UNCHANGED <<done, backend>>
    BY <1>2
  <2>. QED
    BY <1>2, <2>1, CancelOutcome, Zenon
<1>3. ASSUME NEW r \in Requests, ClientGone(r) PROVE Outcome'
  <2>1. req[r].job \in Jobs
    BY <1>3 DEF ClientGone, TypeOK, StateOK, RequestOK, Engaged
  <2>. QED
    BY <1>2, <1>3, <2>1 DEF ClientGone
<1>4. ASSUME NEW r \in Requests,
             LookAtJob(r) \/ PageUnavailable(r) \/ PendingTimer(r) \/ LeaveDocument(r)
      PROVE  Outcome'
  BY <1>4, QuietOutcome DEF LookAtJob, PageUnavailable, PendingTimer, LeaveDocument
<1>5. CASE Reap
  <2>1. Abandoned \ done \subseteq Jobs
    BY DEF Abandoned, TypeOK, StateOK, TableOK
  <2>. QED
    BY <1>2, <1>5, <2>1 DEF Reap
<1>6. CASE Shutdown
  <2>1. jobs \ done \subseteq Jobs
    BY DEF TypeOK, StateOK, TableOK
  <2>. QED
    BY <1>2, <1>6, <2>1 DEF Shutdown
<1>7. CASE Status \/ SettleOver \/ HandlersDone \/ RemoveSpools \/ ShutdownExpires
  BY <1>7, QuietOutcome DEF Status, StatusProbe, StatusReply, SettleOver, HandlersDone,
     RemoveSpools, ShutdownExpires
<1>. QED
  BY <1>1, <1>3, <1>4, <1>5, <1>6, <1>7 DEF Handler, Ending

LEMMA OutcomeInit == Init => Outcome
<1>. SUFFICES ASSUME Init PROVE Outcome
  OBVIOUS
<1>1. /\ canceled = {} /\ failed = {} /\ done = {}
      /\ \A j \in Jobs : pc[j] = "unborn"
  BY DEF Init
<1>. QED
  BY <1>1 DEF Outcome, CanceledShowsCanceled, FailureStaysAborted, NotWsd

LEMMA OutcomeNext == TypeOK /\ Acquisition /\ Outcome /\ [Next]_vars => Outcome'
<1>. SUFFICES ASSUME TypeOK, Acquisition, Outcome, [Next]_vars PROVE Outcome'
  OBVIOUS
<1>1. CASE UNCHANGED vars
  BY <1>1, QuietOutcome DEF vars, job, ends
<1>2. CASE Next
  BY <1>2, OutcomeOfJob, OutcomeOfBridge DEF Next
<1>. QED
  BY <1>1, <1>2

\* A job canceled during its acquisition stays Canceled until the acquisition has ended.
THEOREM CanceledStaysCanceled == Spec => []CanceledShowsCanceled
<1>1. Outcome => CanceledShowsCanceled
  BY DEF Outcome
<1>. QED
  BY <1>1, TypeCorrect, AcquisitionCorrect, OutcomeInit, OutcomeNext, PTL DEF Spec

\* A USB job that failed is Aborted from its end on, whoever cancels it or reads it.
THEOREM FailureIsFinal == Spec => []FailureStaysAborted
<1>1. Outcome => FailureStaysAborted
  BY DEF Outcome
<1>. QED
  BY <1>1, TypeCorrect, AcquisitionCorrect, OutcomeInit, OutcomeNext, PTL DEF Spec
=============================================================================
