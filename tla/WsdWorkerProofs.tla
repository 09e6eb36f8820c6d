-------------------------- MODULE WsdWorkerProofs --------------------------
(***************************************************************************)
(* Proofs about the conversation with a network scanner: types, and the    *)
(* invariant WorkerInvariant, from which the safety properties follow.     *)
(***************************************************************************)
EXTENDS WsdWorkerProps, TLAPS

\* Flags stay Boolean.
LEMMA FlagsStep == FlagsOK /\ [Next]_vars => FlagsOK'
<1> SUFFICES ASSUME FlagsOK, [Next]_vars PROVE FlagsOK'
  OBVIOUS
<1>1. ASSUME NEW src \in {"Flatbed", "ADF"}, NEW n \in Counts, Start(src, n) PROVE FlagsOK'
  BY <1>1
  DEF FlagsOK, Start, vars, ticket, locals, scanner, delayed
<1>2. ASSUME AskStatus PROVE FlagsOK'
  BY <1>2
  DEF FlagsOK, AskStatus, Unavailable, Goes, vars, ticket, locals, scanner, delayed
<1>3. ASSUME AskJobs PROVE FlagsOK'
  BY <1>3
  DEF FlagsOK, AskJobs, Unavailable, Busy, Goes, vars, ticket, locals, scanner, delayed
<1>4. ASSUME NEW id \in BOOLEAN, NEW token \in BOOLEAN, JobCreated(id, token) PROVE FlagsOK'
  BY <1>4
  DEF FlagsOK, JobCreated, Creates, Goes, vars, ticket, locals, scanner, delayed
<1>5. ASSUME CreateFails PROVE FlagsOK'
  BY <1>5
  DEF FlagsOK, CreateFails, Goes, vars, ticket, locals, scanner, delayed
<1>6. ASSUME PagesDone PROVE FlagsOK'
  BY <1>6
  DEF FlagsOK, PagesDone, More, Full, Goes, vars, ticket, locals, scanner, delayed
<1>7. ASSUME ImageArrives PROVE FlagsOK'
  BY <1>7
  DEF FlagsOK, ImageArrives, More, Known, TakesImage, Goes, vars, ticket, locals, scanner,
      delayed
<1>8. ASSUME NoImages PROVE FlagsOK'
  BY <1>8
  DEF FlagsOK, NoImages, More, FirstPageMissing, Goes, vars, ticket, locals, scanner,
      delayed
<1>9. ASSUME FetchFails PROVE FlagsOK'
  BY <1>9
  DEF FlagsOK, FetchFails, More, Breaks, TakesImage, Goes, vars, ticket, locals, scanner,
      delayed
<1>10. ASSUME Convert PROVE FlagsOK'
  BY <1>10
  DEF FlagsOK, Convert, Breaks, Goes, vars, ticket, locals, scanner, delayed
<1>11. ASSUME Store PROVE FlagsOK'
  BY <1>11
  DEF FlagsOK, Store, Breaks, Wanted, Goes, vars, ticket, locals, scanner, delayed
<1>12. ASSUME Lookup PROVE FlagsOK'
  BY <1>12
  DEF FlagsOK, Lookup, Found, NotFound, LookupFails, Named, Goes, vars, ticket, locals,
      scanner, delayed
<1>13. ASSUME CancelJob PROVE FlagsOK'
  BY <1>13
  DEF FlagsOK, CancelJob, JobCanceled, CancelFails, WithoutJob, CleanupContext, Goes, vars,
      ticket, locals, scanner, delayed
<1>14. ASSUME Finish PROVE FlagsOK'
  BY <1>14
  DEF FlagsOK, Finish, Outcome, Aborts, vars, ticket, locals, scanner, delayed
<1>15. ASSUME Cancel PROVE FlagsOK'
  BY <1>15
  DEF FlagsOK, Cancel, vars, ticket, locals, scanner, delayed
<1>16. ASSUME ContextEnds PROVE FlagsOK'
  BY <1>16
  DEF FlagsOK, ContextEnds, vars, ticket, locals, scanner, delayed
<1>17. ASSUME Crash PROVE FlagsOK'
  BY <1>17
  DEF FlagsOK, Crash, vars, ticket, locals, scanner, delayed
<1>18. ASSUME OtherClient PROVE FlagsOK'
  BY <1>18
  DEF FlagsOK, OtherClient, Creates, OthersBusy, Unchanged, vars, ticket, locals, scanner,
      delayed
<1>19. ASSUME FeederChanges PROVE FlagsOK'
  BY <1>19
  DEF FlagsOK, FeederChanges, Unchanged, vars, ticket, locals, scanner, delayed
<1>20. ASSUME NEW r \in wire, LateCreate(r) PROVE FlagsOK'
  BY <1>20
  DEF FlagsOK, LateCreate, Creates, Unchanged, vars, ticket, locals, scanner, delayed
<1>21. ASSUME NEW j \in active, JobExpires(j) PROVE FlagsOK'
  BY <1>21
  DEF FlagsOK, JobExpires, Unchanged, vars, ticket, locals, scanner, delayed
<1>22. ASSUME UNCHANGED vars PROVE FlagsOK'
  BY <1>22
  DEF FlagsOK, vars, ticket, locals, scanner, delayed
<1> QED
  BY <1>1, <1>2, <1>3, <1>4, <1>5, <1>6, <1>7, <1>8, <1>9, <1>10, <1>11, <1>12, <1>13,
     <1>14, <1>15, <1>16, <1>17, <1>18, <1>19, <1>20, <1>21, <1>22
  DEF Next, Work, Surroundings

\* Program counter, source, context and outcome keep their types.
LEMMA NamesStep == NamesOK /\ [Next]_vars => NamesOK'
<1> SUFFICES ASSUME NamesOK, [Next]_vars PROVE NamesOK'
  OBVIOUS
<1>1. ASSUME NEW src \in {"Flatbed", "ADF"}, NEW n \in Counts, Start(src, n) PROVE NamesOK'
  BY <1>1
  DEF NamesOK, Steps, Start, vars, ticket, locals, scanner, delayed
<1>2. ASSUME AskStatus PROVE NamesOK'
  BY <1>2
  DEF NamesOK, Steps, AskStatus, Unavailable, Goes, vars, ticket, locals, scanner, delayed
<1>3. ASSUME AskJobs PROVE NamesOK'
  BY <1>3
  DEF NamesOK, Steps, AskJobs, Unavailable, Busy, Goes, vars, ticket, locals, scanner,
      delayed
<1>4. ASSUME NEW id \in BOOLEAN, NEW token \in BOOLEAN, JobCreated(id, token) PROVE NamesOK'
  BY <1>4
  DEF NamesOK, Steps, JobCreated, Creates, Goes, vars, ticket, locals, scanner, delayed
<1>5. ASSUME CreateFails PROVE NamesOK'
  BY <1>5
  DEF NamesOK, Steps, CreateFails, Goes, vars, ticket, locals, scanner, delayed
<1>6. ASSUME PagesDone PROVE NamesOK'
  BY <1>6
  DEF NamesOK, Steps, PagesDone, More, Full, Goes, vars, ticket, locals, scanner, delayed
<1>7. ASSUME ImageArrives PROVE NamesOK'
  BY <1>7
  DEF NamesOK, Steps, ImageArrives, More, Known, TakesImage, Goes, vars, ticket, locals,
      scanner, delayed
<1>8. ASSUME NoImages PROVE NamesOK'
  BY <1>8
  DEF NamesOK, Steps, NoImages, More, FirstPageMissing, Goes, vars, ticket, locals, scanner,
      delayed
<1>9. ASSUME FetchFails PROVE NamesOK'
  BY <1>9
  DEF NamesOK, Steps, FetchFails, More, Breaks, TakesImage, Goes, vars, ticket, locals,
      scanner, delayed
<1>10. ASSUME Convert PROVE NamesOK'
  BY <1>10
  DEF NamesOK, Steps, Convert, Breaks, Goes, vars, ticket, locals, scanner, delayed
<1>11. ASSUME Store PROVE NamesOK'
  BY <1>11
  DEF NamesOK, Steps, Store, Breaks, Wanted, Goes, vars, ticket, locals, scanner, delayed
<1>12. ASSUME Lookup PROVE NamesOK'
  BY <1>12
  DEF NamesOK, Steps, Lookup, Found, NotFound, LookupFails, Named, Goes, vars, ticket,
      locals, scanner, delayed
<1>13. ASSUME CancelJob PROVE NamesOK'
  BY <1>13
  DEF NamesOK, Steps, CancelJob, JobCanceled, CancelFails, WithoutJob, CleanupContext, Goes,
      vars, ticket, locals, scanner, delayed
<1>14. ASSUME Finish PROVE NamesOK'
  BY <1>14
  DEF NamesOK, Steps, Finish, Outcome, Aborts, vars, ticket, locals, scanner, delayed
<1>15. ASSUME Cancel PROVE NamesOK'
  BY <1>15
  DEF NamesOK, Steps, Cancel, vars, ticket, locals, scanner, delayed
<1>16. ASSUME ContextEnds PROVE NamesOK'
  BY <1>16
  DEF NamesOK, Steps, ContextEnds, vars, ticket, locals, scanner, delayed
<1>17. ASSUME Crash PROVE NamesOK'
  BY <1>17
  DEF NamesOK, Steps, Crash, vars, ticket, locals, scanner, delayed
<1>18. ASSUME OtherClient PROVE NamesOK'
  BY <1>18
  DEF NamesOK, Steps, OtherClient, Creates, OthersBusy, Unchanged, vars, ticket, locals,
      scanner, delayed
<1>19. ASSUME FeederChanges PROVE NamesOK'
  BY <1>19
  DEF NamesOK, Steps, FeederChanges, Unchanged, vars, ticket, locals, scanner, delayed
<1>20. ASSUME NEW r \in wire, LateCreate(r) PROVE NamesOK'
  BY <1>20
  DEF NamesOK, Steps, LateCreate, Creates, Unchanged, vars, ticket, locals, scanner, delayed
<1>21. ASSUME NEW j \in active, JobExpires(j) PROVE NamesOK'
  BY <1>21
  DEF NamesOK, Steps, JobExpires, Unchanged, vars, ticket, locals, scanner, delayed
<1>22. ASSUME UNCHANGED vars PROVE NamesOK'
  BY <1>22
  DEF NamesOK, Steps, vars, ticket, locals, scanner, delayed
<1> QED
  BY <1>1, <1>2, <1>3, <1>4, <1>5, <1>6, <1>7, <1>8, <1>9, <1>10, <1>11, <1>12, <1>13,
     <1>14, <1>15, <1>16, <1>17, <1>18, <1>19, <1>20, <1>21, <1>22
  DEF Next, Work, Surroundings

\* Numbers stay in their ranges: an image is taken only for a page that is still wanted.
LEMMA CountersStep == CountersOK /\ Paged /\ [Next]_vars => CountersOK'
<1> SUFFICES ASSUME CountersOK /\ Paged, [Next]_vars PROVE CountersOK'
  OBVIOUS
<1>1. ASSUME NEW src \in {"Flatbed", "ADF"}, NEW n \in Counts, Start(src, n)
      PROVE  CountersOK'
  <2>1. /\ run' = run + 1 /\ run < Runs
        /\ count' = IF src = "Flatbed" THEN 1 ELSE n
        /\ pages' = 0 /\ taken' = 0 /\ feeder' = feeder
    BY <1>1 DEF Start, vars, ticket, locals, scanner, delayed
  <2> QED
    BY <2>1, WorkerAssumption DEF CountersOK
<1>2. ASSUME AskStatus PROVE CountersOK'
  BY <1>2, WorkerAssumption
  DEF CountersOK, Paged, More, AskStatus, Unavailable, Goes, vars, ticket, locals, scanner,
      delayed
<1>3. ASSUME AskJobs PROVE CountersOK'
  BY <1>3, WorkerAssumption
  DEF CountersOK, Paged, More, AskJobs, Unavailable, Busy, Goes, vars, ticket, locals,
      scanner, delayed
<1>4. ASSUME NEW id \in BOOLEAN, NEW token \in BOOLEAN, JobCreated(id, token)
      PROVE  CountersOK'
  BY <1>4, WorkerAssumption
  DEF CountersOK, Paged, More, JobCreated, Creates, Goes, vars, ticket, locals, scanner,
      delayed
<1>5. ASSUME CreateFails PROVE CountersOK'
  BY <1>5, WorkerAssumption
  DEF CountersOK, Paged, More, CreateFails, Goes, vars, ticket, locals, scanner, delayed
<1>6. ASSUME PagesDone PROVE CountersOK'
  BY <1>6, WorkerAssumption
  DEF CountersOK, Paged, More, PagesDone, Full, Goes, vars, ticket, locals, scanner, delayed
<1>7. ASSUME ImageArrives PROVE CountersOK'
  <2>1. /\ pages < PageLimit /\ taken = pages
        /\ run' = run /\ count' = count /\ pages' = pages
        /\ taken' = taken + 1
        /\ feeder' = feeder \/ (feeder > 0 /\ feeder' = feeder - 1)
    BY <1>7 DEF Paged, ImageArrives, More, Known, TakesImage, Goes, vars, ticket, locals,
       scanner,
        delayed
  <2> QED
    BY <2>1, WorkerAssumption DEF CountersOK
<1>8. ASSUME NoImages PROVE CountersOK'
  BY <1>8, WorkerAssumption
  DEF CountersOK, Paged, More, NoImages, FirstPageMissing, Goes, vars, ticket, locals,
      scanner, delayed
<1>9. ASSUME FetchFails PROVE CountersOK'
  <2>1. /\ pages < PageLimit /\ taken = pages
        /\ run' = run /\ count' = count /\ pages' = pages
        /\ taken' \in {taken, taken + 1}
        /\ feeder' = feeder \/ (feeder > 0 /\ feeder' = feeder - 1)
    BY <1>9 DEF Paged, FetchFails, More, Breaks, TakesImage, Goes, vars, ticket, locals,
        scanner, delayed
  <2> QED
    BY <2>1, WorkerAssumption DEF CountersOK
<1>10. ASSUME Convert PROVE CountersOK'
  BY <1>10, WorkerAssumption
  DEF CountersOK, Paged, More, Convert, Breaks, Goes, vars, ticket, locals, scanner, delayed
<1>11. ASSUME Store PROVE CountersOK'
  BY <1>11, WorkerAssumption
  DEF CountersOK, Paged, More, Store, Breaks, Wanted, Goes, vars, ticket, locals, scanner,
      delayed
<1>12. ASSUME Lookup PROVE CountersOK'
  BY <1>12, WorkerAssumption
  DEF CountersOK, Paged, More, Lookup, Found, NotFound, LookupFails, Named, Goes, vars,
      ticket, locals, scanner, delayed
<1>13. ASSUME CancelJob PROVE CountersOK'
  BY <1>13, WorkerAssumption
  DEF CountersOK, Paged, More, CancelJob, JobCanceled, CancelFails, WithoutJob,
      CleanupContext, Goes, vars, ticket, locals, scanner, delayed
<1>14. ASSUME Finish PROVE CountersOK'
  BY <1>14, WorkerAssumption
  DEF CountersOK, Paged, More, Finish, Outcome, Aborts, vars, ticket, locals, scanner,
      delayed
<1>15. ASSUME Cancel PROVE CountersOK'
  BY <1>15, WorkerAssumption
  DEF CountersOK, Paged, More, Cancel, vars, ticket, locals, scanner, delayed
<1>16. ASSUME ContextEnds PROVE CountersOK'
  BY <1>16, WorkerAssumption
  DEF CountersOK, Paged, More, ContextEnds, vars, ticket, locals, scanner, delayed
<1>17. ASSUME Crash PROVE CountersOK'
  BY <1>17, WorkerAssumption
  DEF CountersOK, Paged, More, Crash, vars, ticket, locals, scanner, delayed
<1>18. ASSUME OtherClient PROVE CountersOK'
  BY <1>18, WorkerAssumption
  DEF CountersOK, Paged, More, OtherClient, Creates, OthersBusy, Unchanged, vars, ticket,
      locals, scanner, delayed
<1>19. ASSUME FeederChanges PROVE CountersOK'
  BY <1>19, WorkerAssumption
  DEF CountersOK, Paged, More, FeederChanges, Unchanged, vars, ticket, locals, scanner,
      delayed
<1>20. ASSUME NEW r \in wire, LateCreate(r) PROVE CountersOK'
  BY <1>20, WorkerAssumption
  DEF CountersOK, Paged, More, LateCreate, Creates, Unchanged, vars, ticket, locals,
      scanner, delayed
<1>21. ASSUME NEW j \in active, JobExpires(j) PROVE CountersOK'
  BY <1>21, WorkerAssumption
  DEF CountersOK, Paged, More, JobExpires, Unchanged, vars, ticket, locals, scanner, delayed
<1>22. ASSUME UNCHANGED vars PROVE CountersOK'
  BY <1>22
  DEF CountersOK, Paged, More, vars, ticket, locals, scanner, delayed
<1> QED
  BY <1>1, <1>2, <1>3, <1>4, <1>5, <1>6, <1>7, <1>8, <1>9, <1>10, <1>11, <1>12, <1>13,
     <1>14, <1>15, <1>16, <1>17, <1>18, <1>19, <1>20, <1>21, <1>22
  DEF Next, Work, Surroundings

\* The scanner counts its JobIds, and the one held is one it gave.
LEMMA IdsStep == IdsOK /\ JobsOK /\ [Next]_vars => IdsOK'
<1> SUFFICES ASSUME IdsOK /\ JobsOK, [Next]_vars PROVE IdsOK'
  OBVIOUS
<1>1. ASSUME NEW src \in {"Flatbed", "ADF"}, NEW n \in Counts, Start(src, n) PROVE IdsOK'
  <2>1. jobID' = None /\ last' = last
    BY <1>1 DEF Start
  <2> QED
    BY <2>1 DEF IdsOK
<1>2. ASSUME AskStatus PROVE IdsOK'
  BY <1>2
  DEF IdsOK, AskStatus, Unavailable, Goes, vars, ticket, locals, scanner, delayed
<1>3. ASSUME AskJobs PROVE IdsOK'
  BY <1>3
  DEF IdsOK, AskJobs, Unavailable, Busy, Goes, vars, ticket, locals, scanner, delayed
<1>4. ASSUME NEW id \in BOOLEAN, NEW token \in BOOLEAN, JobCreated(id, token) PROVE IdsOK'
  <2>1. /\ last < IdLimit /\ last' = last + 1
        /\ jobID' = IF id THEN last + 1 ELSE None
    BY <1>4 DEF JobCreated, Creates
  <2> QED
    BY <2>1, WorkerAssumption DEF IdsOK
<1>5. ASSUME CreateFails PROVE IdsOK'
  BY <1>5
  DEF IdsOK, CreateFails, Goes, vars, ticket, locals, scanner, delayed
<1>6. ASSUME PagesDone PROVE IdsOK'
  BY <1>6
  DEF IdsOK, PagesDone, More, Full, Goes, vars, ticket, locals, scanner, delayed
<1>7. ASSUME ImageArrives PROVE IdsOK'
  BY <1>7
  DEF IdsOK, ImageArrives, More, Known, TakesImage, Goes, vars, ticket, locals, scanner,
      delayed
<1>8. ASSUME NoImages PROVE IdsOK'
  BY <1>8
  DEF IdsOK, NoImages, More, FirstPageMissing, Goes, vars, ticket, locals, scanner, delayed
<1>9. ASSUME FetchFails PROVE IdsOK'
  BY <1>9
  DEF IdsOK, FetchFails, More, Breaks, TakesImage, Goes, vars, ticket, locals, scanner,
      delayed
<1>10. ASSUME Convert PROVE IdsOK'
  BY <1>10
  DEF IdsOK, Convert, Breaks, Goes, vars, ticket, locals, scanner, delayed
<1>11. ASSUME Store PROVE IdsOK'
  BY <1>11
  DEF IdsOK, Store, Breaks, Wanted, Goes, vars, ticket, locals, scanner, delayed
<1>12. ASSUME Lookup PROVE IdsOK'
  <2>1. /\ last' = last
        /\ jobID' = jobID \/ \E j \in active : jobID' = j.id
    BY <1>12 DEF Lookup, Found, NotFound, LookupFails, scanner
  <2> QED
    BY <2>1 DEF IdsOK, JobsOK
<1>13. ASSUME CancelJob PROVE IdsOK'
  BY <1>13
  DEF IdsOK, CancelJob, JobCanceled, CancelFails, WithoutJob, CleanupContext, Goes, vars,
      ticket, locals, scanner, delayed
<1>14. ASSUME Finish PROVE IdsOK'
  BY <1>14
  DEF IdsOK, Finish, Outcome, Aborts, vars, ticket, locals, scanner, delayed
<1>15. ASSUME Cancel PROVE IdsOK'
  BY <1>15
  DEF IdsOK, Cancel, vars, ticket, locals, scanner, delayed
<1>16. ASSUME ContextEnds PROVE IdsOK'
  BY <1>16
  DEF IdsOK, ContextEnds, vars, ticket, locals, scanner, delayed
<1>17. ASSUME Crash PROVE IdsOK'
  BY <1>17
  DEF IdsOK, Crash, vars, ticket, locals, scanner, delayed
<1>18. ASSUME OtherClient PROVE IdsOK'
  <2>1. jobID' = jobID /\ (last' = last \/ (last < IdLimit /\ last' = last + 1))
    BY <1>18 DEF OtherClient, Creates, locals
  <2> QED
    BY <2>1, WorkerAssumption DEF IdsOK
<1>19. ASSUME FeederChanges PROVE IdsOK'
  BY <1>19
  DEF IdsOK, FeederChanges, Unchanged, vars, ticket, locals, scanner, delayed
<1>20. ASSUME NEW r \in wire, LateCreate(r) PROVE IdsOK'
  <2>1. jobID' = jobID /\ (last' = last \/ (last < IdLimit /\ last' = last + 1))
    BY <1>20 DEF LateCreate, Creates, locals
  <2> QED
    BY <2>1, WorkerAssumption DEF IdsOK
<1>21. ASSUME NEW j \in active, JobExpires(j) PROVE IdsOK'
  BY <1>21
  DEF IdsOK, JobExpires, Unchanged, vars, ticket, locals, scanner, delayed
<1>22. ASSUME UNCHANGED vars PROVE IdsOK'
  BY <1>22
  DEF IdsOK, vars, ticket, locals, scanner, delayed
<1> QED
  BY <1>1, <1>2, <1>3, <1>4, <1>5, <1>6, <1>7, <1>8, <1>9, <1>10, <1>11, <1>12, <1>13,
     <1>14, <1>15, <1>16, <1>17, <1>18, <1>19, <1>20, <1>21, <1>22
  DEF Next, Work, Surroundings

\* Only jobs that have begun are on the scanner or under way.
LEMMA JobsStep == CountersOK /\ IdsOK /\ JobsOK /\ Held /\ [Next]_vars => JobsOK'
<1> SUFFICES ASSUME CountersOK /\ IdsOK /\ JobsOK /\ Held, [Next]_vars PROVE JobsOK'
  OBVIOUS
<1>1. ASSUME NEW src \in {"Flatbed", "ADF"}, NEW n \in Counts, Start(src, n) PROVE JobsOK'
  <2>1. /\ run' = run + 1
        /\ active' = active /\ last' = last
        /\ wire' = wire /\ late' = late /\ abandoned' = abandoned
    BY <1>1 DEF Start, vars, ticket, locals, scanner, delayed
  <2> QED
    BY <2>1 DEF CountersOK, IdsOK, JobsOK
<1>2. ASSUME AskStatus PROVE JobsOK'
  BY <1>2, WorkerAssumption
  DEF CountersOK, IdsOK, JobsOK, AskStatus, Unavailable, Goes, vars, ticket, locals,
      scanner, delayed
<1>3. ASSUME AskJobs PROVE JobsOK'
  BY <1>3, WorkerAssumption
  DEF CountersOK, IdsOK, JobsOK, AskJobs, Unavailable, Busy, Goes, vars, ticket, locals,
      scanner, delayed
<1>4. ASSUME NEW id \in BOOLEAN, NEW token \in BOOLEAN, JobCreated(id, token) PROVE JobsOK'
  <2>1. /\ run' = run /\ run > 0
        /\ last' = last + 1 /\ active' = active \cup {[name |-> run, id |-> last']}
        /\ wire' = wire /\ late' = late /\ abandoned' = abandoned
    BY <1>4 DEF Held, JobCreated, Creates, Goes, vars, ticket, locals, scanner,
        delayed
  <2> QED
    BY <2>1 DEF CountersOK, IdsOK, JobsOK
<1>5. ASSUME CreateFails PROVE JobsOK'
  <2>1. /\ run' = run /\ run > 0
        /\ wire' \subseteq wire \cup {run}
        /\ active' = active /\ last' = last /\ late' = late /\ abandoned' = abandoned
    BY <1>5 DEF Held, CreateFails, Goes, vars, ticket, locals, scanner, delayed
  <2> QED
    BY <2>1 DEF CountersOK, IdsOK, JobsOK
<1>6. ASSUME PagesDone PROVE JobsOK'
  BY <1>6, WorkerAssumption
  DEF CountersOK, IdsOK, JobsOK, PagesDone, More, Full, Goes, vars, ticket, locals, scanner,
      delayed
<1>7. ASSUME ImageArrives PROVE JobsOK'
  BY <1>7, WorkerAssumption
  DEF CountersOK, IdsOK, JobsOK, ImageArrives, More, TakesImage, Goes, vars, ticket, locals,
      scanner, delayed
<1>8. ASSUME NoImages PROVE JobsOK'
  BY <1>8, WorkerAssumption
  DEF CountersOK, IdsOK, JobsOK, NoImages, More, FirstPageMissing, Goes, vars, ticket,
      locals, scanner, delayed
<1>9. ASSUME FetchFails PROVE JobsOK'
  BY <1>9, WorkerAssumption
  DEF CountersOK, IdsOK, JobsOK, FetchFails, More, Breaks, TakesImage, Goes, vars, ticket,
      locals, scanner, delayed
<1>10. ASSUME Convert PROVE JobsOK'
  BY <1>10, WorkerAssumption
  DEF CountersOK, IdsOK, JobsOK, Convert, Breaks, Goes, vars, ticket, locals, scanner,
      delayed
<1>11. ASSUME Store PROVE JobsOK'
  BY <1>11, WorkerAssumption
  DEF CountersOK, IdsOK, JobsOK, Store, Breaks, Wanted, Goes, vars, ticket, locals, scanner,
      delayed
<1>12. ASSUME Lookup PROVE JobsOK'
  <2>1. /\ run' = run /\ run > 0
        /\ abandoned' \subseteq abandoned \cup {run}
        /\ active' = active /\ last' = last /\ wire' = wire /\ late' = late
    BY <1>12 DEF Held, Lookup, Found, NotFound, LookupFails, Named, Goes, vars, ticket,
        locals, scanner, delayed
  <2> QED
    BY <2>1 DEF CountersOK, IdsOK, JobsOK
<1>13. ASSUME CancelJob PROVE JobsOK'
  <2>1. /\ run' = run /\ run > 0
        /\ active' \subseteq active /\ last' = last
        /\ abandoned' \subseteq abandoned \cup {run}
        /\ wire' = wire /\ late' = late
    BY <1>13 DEF Held, CancelJob, JobCanceled, CancelFails, WithoutJob, CleanupContext,
       Goes, vars,
        ticket, locals, scanner, delayed
  <2> QED
    BY <2>1 DEF CountersOK, IdsOK, JobsOK
<1>14. ASSUME Finish PROVE JobsOK'
  BY <1>14, WorkerAssumption
  DEF CountersOK, IdsOK, JobsOK, Finish, Outcome, Aborts, vars, ticket, locals, scanner,
      delayed
<1>15. ASSUME Cancel PROVE JobsOK'
  BY <1>15, WorkerAssumption
  DEF CountersOK, IdsOK, JobsOK, Cancel, vars, ticket, locals, scanner, delayed
<1>16. ASSUME ContextEnds PROVE JobsOK'
  BY <1>16, WorkerAssumption
  DEF CountersOK, IdsOK, JobsOK, ContextEnds, vars, ticket, locals, scanner, delayed
<1>17. ASSUME Crash PROVE JobsOK'
  <2>1. /\ run' = run /\ run > 0
        /\ wire' \subseteq wire \cup {run}
        /\ abandoned' \subseteq abandoned \cup {run}
        /\ active' = active /\ last' = last /\ late' = late
    BY <1>17 DEF Held, Crash, vars, ticket, locals, scanner, delayed
  <2> QED
    BY <2>1 DEF CountersOK, IdsOK, JobsOK
<1>18. ASSUME OtherClient PROVE JobsOK'
  <2>1. /\ run' = run
        /\ \/ active' \subseteq active /\ last' = last
           \/ last' = last + 1 /\ active' = active \cup {[name |-> 0, id |-> last']}
        /\ wire' = wire /\ late' = late /\ abandoned' = abandoned
    BY <1>18 DEF Foreign, OtherClient, Creates, OthersBusy, Unchanged, vars, ticket, locals,
       scanner, delayed
  <2> QED
    BY <2>1 DEF CountersOK, IdsOK, JobsOK
<1>19. ASSUME FeederChanges PROVE JobsOK'
  BY <1>19, WorkerAssumption
  DEF CountersOK, IdsOK, JobsOK, FeederChanges, Unchanged, vars, ticket, locals, scanner,
      delayed
<1>20. ASSUME NEW r \in wire, LateCreate(r) PROVE JobsOK'
  <2>1. /\ run' = run /\ wire' \subseteq wire /\ r \in wire
        /\ \/ active' = active /\ last' = last
           \/ last' = last + 1 /\ active' = active \cup {[name |-> r, id |-> last']}
        /\ late' \subseteq late \cup {r}
        /\ abandoned' = abandoned
    BY <1>20 DEF LateCreate, Creates, Unchanged, vars, ticket, locals, scanner, delayed
  <2> QED
    BY <2>1 DEF CountersOK, IdsOK, JobsOK
<1>21. ASSUME NEW j \in active, JobExpires(j) PROVE JobsOK'
  BY <1>21, WorkerAssumption
  DEF CountersOK, IdsOK, JobsOK, JobExpires, Unchanged, vars, ticket, locals, scanner,
      delayed
<1>22. ASSUME UNCHANGED vars PROVE JobsOK'
  BY <1>22
  DEF CountersOK, IdsOK, JobsOK, vars, ticket, locals, scanner, delayed
<1> QED
  BY <1>1, <1>2, <1>3, <1>4, <1>5, <1>6, <1>7, <1>8, <1>9, <1>10, <1>11, <1>12, <1>13,
     <1>14, <1>15, <1>16, <1>17, <1>18, <1>19, <1>20, <1>21, <1>22
  DEF Next, Work, Surroundings

\* The list of pages is a sequence of image numbers.
LEMMA ListStep == CountersOK /\ ListOK /\ [Next]_vars => ListOK'
<1> SUFFICES ASSUME CountersOK /\ ListOK, [Next]_vars PROVE ListOK'
  OBVIOUS
<1>1. ASSUME NEW src \in {"Flatbed", "ADF"}, NEW n \in Counts, Start(src, n) PROVE ListOK'
  <2>1. /\ listed' = <<>>
    BY <1>1 DEF Start, vars, ticket, locals, scanner, delayed
  <2> QED
    BY <2>1 DEF CountersOK, ListOK
<1>2. ASSUME AskStatus PROVE ListOK'
  BY <1>2
  DEF CountersOK, ListOK, AskStatus, Unavailable, Goes, vars, ticket, locals, scanner,
      delayed
<1>3. ASSUME AskJobs PROVE ListOK'
  BY <1>3
  DEF CountersOK, ListOK, AskJobs, Unavailable, Busy, Goes, vars, ticket, locals, scanner,
      delayed
<1>4. ASSUME NEW id \in BOOLEAN, NEW token \in BOOLEAN, JobCreated(id, token) PROVE ListOK'
  BY <1>4
  DEF CountersOK, ListOK, JobCreated, Creates, Goes, vars, ticket, locals, scanner, delayed
<1>5. ASSUME CreateFails PROVE ListOK'
  BY <1>5
  DEF CountersOK, ListOK, CreateFails, Goes, vars, ticket, locals, scanner, delayed
<1>6. ASSUME PagesDone PROVE ListOK'
  BY <1>6
  DEF CountersOK, ListOK, PagesDone, More, Full, Goes, vars, ticket, locals, scanner,
      delayed
<1>7. ASSUME ImageArrives PROVE ListOK'
  BY <1>7
  DEF CountersOK, ListOK, ImageArrives, More, Known, TakesImage, Goes, vars, ticket, locals,
      scanner, delayed
<1>8. ASSUME NoImages PROVE ListOK'
  BY <1>8
  DEF CountersOK, ListOK, NoImages, More, FirstPageMissing, Goes, vars, ticket, locals,
      scanner, delayed
<1>9. ASSUME FetchFails PROVE ListOK'
  BY <1>9
  DEF CountersOK, ListOK, FetchFails, More, Breaks, TakesImage, Goes, vars, ticket, locals,
      scanner, delayed
<1>10. ASSUME Convert PROVE ListOK'
  BY <1>10
  DEF CountersOK, ListOK, Convert, Breaks, Goes, vars, ticket, locals, scanner, delayed
<1>11. ASSUME Store PROVE ListOK'
  <2>1. /\ listed' \in {listed, Append(listed, taken)}
    BY <1>11 DEF Store, Breaks, Wanted, Goes, vars, ticket, locals, scanner, delayed
  <2> QED
    BY <2>1 DEF CountersOK, ListOK
<1>12. ASSUME Lookup PROVE ListOK'
  BY <1>12
  DEF CountersOK, ListOK, Lookup, Found, NotFound, LookupFails, Named, Goes, vars, ticket,
      locals, scanner, delayed
<1>13. ASSUME CancelJob PROVE ListOK'
  BY <1>13
  DEF CountersOK, ListOK, CancelJob, JobCanceled, CancelFails, WithoutJob, CleanupContext,
      Goes, vars, ticket, locals, scanner, delayed
<1>14. ASSUME Finish PROVE ListOK'
  BY <1>14
  DEF CountersOK, ListOK, Finish, Outcome, Aborts, vars, ticket, locals, scanner, delayed
<1>15. ASSUME Cancel PROVE ListOK'
  BY <1>15
  DEF CountersOK, ListOK, Cancel, vars, ticket, locals, scanner, delayed
<1>16. ASSUME ContextEnds PROVE ListOK'
  BY <1>16
  DEF CountersOK, ListOK, ContextEnds, vars, ticket, locals, scanner, delayed
<1>17. ASSUME Crash PROVE ListOK'
  <2>1. /\ listed' = <<>>
    BY <1>17 DEF Crash, vars, ticket, locals, scanner, delayed
  <2> QED
    BY <2>1 DEF CountersOK, ListOK
<1>18. ASSUME OtherClient PROVE ListOK'
  BY <1>18
  DEF CountersOK, ListOK, OtherClient, Creates, OthersBusy, Unchanged, vars, ticket, locals,
      scanner, delayed
<1>19. ASSUME FeederChanges PROVE ListOK'
  BY <1>19
  DEF CountersOK, ListOK, FeederChanges, Unchanged, vars, ticket, locals, scanner, delayed
<1>20. ASSUME NEW r \in wire, LateCreate(r) PROVE ListOK'
  BY <1>20
  DEF CountersOK, ListOK, LateCreate, Creates, Unchanged, vars, ticket, locals, scanner,
      delayed
<1>21. ASSUME NEW j \in active, JobExpires(j) PROVE ListOK'
  BY <1>21
  DEF CountersOK, ListOK, JobExpires, Unchanged, vars, ticket, locals, scanner, delayed
<1>22. ASSUME UNCHANGED vars PROVE ListOK'
  BY <1>22
  DEF CountersOK, ListOK, vars, ticket, locals, scanner, delayed
<1> QED
  BY <1>1, <1>2, <1>3, <1>4, <1>5, <1>6, <1>7, <1>8, <1>9, <1>10, <1>11, <1>12, <1>13,
     <1>14, <1>15, <1>16, <1>17, <1>18, <1>19, <1>20, <1>21, <1>22
  DEF Next, Work, Surroundings

\* The identity a step relies on is there.
LEMMA HeldStep == CountersOK /\ Held /\ [Next]_vars => Held'
<1> SUFFICES ASSUME CountersOK /\ Held, [Next]_vars PROVE Held'
  OBVIOUS
<1>1. ASSUME NEW src \in {"Flatbed", "ADF"}, NEW n \in Counts, Start(src, n) PROVE Held'
  <2>1. pc' = "status" /\ outcome' = "Processing" /\ run' = run + 1 /\ jobID' = None
    BY <1>1 DEF Start
  <2>2. run' > 0
    BY <2>1, WorkerAssumption DEF CountersOK, None
  <2> QED
    BY <2>1, <2>2 DEF Held, ActsOnOwnJob
<1>2. ASSUME AskStatus PROVE Held'
  BY <1>2
  DEF CountersOK, Held, None, AskStatus, Unavailable, Goes, vars, ticket, locals, scanner,
      delayed
<1>3. ASSUME AskJobs PROVE Held'
  BY <1>3
  DEF CountersOK, Held, None, AskJobs, Unavailable, Busy, Goes, vars, ticket, locals,
      scanner, delayed
<1>4. ASSUME NEW id \in BOOLEAN, NEW token \in BOOLEAN, JobCreated(id, token) PROVE Held'
  BY <1>4
  DEF CountersOK, Held, None, JobCreated, Creates, Goes, vars, ticket, locals, scanner,
      delayed
<1>5. ASSUME CreateFails PROVE Held'
  BY <1>5
  DEF CountersOK, Held, None, CreateFails, Goes, vars, ticket, locals, scanner, delayed
<1>6. ASSUME PagesDone PROVE Held'
  BY <1>6
  DEF CountersOK, Held, None, PagesDone, More, Full, Goes, vars, ticket, locals, scanner,
      delayed
<1>7. ASSUME ImageArrives PROVE Held'
  BY <1>7
  DEF CountersOK, Held, None, ImageArrives, More, Known, TakesImage, Goes, vars, ticket,
      locals, scanner, delayed
<1>8. ASSUME NoImages PROVE Held'
  BY <1>8
  DEF CountersOK, Held, None, NoImages, More, FirstPageMissing, Goes, vars, ticket, locals,
      scanner, delayed
<1>9. ASSUME FetchFails PROVE Held'
  BY <1>9
  DEF CountersOK, Held, None, FetchFails, More, Breaks, TakesImage, Goes, vars, ticket,
      locals, scanner, delayed
<1>10. ASSUME Convert PROVE Held'
  BY <1>10
  DEF CountersOK, Held, None, Convert, Breaks, Goes, vars, ticket, locals, scanner, delayed
<1>11. ASSUME Store PROVE Held'
  BY <1>11
  DEF CountersOK, Held, None, Store, Breaks, Wanted, Goes, vars, ticket, locals, scanner,
      delayed
<1>12. ASSUME Lookup PROVE Held'
  BY <1>12
  DEF CountersOK, Held, None, Lookup, Found, NotFound, LookupFails, Named, Goes, vars,
      ticket, locals, scanner, delayed
<1>13. ASSUME CancelJob PROVE Held'
  BY <1>13
  DEF CountersOK, Held, None, CancelJob, JobCanceled, CancelFails, WithoutJob,
      CleanupContext, Goes, vars, ticket, locals, scanner, delayed
<1>14. ASSUME Finish PROVE Held'
  BY <1>14
  DEF CountersOK, Held, None, Finish, Outcome, Aborts, vars, ticket, locals, scanner,
      delayed
<1>15. ASSUME Cancel PROVE Held'
  BY <1>15
  DEF CountersOK, Held, None, Cancel, vars, ticket, locals, scanner, delayed
<1>16. ASSUME ContextEnds PROVE Held'
  BY <1>16
  DEF CountersOK, Held, None, ContextEnds, vars, ticket, locals, scanner, delayed
<1>17. ASSUME Crash PROVE Held'
  BY <1>17
  DEF CountersOK, Held, None, Crash, vars, ticket, locals, scanner, delayed
<1>18. ASSUME OtherClient PROVE Held'
  BY <1>18
  DEF CountersOK, Held, None, OtherClient, Creates, OthersBusy, Unchanged, vars, ticket,
      locals, scanner, delayed
<1>19. ASSUME FeederChanges PROVE Held'
  BY <1>19
  DEF CountersOK, Held, None, FeederChanges, Unchanged, vars, ticket, locals, scanner,
      delayed
<1>20. ASSUME NEW r \in wire, LateCreate(r) PROVE Held'
  BY <1>20
  DEF CountersOK, Held, None, LateCreate, Creates, Unchanged, vars, ticket, locals, scanner,
      delayed
<1>21. ASSUME NEW j \in active, JobExpires(j) PROVE Held'
  BY <1>21
  DEF CountersOK, Held, None, JobExpires, Unchanged, vars, ticket, locals, scanner, delayed
<1>22. ASSUME UNCHANGED vars PROVE Held'
  BY <1>22
  DEF CountersOK, Held, None, vars, ticket, locals, scanner, delayed
<1> QED
  BY <1>1, <1>2, <1>3, <1>4, <1>5, <1>6, <1>7, <1>8, <1>9, <1>10, <1>11, <1>12, <1>13,
     <1>14, <1>15, <1>16, <1>17, <1>18, <1>19, <1>20, <1>21, <1>22
  DEF Next, Work, Surroundings

\* The JobId held is that of the job in hand and of no other.
LEMMA IdentifiedStep ==
    CountersOK /\ IdsOK /\ JobsOK /\ Held /\ Identified /\ [Next]_vars => Identified'
<1> SUFFICES ASSUME CountersOK /\ IdsOK /\ JobsOK /\ Held /\ Identified, [Next]_vars
    PROVE  Identified'
  OBVIOUS
<1>1. ASSUME NEW src \in {"Flatbed", "ADF"}, NEW n \in Counts, Start(src, n)
      PROVE  Identified'
  BY <1>1
  DEF CountersOK, IdsOK, JobsOK, Held, Identified, ActsOnOwnJob, Ours, Foreign, None, Start,
      vars, ticket, locals, scanner, delayed
<1>2. ASSUME AskStatus PROVE Identified'
  BY <1>2
  DEF CountersOK, IdsOK, JobsOK, Held, Identified, ActsOnOwnJob, Ours, Foreign, None,
      AskStatus, Unavailable, Goes, vars, ticket, locals, scanner, delayed
<1>3. ASSUME AskJobs PROVE Identified'
  BY <1>3
  DEF CountersOK, IdsOK, JobsOK, Held, Identified, ActsOnOwnJob, Ours, Foreign, None,
      AskJobs, Unavailable, Busy, Goes, vars, ticket, locals, scanner, delayed
<1>4. ASSUME NEW id \in BOOLEAN, NEW token \in BOOLEAN, JobCreated(id, token)
      PROVE  Identified'
  BY <1>4
  DEF CountersOK, IdsOK, JobsOK, Held, Identified, ActsOnOwnJob, Ours, Foreign, None,
      JobCreated, Creates, Goes, vars, ticket, locals, scanner, delayed
<1>5. ASSUME CreateFails PROVE Identified'
  BY <1>5
  DEF CountersOK, IdsOK, JobsOK, Held, Identified, ActsOnOwnJob, Ours, Foreign, None,
      CreateFails, Goes, vars, ticket, locals, scanner, delayed
<1>6. ASSUME PagesDone PROVE Identified'
  BY <1>6
  DEF CountersOK, IdsOK, JobsOK, Held, Identified, ActsOnOwnJob, Ours, Foreign, None,
      PagesDone, More, Full, Goes, vars, ticket, locals, scanner, delayed
<1>7. ASSUME ImageArrives PROVE Identified'
  BY <1>7
  DEF CountersOK, IdsOK, JobsOK, Held, Identified, ActsOnOwnJob, Ours, Foreign, None,
      ImageArrives, More, Known, TakesImage, Goes, vars, ticket, locals, scanner, delayed
<1>8. ASSUME NoImages PROVE Identified'
  BY <1>8
  DEF CountersOK, IdsOK, JobsOK, Held, Identified, ActsOnOwnJob, Ours, Foreign, None,
      NoImages, More, FirstPageMissing, Goes, vars, ticket, locals, scanner, delayed
<1>9. ASSUME FetchFails PROVE Identified'
  BY <1>9
  DEF CountersOK, IdsOK, JobsOK, Held, Identified, ActsOnOwnJob, Ours, Foreign, None,
      FetchFails, More, Breaks, TakesImage, Goes, vars, ticket, locals, scanner, delayed
<1>10. ASSUME Convert PROVE Identified'
  BY <1>10
  DEF CountersOK, IdsOK, JobsOK, Held, Identified, ActsOnOwnJob, Ours, Foreign, None,
      Convert, Breaks, Goes, vars, ticket, locals, scanner, delayed
<1>11. ASSUME Store PROVE Identified'
  BY <1>11
  DEF CountersOK, IdsOK, JobsOK, Held, Identified, ActsOnOwnJob, Ours, Foreign, None, Store,
      Breaks, Wanted, Goes, vars, ticket, locals, scanner, delayed
<1>12. ASSUME Lookup PROVE Identified'
  BY <1>12
  DEF CountersOK, IdsOK, JobsOK, Held, Identified, ActsOnOwnJob, Ours, Foreign, None,
      Lookup, Found, NotFound, LookupFails, Named, Goes, vars, ticket, locals, scanner,
      delayed
<1>13. ASSUME CancelJob PROVE Identified'
  BY <1>13
  DEF CountersOK, IdsOK, JobsOK, Held, Identified, ActsOnOwnJob, Ours, Foreign, None,
      CancelJob, JobCanceled, CancelFails, WithoutJob, CleanupContext, Goes, vars, ticket,
      locals, scanner, delayed
<1>14. ASSUME Finish PROVE Identified'
  BY <1>14
  DEF CountersOK, IdsOK, JobsOK, Held, Identified, ActsOnOwnJob, Ours, Foreign, None,
      Finish, Outcome, Aborts, vars, ticket, locals, scanner, delayed
<1>15. ASSUME Cancel PROVE Identified'
  BY <1>15
  DEF CountersOK, IdsOK, JobsOK, Held, Identified, ActsOnOwnJob, Ours, Foreign, None,
      Cancel, vars, ticket, locals, scanner, delayed
<1>16. ASSUME ContextEnds PROVE Identified'
  BY <1>16
  DEF CountersOK, IdsOK, JobsOK, Held, Identified, ActsOnOwnJob, Ours, Foreign, None,
      ContextEnds, vars, ticket, locals, scanner, delayed
<1>17. ASSUME Crash PROVE Identified'
  BY <1>17
  DEF CountersOK, IdsOK, JobsOK, Held, Identified, ActsOnOwnJob, Ours, Foreign, None, Crash,
      vars, ticket, locals, scanner, delayed
<1>18. ASSUME OtherClient PROVE Identified'
  BY <1>18
  DEF CountersOK, IdsOK, JobsOK, Held, Identified, ActsOnOwnJob, Ours, Foreign, None,
      OtherClient, Creates, OthersBusy, Unchanged, vars, ticket, locals, scanner, delayed
<1>19. ASSUME FeederChanges PROVE Identified'
  BY <1>19
  DEF CountersOK, IdsOK, JobsOK, Held, Identified, ActsOnOwnJob, Ours, Foreign, None,
      FeederChanges, Unchanged, vars, ticket, locals, scanner, delayed
<1>20. ASSUME NEW r \in wire, LateCreate(r) PROVE Identified'
  BY <1>20
  DEF CountersOK, IdsOK, JobsOK, Held, Identified, ActsOnOwnJob, Ours, Foreign, None,
      LateCreate, Creates, Unchanged, vars, ticket, locals, scanner, delayed
<1>21. ASSUME NEW j \in active, JobExpires(j) PROVE Identified'
  BY <1>21
  DEF CountersOK, IdsOK, JobsOK, Held, Identified, ActsOnOwnJob, Ours, Foreign, None,
      JobExpires, Unchanged, vars, ticket, locals, scanner, delayed
<1>22. ASSUME UNCHANGED vars PROVE Identified'
  BY <1>22
  DEF CountersOK, IdsOK, JobsOK, Held, Identified, ActsOnOwnJob, Ours, Foreign, None, vars,
      ticket, locals, scanner, delayed
<1> QED
  BY <1>1, <1>2, <1>3, <1>4, <1>5, <1>6, <1>7, <1>8, <1>9, <1>10, <1>11, <1>12, <1>13,
     <1>14, <1>15, <1>16, <1>17, <1>18, <1>19, <1>20, <1>21, <1>22
  DEF Next, Work, Surroundings

\* Every job of ours on the scanner is the one in hand or is given up knowingly.
LEMMA AccountedStep ==
    CountersOK /\ JobsOK /\ Held /\ Identified /\ Accounted /\ [Next]_vars => Accounted'
<1> SUFFICES ASSUME CountersOK /\ JobsOK /\ Held /\ Identified /\ Accounted, [Next]_vars
    PROVE  Accounted'
  OBVIOUS
<1>1. ASSUME NEW src \in {"Flatbed", "ADF"}, NEW n \in Counts, Start(src, n) PROVE Accounted'
  BY <1>1, WorkerAssumption
  DEF CountersOK, JobsOK, Held, Accounted, Ours, Foreign, Start, vars, ticket, locals,
      scanner, delayed
<1>2. ASSUME AskStatus PROVE Accounted'
  BY <1>2, WorkerAssumption
  DEF CountersOK, JobsOK, Held, Accounted, Ours, Foreign, AskStatus, Unavailable, Goes,
      vars, ticket, locals, scanner, delayed
<1>3. ASSUME AskJobs PROVE Accounted'
  BY <1>3, WorkerAssumption
  DEF CountersOK, JobsOK, Held, Accounted, Ours, Foreign, AskJobs, Unavailable, Busy, Goes,
      vars, ticket, locals, scanner, delayed
<1>4. ASSUME NEW id \in BOOLEAN, NEW token \in BOOLEAN, JobCreated(id, token)
      PROVE  Accounted'
  BY <1>4, WorkerAssumption
  DEF CountersOK, JobsOK, Held, Accounted, Ours, Foreign, JobCreated, Creates, Goes, vars,
      ticket, locals, scanner, delayed
<1>5. ASSUME CreateFails PROVE Accounted'
  BY <1>5, WorkerAssumption
  DEF CountersOK, JobsOK, Held, Accounted, Ours, Foreign, CreateFails, Goes, vars, ticket,
      locals, scanner, delayed
<1>6. ASSUME PagesDone PROVE Accounted'
  BY <1>6, WorkerAssumption
  DEF CountersOK, JobsOK, Held, Accounted, Ours, Foreign, PagesDone, More, Full, Goes, vars,
      ticket, locals, scanner, delayed
<1>7. ASSUME ImageArrives PROVE Accounted'
  BY <1>7, WorkerAssumption
  DEF CountersOK, JobsOK, Held, Accounted, Ours, Foreign, ImageArrives, More, TakesImage,
      Goes, vars, ticket, locals, scanner, delayed
<1>8. ASSUME NoImages PROVE Accounted'
  BY <1>8, WorkerAssumption
  DEF CountersOK, JobsOK, Held, Accounted, Ours, Foreign, NoImages, More, FirstPageMissing,
      Goes, vars, ticket, locals, scanner, delayed
<1>9. ASSUME FetchFails PROVE Accounted'
  BY <1>9, WorkerAssumption
  DEF CountersOK, JobsOK, Held, Accounted, Ours, Foreign, FetchFails, More, Breaks,
      TakesImage, Goes, vars, ticket, locals, scanner, delayed
<1>10. ASSUME Convert PROVE Accounted'
  BY <1>10, WorkerAssumption
  DEF CountersOK, JobsOK, Held, Accounted, Ours, Foreign, Convert, Breaks, Goes, vars,
      ticket, locals, scanner, delayed
<1>11. ASSUME Store PROVE Accounted'
  BY <1>11, WorkerAssumption
  DEF CountersOK, JobsOK, Held, Accounted, Ours, Foreign, Store, Breaks, Wanted, Goes, vars,
      ticket, locals, scanner, delayed
<1>12. ASSUME Lookup PROVE Accounted'
  BY <1>12, WorkerAssumption
  DEF CountersOK, JobsOK, Held, Accounted, Ours, Foreign, Lookup, Found, NotFound,
      LookupFails, Named, Goes, vars, ticket, locals, scanner, delayed
<1>13. ASSUME CancelJob PROVE Accounted'
  <2>1. /\ run' = run /\ late' = late /\ active' \subseteq active
        /\ abandoned \subseteq abandoned'
        /\ run \notin Ours' \/ run \in abandoned'
    BY <1>13 DEF Held, Identified, Ours, CancelJob, JobCanceled, CancelFails, WithoutJob,
       CleanupContext, Goes, vars,
        ticket, locals, scanner, delayed
  <2> QED
    BY <2>1 DEF CountersOK, JobsOK, Accounted, Ours
<1>14. ASSUME Finish PROVE Accounted'
  BY <1>14, WorkerAssumption
  DEF CountersOK, JobsOK, Held, Accounted, Ours, Foreign, Finish, Outcome, Aborts, vars,
      ticket, locals, scanner, delayed
<1>15. ASSUME Cancel PROVE Accounted'
  BY <1>15, WorkerAssumption
  DEF CountersOK, JobsOK, Held, Accounted, Ours, Foreign, Cancel, vars, ticket, locals,
      scanner, delayed
<1>16. ASSUME ContextEnds PROVE Accounted'
  BY <1>16, WorkerAssumption
  DEF CountersOK, JobsOK, Held, Accounted, Ours, Foreign, ContextEnds, vars, ticket, locals,
      scanner, delayed
<1>17. ASSUME Crash PROVE Accounted'
  BY <1>17, WorkerAssumption
  DEF CountersOK, JobsOK, Held, Accounted, Ours, Foreign, Crash, vars, ticket, locals,
      scanner, delayed
<1>18. ASSUME OtherClient PROVE Accounted'
  BY <1>18, WorkerAssumption
  DEF CountersOK, JobsOK, Held, Accounted, Ours, Foreign, OtherClient, Creates, OthersBusy,
      Unchanged, vars, ticket, locals, scanner, delayed
<1>19. ASSUME FeederChanges PROVE Accounted'
  BY <1>19, WorkerAssumption
  DEF CountersOK, JobsOK, Held, Accounted, Ours, Foreign, FeederChanges, Unchanged, vars,
      ticket, locals, scanner, delayed
<1>20. ASSUME NEW r \in wire, LateCreate(r) PROVE Accounted'
  <2>1. /\ run' = run /\ pc' = pc /\ abandoned' = abandoned
        /\ late \subseteq late' /\ Ours' \subseteq Ours \cup {r}
        /\ r \in Ours' \ Ours => r \in late' \/ (r = run /\ pc = "lookup")
    BY <1>20 DEF Ours, LateCreate, Creates, Unchanged, vars, ticket, locals, scanner, delayed
  <2> QED
    BY <2>1 DEF CountersOK, JobsOK, Accounted
<1>21. ASSUME NEW j \in active, JobExpires(j) PROVE Accounted'
  BY <1>21, WorkerAssumption
  DEF CountersOK, JobsOK, Held, Accounted, Ours, Foreign, JobExpires, Unchanged, vars,
      ticket, locals, scanner, delayed
<1>22. ASSUME UNCHANGED vars PROVE Accounted'
  BY <1>22
  DEF CountersOK, JobsOK, Held, Accounted, Ours, Foreign, vars, ticket, locals, scanner,
      delayed
<1> QED
  BY <1>1, <1>2, <1>3, <1>4, <1>5, <1>6, <1>7, <1>8, <1>9, <1>10, <1>11, <1>12, <1>13,
     <1>14, <1>15, <1>16, <1>17, <1>18, <1>19, <1>20, <1>21, <1>22
  DEF Next, Work, Surroundings

\* No job has a name that was not used yet.
LEMMA NamesInRange ==
    ASSUME CountersOK, JobsOK
    PROVE  run \in Nat /\ \A n \in Ours \cup wire : n \in Nat /\ n <= run
<1>1. run \in Nat
  BY WorkerAssumption DEF CountersOK
<1>2. \A j \in active : j.name \in 0..run
  BY DEF JobsOK
<1>3. \A n \in Ours : n \in 0..run
  BY <1>2 DEF Ours
<1>4. \A n \in wire : n \in 1..run
  BY DEF JobsOK
<1> QED BY <1>1, <1>3, <1>4

\* A job that stayed behind blocks the next one.
LEMMA BehindStep == CountersOK /\ JobsOK /\ Behind /\ [Next]_vars => Behind'
<1> SUFFICES ASSUME CountersOK /\ JobsOK /\ Behind, [Next]_vars PROVE Behind'
  OBVIOUS
<1>1. ASSUME NEW src \in {"Flatbed", "ADF"}, NEW n \in Counts, Start(src, n) PROVE Behind'
  BY <1>1
  DEF CountersOK, JobsOK, Behind, Coming, Ours, Foreign, Start, vars, ticket, locals,
      scanner, delayed
<1>2. ASSUME AskStatus PROVE Behind'
  BY <1>2
  DEF CountersOK, JobsOK, Behind, Coming, Ours, Foreign, AskStatus, Unavailable, Goes, vars,
      ticket, locals, scanner, delayed
<1>3. ASSUME AskJobs PROVE Behind'
  BY <1>3
  DEF CountersOK, JobsOK, Behind, Coming, Ours, Foreign, AskJobs, Unavailable, Busy, Goes,
      vars, ticket, locals, scanner, delayed
<1>4. ASSUME NEW id \in BOOLEAN, NEW token \in BOOLEAN, JobCreated(id, token) PROVE Behind'
  <2>1. /\ pc = "create" /\ run' = run /\ wire' = wire /\ late' = late
        /\ pc' # "create" /\ Ours' \subseteq Ours \cup {run}
    BY <1>4 DEF Ours, JobCreated, Creates, Goes, ticket, delayed
  <2> QED
    BY <2>1, NamesInRange DEF Behind, Coming
<1>5. ASSUME CreateFails PROVE Behind'
  BY <1>5
  DEF CountersOK, JobsOK, Behind, Coming, Ours, Foreign, CreateFails, Goes, vars, ticket,
      locals, scanner, delayed
<1>6. ASSUME PagesDone PROVE Behind'
  BY <1>6
  DEF CountersOK, JobsOK, Behind, Coming, Ours, Foreign, PagesDone, More, Full, Goes, vars,
      ticket, locals, scanner, delayed
<1>7. ASSUME ImageArrives PROVE Behind'
  BY <1>7
  DEF CountersOK, JobsOK, Behind, Coming, Ours, Foreign, ImageArrives, More, TakesImage,
      Goes, vars, ticket, locals, scanner, delayed
<1>8. ASSUME NoImages PROVE Behind'
  BY <1>8
  DEF CountersOK, JobsOK, Behind, Coming, Ours, Foreign, NoImages, More, FirstPageMissing,
      Goes, vars, ticket, locals, scanner, delayed
<1>9. ASSUME FetchFails PROVE Behind'
  BY <1>9
  DEF CountersOK, JobsOK, Behind, Coming, Ours, Foreign, FetchFails, More, Breaks,
      TakesImage, Goes, vars, ticket, locals, scanner, delayed
<1>10. ASSUME Convert PROVE Behind'
  BY <1>10
  DEF CountersOK, JobsOK, Behind, Coming, Ours, Foreign, Convert, Breaks, Goes, vars,
      ticket, locals, scanner, delayed
<1>11. ASSUME Store PROVE Behind'
  BY <1>11
  DEF CountersOK, JobsOK, Behind, Coming, Ours, Foreign, Store, Breaks, Wanted, Goes, vars,
      ticket, locals, scanner, delayed
<1>12. ASSUME Lookup PROVE Behind'
  BY <1>12
  DEF CountersOK, JobsOK, Behind, Coming, Ours, Foreign, Lookup, Found, NotFound,
      LookupFails, Named, Goes, vars, ticket, locals, scanner, delayed
<1>13. ASSUME CancelJob PROVE Behind'
  BY <1>13
  DEF CountersOK, JobsOK, Behind, Coming, Ours, Foreign, CancelJob, JobCanceled,
      CancelFails, WithoutJob, CleanupContext, Goes, vars, ticket, locals, scanner, delayed
<1>14. ASSUME Finish PROVE Behind'
  BY <1>14
  DEF CountersOK, JobsOK, Behind, Coming, Ours, Foreign, Finish, Outcome, Aborts, vars,
      ticket, locals, scanner, delayed
<1>15. ASSUME Cancel PROVE Behind'
  BY <1>15
  DEF CountersOK, JobsOK, Behind, Coming, Ours, Foreign, Cancel, vars, ticket, locals,
      scanner, delayed
<1>16. ASSUME ContextEnds PROVE Behind'
  BY <1>16
  DEF CountersOK, JobsOK, Behind, Coming, Ours, Foreign, ContextEnds, vars, ticket, locals,
      scanner, delayed
<1>17. ASSUME Crash PROVE Behind'
  BY <1>17
  DEF CountersOK, JobsOK, Behind, Coming, Ours, Foreign, Crash, vars, ticket, locals,
      scanner, delayed
<1>18. ASSUME OtherClient PROVE Behind'
  BY <1>18
  DEF CountersOK, JobsOK, Behind, Coming, Ours, Foreign, OtherClient, Creates, OthersBusy,
      Unchanged, vars, ticket, locals, scanner, delayed
<1>19. ASSUME FeederChanges PROVE Behind'
  BY <1>19
  DEF CountersOK, JobsOK, Behind, Coming, Ours, Foreign, FeederChanges, Unchanged, vars,
      ticket, locals, scanner, delayed
<1>20. ASSUME NEW r \in wire, LateCreate(r) PROVE Behind'
  <2>1. /\ run' = run /\ pc' = pc /\ r \in wire /\ wire' \subseteq wire
        /\ late \subseteq late' /\ Ours' \subseteq Ours \cup {r}
        /\ r \in Ours' \ Ours => r \in late' \/ r = run
    BY <1>20 DEF Ours, LateCreate, Creates, Unchanged, vars, ticket, locals, scanner, delayed
  <2> QED
    BY <2>1, NamesInRange DEF Behind, Coming
<1>21. ASSUME NEW j \in active, JobExpires(j) PROVE Behind'
  BY <1>21
  DEF CountersOK, JobsOK, Behind, Coming, Ours, Foreign, JobExpires, Unchanged, vars,
      ticket, locals, scanner, delayed
<1>22. ASSUME UNCHANGED vars PROVE Behind'
  BY <1>22
  DEF CountersOK, JobsOK, Behind, Coming, Ours, Foreign, vars, ticket, locals, scanner,
      delayed
<1> QED
  BY <1>1, <1>2, <1>3, <1>4, <1>5, <1>6, <1>7, <1>8, <1>9, <1>10, <1>11, <1>12, <1>13,
     <1>14, <1>15, <1>16, <1>17, <1>18, <1>19, <1>20, <1>21, <1>22
  DEF Next, Work, Surroundings

\* The pages listed are the images taken, as long as the job goes on.
LEMMA PagedStep == CountersOK /\ ListOK /\ Held /\ Paged /\ [Next]_vars => Paged'
<1> SUFFICES ASSUME CountersOK /\ ListOK /\ Held /\ Paged, [Next]_vars PROVE Paged'
  OBVIOUS
<1>1. ASSUME NEW src \in {"Flatbed", "ADF"}, NEW n \in Counts, Start(src, n) PROVE Paged'
  <2>1. /\ pc' = "status" /\ listed' = <<>>
        /\ pages' = 0 /\ taken' = 0
    BY <1>1 DEF Start, vars, ticket, locals, scanner, delayed
  <2> QED
    BY <2>1 DEF CountersOK, ListOK, Paged, ListedInOrder, More
<1>2. ASSUME AskStatus PROVE Paged'
  BY <1>2, WorkerAssumption
  DEF CountersOK, ListOK, Held, Paged, ListedInOrder, More, AskStatus, Unavailable, Goes,
      vars, ticket, locals, scanner, delayed
<1>3. ASSUME AskJobs PROVE Paged'
  BY <1>3, WorkerAssumption
  DEF CountersOK, ListOK, Held, Paged, ListedInOrder, More, AskJobs, Unavailable, Busy,
      Goes, vars, ticket, locals, scanner, delayed
<1>4. ASSUME NEW id \in BOOLEAN, NEW token \in BOOLEAN, JobCreated(id, token) PROVE Paged'
  <2>1. /\ pc = "create" /\ pc' \in {"lookup", "cancel", "fetch"}
        /\ listed' = listed /\ pages' = pages /\ taken' = taken /\ count' = count
        /\ ~canceled' => ~canceled
    BY <1>4 DEF JobCreated, Creates, Goes, vars, ticket, locals, scanner, delayed
  <2> QED
    BY <2>1 DEF CountersOK, ListOK, Paged, ListedInOrder, More
<1>5. ASSUME CreateFails PROVE Paged'
  BY <1>5, WorkerAssumption
  DEF CountersOK, ListOK, Held, Paged, ListedInOrder, More, CreateFails, Goes, vars, ticket,
      locals, scanner, delayed
<1>6. ASSUME PagesDone PROVE Paged'
  BY <1>6, WorkerAssumption
  DEF CountersOK, ListOK, Held, Paged, ListedInOrder, More, PagesDone, Full, Goes, vars,
      ticket, locals, scanner, delayed
<1>7. ASSUME ImageArrives PROVE Paged'
  BY <1>7, WorkerAssumption
  DEF CountersOK, ListOK, Held, Paged, ListedInOrder, More, ImageArrives, Known, TakesImage,
      Goes, vars, ticket, locals, scanner, delayed
<1>8. ASSUME NoImages PROVE Paged'
  BY <1>8, WorkerAssumption
  DEF CountersOK, ListOK, Held, Paged, ListedInOrder, More, NoImages, FirstPageMissing,
      Goes, vars, ticket, locals, scanner, delayed
<1>9. ASSUME FetchFails PROVE Paged'
  BY <1>9, WorkerAssumption
  DEF CountersOK, ListOK, Held, Paged, ListedInOrder, More, FetchFails, Breaks, TakesImage,
      Goes, vars, ticket, locals, scanner, delayed
<1>10. ASSUME Convert PROVE Paged'
  BY <1>10, WorkerAssumption
  DEF CountersOK, ListOK, Held, Paged, ListedInOrder, More, Convert, Breaks, Goes, vars,
      ticket, locals, scanner, delayed
<1>11. ASSUME Store PROVE Paged'
  <2>1. /\ taken = pages + 1 /\ More
        /\ taken' = taken /\ count' = count
        /\ canceled' = canceled
        /\ Len(listed) <= pages /\ (Len(listed) = pages \/ canceled)
    BY <1>11 DEF Store, Breaks, Wanted, Goes, Paged, vars, ticket, locals, scanner, delayed
  <2>2. CASE pc' = "cancel" /\ listed' = listed /\ pages' = pages
    BY <2>1, <2>2 DEF Paged, ListedInOrder
  <2>3. CASE pc' = "fetch" /\ pages' = pages + 1 /\ canceled' /\ listed' = listed
    BY <2>1, <2>3 DEF Paged, ListedInOrder, More, CountersOK, ListOK
  <2>4. CASE pc' = "fetch" /\ pages' = pages + 1 /\ ~canceled' /\ listed' = Append(listed, taken)
    <3>1. Len(listed') = pages' /\ ListedInOrder'
      BY <2>1, <2>4 DEF Paged, ListedInOrder, CountersOK, ListOK
    <3> QED
      BY <2>1, <2>4, <3>1 DEF Paged, More, CountersOK
  <2> QED
    BY <1>11, <2>2, <2>3, <2>4 DEF Store, Breaks, Wanted, Goes
<1>12. ASSUME Lookup PROVE Paged'
  BY <1>12, WorkerAssumption
  DEF CountersOK, ListOK, Held, Paged, ListedInOrder, More, Lookup, Found, NotFound,
      LookupFails, Named, Goes, vars, ticket, locals, scanner, delayed
<1>13. ASSUME CancelJob PROVE Paged'
  BY <1>13, WorkerAssumption
  DEF CountersOK, ListOK, Held, Paged, ListedInOrder, More, CancelJob, JobCanceled,
      CancelFails, WithoutJob, CleanupContext, Goes, vars, ticket, locals, scanner, delayed
<1>14. ASSUME Finish PROVE Paged'
  BY <1>14, WorkerAssumption
  DEF CountersOK, ListOK, Held, Paged, ListedInOrder, More, Finish, Outcome, Aborts, vars,
      ticket, locals, scanner, delayed
<1>15. ASSUME Cancel PROVE Paged'
  BY <1>15, WorkerAssumption
  DEF CountersOK, ListOK, Held, Paged, ListedInOrder, More, Cancel, vars, ticket, locals,
      scanner, delayed
<1>16. ASSUME ContextEnds PROVE Paged'
  BY <1>16, WorkerAssumption
  DEF CountersOK, ListOK, Held, Paged, ListedInOrder, More, ContextEnds, vars, ticket,
      locals, scanner, delayed
<1>17. ASSUME Crash PROVE Paged'
  <2>1. /\ pc' = "idle" /\ listed' = <<>>
    BY <1>17 DEF Crash, vars, ticket, locals, scanner, delayed
  <2> QED
    BY <2>1 DEF CountersOK, ListOK, Paged, ListedInOrder, More
<1>18. ASSUME OtherClient PROVE Paged'
  BY <1>18, WorkerAssumption
  DEF CountersOK, ListOK, Held, Paged, ListedInOrder, More, OtherClient, Creates,
      OthersBusy, Unchanged, vars, ticket, locals, scanner, delayed
<1>19. ASSUME FeederChanges PROVE Paged'
  BY <1>19, WorkerAssumption
  DEF CountersOK, ListOK, Held, Paged, ListedInOrder, More, FeederChanges, Unchanged, vars,
      ticket, locals, scanner, delayed
<1>20. ASSUME NEW r \in wire, LateCreate(r) PROVE Paged'
  BY <1>20, WorkerAssumption
  DEF CountersOK, ListOK, Held, Paged, ListedInOrder, More, LateCreate, Creates, Unchanged,
      vars, ticket, locals, scanner, delayed
<1>21. ASSUME NEW j \in active, JobExpires(j) PROVE Paged'
  BY <1>21, WorkerAssumption
  DEF CountersOK, ListOK, Held, Paged, ListedInOrder, More, JobExpires, Unchanged, vars,
      ticket, locals, scanner, delayed
<1>22. ASSUME UNCHANGED vars PROVE Paged'
  BY <1>22
  DEF CountersOK, ListOK, Held, Paged, ListedInOrder, More, vars, ticket, locals, scanner,
      delayed
<1> QED
  BY <1>1, <1>2, <1>3, <1>4, <1>5, <1>6, <1>7, <1>8, <1>9, <1>10, <1>11, <1>12, <1>13,
     <1>14, <1>15, <1>16, <1>17, <1>18, <1>19, <1>20, <1>21, <1>22
  DEF Next, Work, Surroundings

\* Without an error there is nothing left to fetch.
LEMMA WholeStep == CountersOK /\ ListOK /\ Held /\ Paged /\ Whole /\ [Next]_vars => Whole'
<1> SUFFICES ASSUME CountersOK /\ ListOK /\ Held /\ Paged /\ Whole, [Next]_vars PROVE Whole'
  OBVIOUS
<1>1. ASSUME NEW src \in {"Flatbed", "ADF"}, NEW n \in Counts, Start(src, n) PROVE Whole'
  BY <1>1, WorkerAssumption
  DEF CountersOK, Held, Paged, Whole, CompletedIsWhole, AllListed, ListOK, More, Start,
      vars, ticket, locals, scanner, delayed
<1>2. ASSUME AskStatus PROVE Whole'
  BY <1>2, WorkerAssumption
  DEF CountersOK, Held, Paged, Whole, CompletedIsWhole, AllListed, ListOK, More, AskStatus,
      Unavailable, Goes, vars, ticket, locals, scanner, delayed
<1>3. ASSUME AskJobs PROVE Whole'
  BY <1>3, WorkerAssumption
  DEF CountersOK, Held, Paged, Whole, CompletedIsWhole, AllListed, ListOK, More, AskJobs,
      Unavailable, Busy, Goes, vars, ticket, locals, scanner, delayed
<1>4. ASSUME NEW id \in BOOLEAN, NEW token \in BOOLEAN, JobCreated(id, token) PROVE Whole'
  <2>1. /\ pc' \in {"lookup", "cancel", "fetch"} /\ outcome' = "Processing"
        /\ pc' # "fetch" => erred'
    BY <1>4 DEF Held, JobCreated, Goes
  <2>2. count' = count /\ listed' = listed /\ Len(listed) <= 0
    BY <1>4 DEF Paged, JobCreated, Goes, ticket
  <2>3. ~AllListed'
    BY <2>2 DEF AllListed, CountersOK, ListOK
  <2> QED
    BY <2>1, <2>3 DEF Whole, CompletedIsWhole
<1>5. ASSUME CreateFails PROVE Whole'
  BY <1>5, WorkerAssumption
  DEF CountersOK, Held, Paged, Whole, CompletedIsWhole, AllListed, ListOK, More,
      CreateFails, Goes, vars, ticket, locals, scanner, delayed
<1>6. ASSUME PagesDone PROVE Whole'
  <2>1. /\ pc' = "cancel" /\ outcome' = "Processing"
        /\ pages' = pages /\ taken' = taken /\ count' = count
        /\ pages = taken /\ ~More /\ (count = 0 \/ pages <= count)
        /\ ~erred' => pages # PageLimit \/ count # 0
    BY <1>6 DEF Held, Paged, PagesDone, More, Full, Goes, vars, ticket, locals, scanner,
       delayed
  <2>2. ~erred' => pages' > 0 /\ pages' = count' /\ taken' = pages'
    BY <2>1, WorkerAssumption DEF CountersOK, None, More
  <2>3. erred' => ~AllListed'
    BY <1>6, <2>1 DEF PagesDone, Full, AllListed
  <2> QED
    BY <2>1, <2>2, <2>3 DEF Whole, CompletedIsWhole
<1>7. ASSUME ImageArrives PROVE Whole'
  BY <1>7, WorkerAssumption
  DEF CountersOK, Held, Paged, Whole, CompletedIsWhole, AllListed, ListOK, More,
      ImageArrives, Known, TakesImage, Goes, vars, ticket, locals, scanner, delayed
<1>8. ASSUME NoImages PROVE Whole'
  <2>1. /\ pc' = "cancel" /\ outcome' = "Processing" /\ empty'
        /\ pages' = pages /\ taken' = taken /\ pages = taken
        /\ ~erred' => pages # 0
    BY <1>8 DEF Held, Paged, NoImages, FirstPageMissing, Goes, vars, ticket, locals, scanner,
        delayed
  <2>2. ~erred' => pages' > 0 /\ taken' = pages'
    BY <2>1 DEF CountersOK, None
  <2>3. /\ count' = count /\ listed' = listed
        /\ Len(listed) <= pages /\ (count = 0 \/ pages < count)
    BY <1>8 DEF Paged, NoImages, More, Goes, ticket
  <2>4. ~AllListed'
    BY <2>3 DEF AllListed, CountersOK, ListOK
  <2> QED
    BY <2>1, <2>2, <2>4, Zenon DEF Whole, CompletedIsWhole
<1>9. ASSUME FetchFails PROVE Whole'
  BY <1>9, WorkerAssumption
  DEF CountersOK, Held, Paged, Whole, CompletedIsWhole, AllListed, ListOK, More, FetchFails,
      Breaks, TakesImage, Goes, vars, ticket, locals, scanner, delayed
<1>10. ASSUME Convert PROVE Whole'
  BY <1>10, WorkerAssumption
  DEF CountersOK, Held, Paged, Whole, CompletedIsWhole, AllListed, ListOK, More, Convert,
      Breaks, Goes, vars, ticket, locals, scanner, delayed
<1>11. ASSUME Store PROVE Whole'
  BY <1>11, WorkerAssumption
  DEF CountersOK, Held, Paged, Whole, CompletedIsWhole, AllListed, ListOK, More, Store,
      Breaks, Wanted, Goes, vars, ticket, locals, scanner, delayed
<1>12. ASSUME Lookup PROVE Whole'
  BY <1>12, WorkerAssumption
  DEF CountersOK, Held, Paged, Whole, CompletedIsWhole, AllListed, ListOK, More, Lookup,
      Found, NotFound, LookupFails, Named, Goes, vars, ticket, locals, scanner, delayed
<1>13. ASSUME CancelJob PROVE Whole'
  BY <1>13, WorkerAssumption
  DEF CountersOK, Held, Paged, Whole, CompletedIsWhole, AllListed, ListOK, More, CancelJob,
      JobCanceled, CancelFails, WithoutJob, CleanupContext, Goes, vars, ticket, locals,
      scanner, delayed
<1>14. ASSUME Finish PROVE Whole'
  BY <1>14, WorkerAssumption
  DEF CountersOK, Held, Paged, Whole, CompletedIsWhole, AllListed, ListOK, More, Finish,
      Outcome, Aborts, vars, ticket, locals, scanner, delayed
<1>15. ASSUME Cancel PROVE Whole'
  BY <1>15, WorkerAssumption
  DEF CountersOK, Held, Paged, Whole, CompletedIsWhole, AllListed, ListOK, More, Cancel,
      vars, ticket, locals, scanner, delayed
<1>16. ASSUME ContextEnds PROVE Whole'
  BY <1>16, WorkerAssumption
  DEF CountersOK, Held, Paged, Whole, CompletedIsWhole, AllListed, ListOK, More,
      ContextEnds, vars, ticket, locals, scanner, delayed
<1>17. ASSUME Crash PROVE Whole'
  BY <1>17, WorkerAssumption
  DEF CountersOK, Held, Paged, Whole, CompletedIsWhole, AllListed, ListOK, More, Crash,
      vars, ticket, locals, scanner, delayed
<1>18. ASSUME OtherClient PROVE Whole'
  BY <1>18, WorkerAssumption
  DEF CountersOK, Held, Paged, Whole, CompletedIsWhole, AllListed, ListOK, More,
      OtherClient, Creates, OthersBusy, Unchanged, vars, ticket, locals, scanner, delayed
<1>19. ASSUME FeederChanges PROVE Whole'
  BY <1>19, WorkerAssumption
  DEF CountersOK, Held, Paged, Whole, CompletedIsWhole, AllListed, ListOK, More,
      FeederChanges, Unchanged, vars, ticket, locals, scanner, delayed
<1>20. ASSUME NEW r \in wire, LateCreate(r) PROVE Whole'
  BY <1>20, WorkerAssumption
  DEF CountersOK, Held, Paged, Whole, CompletedIsWhole, AllListed, ListOK, More, LateCreate,
      Creates, Unchanged, vars, ticket, locals, scanner, delayed
<1>21. ASSUME NEW j \in active, JobExpires(j) PROVE Whole'
  BY <1>21, WorkerAssumption
  DEF CountersOK, Held, Paged, Whole, CompletedIsWhole, AllListed, ListOK, More, JobExpires,
      Unchanged, vars, ticket, locals, scanner, delayed
<1>22. ASSUME UNCHANGED vars PROVE Whole'
  BY <1>22
  DEF CountersOK, Held, Paged, Whole, CompletedIsWhole, AllListed, ListOK, More, vars,
      ticket, locals, scanner, delayed
<1> QED
  BY <1>1, <1>2, <1>3, <1>4, <1>5, <1>6, <1>7, <1>8, <1>9, <1>10, <1>11, <1>12, <1>13,
     <1>14, <1>15, <1>16, <1>17, <1>18, <1>19, <1>20, <1>21, <1>22
  DEF Next, Work, Surroundings

-----------------------------------------------------------------------------
\* All of it together is inductive.
Inductive == TypeOK /\ WorkerInvariant

LEMMA InductiveInit == Init => Inductive
<1> SUFFICES ASSUME Init PROVE Inductive
  OBVIOUS
<1>1. FlagsOK
  BY DEF Init, FlagsOK
<1>2. NamesOK
  BY DEF Init, NamesOK, Steps
<1>3. CountersOK /\ IdsOK /\ JobsOK /\ ListOK
  <2>1. /\ run = 0 /\ count = 0 /\ jobID = None /\ last = 0
        /\ pages = 0 /\ feeder = 0 /\ taken = 0
        /\ active = {} /\ wire = {} /\ late = {} /\ abandoned = {} /\ listed = <<>>
    BY DEF Init
  <2> QED
    BY <2>1, WorkerAssumption DEF CountersOK, IdsOK, JobsOK, ListOK
<1>4. Held /\ Identified /\ Whole
  BY DEF Init, Held, Identified, ActsOnOwnJob, Ours, Whole, CompletedIsWhole
<1>5. Accounted /\ Behind
  BY DEF Init, Accounted, Behind, Coming, Ours
<1>6. Paged
  <2>1. pc = "idle" /\ listed = <<>>
    BY DEF Init
  <2> QED
    BY <2>1 DEF Paged, ListedInOrder
<1> QED
  BY <1>1, <1>2, <1>3, <1>4, <1>5, <1>6 DEF Inductive, TypeOK, WorkerInvariant

LEMMA InductiveStep == Inductive /\ [Next]_vars => Inductive'
<1> SUFFICES ASSUME Inductive, [Next]_vars PROVE Inductive'
  OBVIOUS
<1>1. FlagsOK' /\ NamesOK' /\ CountersOK' /\ IdsOK' /\ JobsOK' /\ ListOK'
  BY FlagsStep, NamesStep, CountersStep, IdsStep, JobsStep, ListStep
  DEF Inductive, TypeOK, WorkerInvariant
<1>2. Held' /\ Identified' /\ Accounted' /\ Behind' /\ Paged' /\ Whole'
  BY HeldStep, IdentifiedStep, AccountedStep, BehindStep, PagedStep, WholeStep
  DEF Inductive, TypeOK, WorkerInvariant
<1> QED
  BY <1>1, <1>2 DEF Inductive, TypeOK, WorkerInvariant

\* For any number of jobs, pages and sheets, every variable keeps its type.
THEOREM TypeCorrect == Spec => []TypeOK
<1>1. Inductive => TypeOK
  BY DEF Inductive
<1> QED
  BY InductiveInit, InductiveStep, <1>1, PTL DEF Spec

\* The reasons behind the properties below hold in every state.
THEOREM WorkerCorrect == Spec => []WorkerInvariant
<1>1. Inductive => WorkerInvariant
  BY DEF Inductive
<1> QED
  BY InductiveInit, InductiveStep, <1>1, PTL DEF Spec

\* CancelJob and RetrieveImage never name another client's job, nor an earlier one.
THEOREM OnlyOwnJob == Spec => []ActsOnOwnJob
<1>1. WorkerInvariant => ActsOnOwnJob
  BY DEF WorkerInvariant, Identified
<1> QED
  BY WorkerCorrect, <1>1, PTL

\* Between acquisitions no job of ours is on the scanner that nobody knows to be there.
THEOREM ScannerIsLeftClean == Spec => []NothingLeftBehind
<1>1. WorkerInvariant => NothingLeftBehind
  BY DEF WorkerInvariant, Accounted, NothingLeftBehind
<1> QED
  BY WorkerCorrect, <1>1, PTL

\* A job that stayed behind keeps the next ones from being created.
THEOREM NoSelfOverlap == Spec => []OwnJobsDoNotOverlap
<1>1. WorkerInvariant => OwnJobsDoNotOverlap
  BY DEF WorkerInvariant, Behind, Coming, OwnJobsDoNotOverlap
<1> QED
  BY WorkerCorrect, <1>1, PTL

\* A client sees consecutive images of its job, from the first one on.
THEOREM PagesAreConsecutive == Spec => []ListedInOrder
<1>1. WorkerInvariant => ListedInOrder
  BY DEF WorkerInvariant, Paged
<1> QED
  BY WorkerCorrect, <1>1, PTL

\* An acquisition that ends well is complete.
THEOREM NothingMissing == Spec => []CompletedIsWhole
<1>1. WorkerInvariant => CompletedIsWhole
  BY DEF WorkerInvariant, Whole
<1> QED
  BY WorkerCorrect, <1>1, PTL

\* While a job is canceled its list of pages is left alone.
LEMMA NoPageStep == [Next]_vars => (canceled /\ canceled' => UNCHANGED listed)
<1> SUFFICES ASSUME [Next]_vars PROVE (canceled /\ canceled' => UNCHANGED listed)
  OBVIOUS
<1>1. ASSUME NEW src \in {"Flatbed", "ADF"}, NEW n \in Counts, Start(src, n)
     PROVE (canceled /\ canceled' => UNCHANGED listed)
  BY <1>1
  DEF Start, vars, ticket, locals, scanner, delayed
<1>2. ASSUME AskStatus PROVE (canceled /\ canceled' => UNCHANGED listed)
  BY <1>2
  DEF AskStatus, Unavailable, Goes, vars, ticket, locals, scanner, delayed
<1>3. ASSUME AskJobs PROVE (canceled /\ canceled' => UNCHANGED listed)
  BY <1>3
  DEF AskJobs, Unavailable, Busy, Goes, vars, ticket, locals, scanner, delayed
<1>4. ASSUME NEW id \in BOOLEAN, NEW token \in BOOLEAN, JobCreated(id, token)
     PROVE (canceled /\ canceled' => UNCHANGED listed)
  BY <1>4
  DEF JobCreated, Creates, Goes, vars, ticket, locals, scanner, delayed
<1>5. ASSUME CreateFails PROVE (canceled /\ canceled' => UNCHANGED listed)
  BY <1>5
  DEF CreateFails, Goes, vars, ticket, locals, scanner, delayed
<1>6. ASSUME PagesDone PROVE (canceled /\ canceled' => UNCHANGED listed)
  BY <1>6
  DEF PagesDone, More, Full, Goes, vars, ticket, locals, scanner, delayed
<1>7. ASSUME ImageArrives PROVE (canceled /\ canceled' => UNCHANGED listed)
  BY <1>7
  DEF ImageArrives, More, Known, TakesImage, Goes, vars, ticket, locals, scanner, delayed
<1>8. ASSUME NoImages PROVE (canceled /\ canceled' => UNCHANGED listed)
  BY <1>8
  DEF NoImages, More, FirstPageMissing, Goes, vars, ticket, locals, scanner, delayed
<1>9. ASSUME FetchFails PROVE (canceled /\ canceled' => UNCHANGED listed)
  BY <1>9
  DEF FetchFails, More, Breaks, TakesImage, Goes, vars, ticket, locals, scanner, delayed
<1>10. ASSUME Convert PROVE (canceled /\ canceled' => UNCHANGED listed)
  BY <1>10
  DEF Convert, Breaks, Goes, vars, ticket, locals, scanner, delayed
<1>11. ASSUME Store PROVE (canceled /\ canceled' => UNCHANGED listed)
  BY <1>11
  DEF Store, Breaks, Wanted, Goes, vars, ticket, locals, scanner, delayed
<1>12. ASSUME Lookup PROVE (canceled /\ canceled' => UNCHANGED listed)
  BY <1>12
  DEF Lookup, Found, NotFound, LookupFails, Named, Goes, vars, ticket, locals, scanner,
      delayed
<1>13. ASSUME CancelJob PROVE (canceled /\ canceled' => UNCHANGED listed)
  BY <1>13
  DEF CancelJob, JobCanceled, CancelFails, WithoutJob, CleanupContext, Goes, vars, ticket,
      locals, scanner, delayed
<1>14. ASSUME Finish PROVE (canceled /\ canceled' => UNCHANGED listed)
  BY <1>14
  DEF Finish, Outcome, Aborts, vars, ticket, locals, scanner, delayed
<1>15. ASSUME Cancel PROVE (canceled /\ canceled' => UNCHANGED listed)
  BY <1>15
  DEF Cancel, vars, ticket, locals, scanner, delayed
<1>16. ASSUME ContextEnds PROVE (canceled /\ canceled' => UNCHANGED listed)
  BY <1>16
  DEF ContextEnds, vars, ticket, locals, scanner, delayed
<1>17. ASSUME Crash PROVE (canceled /\ canceled' => UNCHANGED listed)
  BY <1>17
  DEF Crash, vars, ticket, locals, scanner, delayed
<1>18. ASSUME OtherClient PROVE (canceled /\ canceled' => UNCHANGED listed)
  BY <1>18
  DEF OtherClient, Creates, OthersBusy, Unchanged, vars, ticket, locals, scanner, delayed
<1>19. ASSUME FeederChanges PROVE (canceled /\ canceled' => UNCHANGED listed)
  BY <1>19
  DEF FeederChanges, Unchanged, vars, ticket, locals, scanner, delayed
<1>20. ASSUME NEW r \in wire, LateCreate(r) PROVE (canceled /\ canceled' => UNCHANGED listed)
  BY <1>20
  DEF LateCreate, Creates, Unchanged, vars, ticket, locals, scanner, delayed
<1>21. ASSUME NEW j \in active, JobExpires(j)
       PROVE  (canceled /\ canceled' => UNCHANGED listed)
  BY <1>21
  DEF JobExpires, Unchanged, vars, ticket, locals, scanner, delayed
<1>22. ASSUME UNCHANGED vars PROVE (canceled /\ canceled' => UNCHANGED listed)
  BY <1>22
  DEF vars, ticket, locals, scanner, delayed
<1> QED
  BY <1>1, <1>2, <1>3, <1>4, <1>5, <1>6, <1>7, <1>8, <1>9, <1>10, <1>11, <1>12, <1>13,
     <1>14, <1>15, <1>16, <1>17, <1>18, <1>19, <1>20, <1>21, <1>22
  DEF Next, Work, Surroundings

\* A canceled job gets no page, whatever is under way when it is canceled.
THEOREM CanceledGetsNothing == Spec => NoPageAfterCancel
<1>1. [Next]_vars => [canceled /\ canceled' => UNCHANGED listed]_vars
  BY NoPageStep
<1> QED
  BY <1>1, PTL DEF Spec, NoPageAfterCancel

-----------------------------------------------------------------------------
(* What the client sees *)

\* The flatbed has one page, the feeder as many as are asked for.
LEMMA ClientBegins ==
    ASSUME NEW src \in {"Flatbed", "ADF"}, NEW n \in Counts, Start(src, n)
    PROVE  Client!Next
<1>1. count' \in Counts \cup {1}
  BY DEF Start
<1>2. Client!Begin(count')
  BY DEF Start, Client!Begin
<1> QED BY <1>1, <1>2 DEF Client!Next

\* The image that arrives, or is lost on its way, is the next one.
LEMMA ClientTakes ==
    ASSUME Paged, pc = "fetch", More, TakesImage,
           pc' # "idle", UNCHANGED <<ticket, canceled, outcome, empty, listed>>
    PROVE  Client!Take
<1>1. taken = pages /\ (canceled \/ Len(listed) = pages) /\ (count = 0 \/ pages < count)
  BY DEF Paged, More
<1>2. taken' = taken + 1 /\ count' = count
  BY DEF TakesImage, ticket
<1> QED BY <1>1, <1>2 DEF Client!Take, Client!Running

LEMMA ClientFetchFails ==
    ASSUME Paged, FetchFails
    PROVE  [Client!Next]_(Client!avars)
<1>1. /\ pc = "fetch" /\ More /\ pc' = "cancel"
      /\ UNCHANGED <<ticket, canceled, outcome, empty, listed>>
  BY DEF FetchFails, Breaks, Goes
<1>2. CASE TakesImage
  BY <1>1, <1>2, ClientTakes DEF Client!Next
<1>3. CASE UNCHANGED scanner
  BY <1>1, <1>3 DEF ticket, scanner, Client!avars
<1> QED BY <1>2, <1>3 DEF FetchFails

LEMMA ClientStores ==
    ASSUME Paged, Store
    PROVE  [Client!Next]_(Client!avars)
<1>1. /\ pc = "store" /\ pc' \in {"cancel", "fetch"} /\ taken = pages + 1
      /\ ~canceled => Len(listed) = pages
      /\ UNCHANGED <<ticket, canceled, outcome, empty, scanner>>
  BY DEF Store, Breaks, Goes, Paged
<1>2. CASE UNCHANGED listed
  BY <1>1, <1>2 DEF ticket, scanner, Client!avars
<1>3. CASE ~canceled /\ listed' = Append(listed, taken)
  <2>1. Client!List
    BY <1>1, <1>3 DEF ticket, scanner, Client!List, Client!Running
  <2> QED BY <2>1 DEF Client!Next
<1> QED BY <1>2, <1>3 DEF Store, Wanted

\* A job that ends well has all its images listed.
LEMMA ClientEnds ==
    ASSUME Whole', Finish
    PROVE  Client!End
<1>1. /\ pc # "idle" /\ pc' = "idle"
      /\ UNCHANGED <<ticket, canceled, empty, taken, listed>>
  BY DEF Finish, locals, scanner
<1>2. CASE outcome' = "Completed"
  <2>1. ~canceled
    BY <1>2 DEF Finish, Outcome
  <2>2. Len(listed) = taken /\ taken > 0 /\ (empty \/ Len(listed) = count)
    BY <1>1, <1>2 DEF Whole, CompletedIsWhole, ticket
  <2> QED BY <1>1, <1>2, <2>1, <2>2 DEF Client!End, Client!Whole, ticket
<1>3. CASE outcome' = "Canceled"
  <2>1. canceled
    BY <1>3 DEF Finish, Outcome
  <2> QED BY <1>1, <1>3, <2>1 DEF Client!End, ticket
<1>4. CASE outcome' = "Aborted"
  BY <1>1, <1>4 DEF Client!End, ticket
<1> QED BY <1>2, <1>3, <1>4 DEF Finish, Outcome

LEMMA ClientStep == Inductive /\ Inductive' /\ [Next]_vars => [Client!Next]_(Client!avars)
<1> SUFFICES ASSUME Inductive, Inductive', [Next]_vars PROVE [Client!Next]_(Client!avars)
  OBVIOUS
<1>1. ASSUME NEW src \in {"Flatbed", "ADF"}, NEW n \in Counts, Start(src, n)
      PROVE  [Client!Next]_(Client!avars)
  BY <1>1, ClientBegins
<1>2. ASSUME AskStatus PROVE [Client!Next]_(Client!avars)
  BY <1>2 DEF AskStatus, Unavailable, Goes, ticket, locals, scanner, Client!avars
<1>3. ASSUME AskJobs PROVE [Client!Next]_(Client!avars)
  BY <1>3 DEF AskJobs, Unavailable, Goes, ticket, locals, scanner, Client!avars
<1>4. ASSUME NEW id \in BOOLEAN, NEW token \in BOOLEAN, JobCreated(id, token)
      PROVE  [Client!Next]_(Client!avars)
  BY <1>4 DEF JobCreated, Creates, Goes, ticket, locals, scanner, Client!avars
<1>5. ASSUME CreateFails PROVE [Client!Next]_(Client!avars)
  BY <1>5 DEF CreateFails, Goes, ticket, locals, scanner, Client!avars
<1>6. ASSUME PagesDone PROVE [Client!Next]_(Client!avars)
  BY <1>6 DEF PagesDone, Goes, ticket, locals, scanner, Client!avars
<1>7. ASSUME ImageArrives PROVE [Client!Next]_(Client!avars)
  <2>1. /\ pc = "fetch" /\ More /\ TakesImage /\ pc' # "idle"
        /\ UNCHANGED <<ticket, canceled, outcome, empty, listed>>
    BY <1>7 DEF ImageArrives, Goes, locals
  <2> QED BY <2>1, ClientTakes DEF Inductive, WorkerInvariant, Client!Next
<1>8. ASSUME NoImages PROVE [Client!Next]_(Client!avars)
  BY <1>8 DEF NoImages, Goes, ticket, scanner, Client!RunOut, Client!Running, Client!Next
<1>9. ASSUME FetchFails PROVE [Client!Next]_(Client!avars)
  BY <1>9, ClientFetchFails DEF Inductive, WorkerInvariant
<1>10. ASSUME Convert PROVE [Client!Next]_(Client!avars)
  BY <1>10 DEF Convert, Breaks, Goes, ticket, locals, scanner, Client!avars
<1>11. ASSUME Store PROVE [Client!Next]_(Client!avars)
  BY <1>11, ClientStores DEF Inductive, WorkerInvariant
<1>12. ASSUME Lookup PROVE [Client!Next]_(Client!avars)
  BY <1>12 DEF Lookup, Found, NotFound, LookupFails, Goes, ticket, locals, scanner,
     Client!avars
<1>13. ASSUME CancelJob PROVE [Client!Next]_(Client!avars)
  BY <1>13 DEF CancelJob, JobCanceled, CancelFails, Goes, ticket, locals, scanner,
     Client!avars
<1>14. ASSUME Finish PROVE [Client!Next]_(Client!avars)
  BY <1>14, ClientEnds DEF Inductive, WorkerInvariant, Client!Next
<1>15. ASSUME Cancel PROVE [Client!Next]_(Client!avars)
  BY <1>15 DEF Cancel, ticket, locals, scanner, Client!Cancel, Client!Running, Client!Next
<1>16. ASSUME ContextEnds PROVE [Client!Next]_(Client!avars)
  BY <1>16 DEF ContextEnds, ticket, locals, scanner, Client!avars
<1>17. ASSUME Crash PROVE [Client!Next]_(Client!avars)
  BY <1>17 DEF Crash, ticket, locals, scanner, Client!Die, Client!Next
<1>18. ASSUME OtherClient PROVE [Client!Next]_(Client!avars)
  BY <1>18 DEF OtherClient, Creates, OthersBusy, Unchanged, ticket, locals, scanner,
     Client!avars
<1>19. ASSUME FeederChanges PROVE [Client!Next]_(Client!avars)
  BY <1>19 DEF FeederChanges, Unchanged, ticket, locals, scanner, Client!avars
<1>20. ASSUME NEW r \in wire, LateCreate(r) PROVE [Client!Next]_(Client!avars)
  BY <1>20 DEF LateCreate, Creates, Unchanged, ticket, locals, scanner, Client!avars
<1>21. ASSUME NEW j \in active, JobExpires(j) PROVE [Client!Next]_(Client!avars)
  BY <1>21 DEF JobExpires, Unchanged, ticket, locals, scanner, Client!avars
<1>22. ASSUME UNCHANGED vars PROVE [Client!Next]_(Client!avars)
  BY <1>22 DEF vars, ticket, locals, scanner, Client!avars
<1> QED
  BY <1>1, <1>2, <1>3, <1>4, <1>5, <1>6, <1>7, <1>8, <1>9, <1>10, <1>11, <1>12, <1>13,
     <1>14, <1>15, <1>16, <1>17, <1>18, <1>19, <1>20, <1>21, <1>22
  DEF Next, Work, Surroundings

\* The conversation with a network scanner implements ClientJob, for any number of jobs,
\* pages and sheets.
THEOREM WorkerImplementsClientJob == Spec => ImplementsClientJob
<1>1. Init => Client!Init
  BY DEF Init, Client!Init
<1>2. Inductive /\ Inductive' /\ [Next]_vars => [Client!Next]_(Client!avars)
  BY ClientStep
<1>3. Spec => []Inductive
  BY InductiveInit, InductiveStep, PTL DEF Spec
<1> QED BY <1>1, <1>2, <1>3, PTL DEF Spec, ImplementsClientJob, Client!Spec
=============================================================================
