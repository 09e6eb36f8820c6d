------------------------ MODULE SoaphtSessionProofs ------------------------
EXTENDS SoaphtSessionProps, TLAPS

LEMMA TypeInit == Init => TypeOK
<1> SUFFICES ASSUME Init PROVE TypeOK
  OBVIOUS
<1>1. FlagsOK
  BY DEF Init, FlagsOK
<1>2. CallOK
  BY SessionAssumption DEF Init, CallOK, Steps, Ending
<1>3. NumbersOK
  BY SessionAssumption DEF Init, NumbersOK, Broken
<1>4. JobSetsOK
  BY DEF Init, JobSetsOK
<1>5. PagesOK
  BY DEF Init, PagesOK
<1> QED
  BY <1>1, <1>2, <1>3, <1>4, <1>5 DEF TypeOK

LEMMA FlagsStep ==
  ASSUME TypeOK, [Next]_vars
  PROVE  FlagsOK'
<1> USE SessionAssumption DEF Steps, Ending, Broken
<1>0. FlagsOK /\ CallOK /\ NumbersOK /\ JobSetsOK /\ PagesOK
  BY DEF TypeOK
<1>1. CASE Open
  BY <1>0, <1>1 DEF FlagsOK, Open, Return, Fail, call, job, scanner, history
<1>2. CASE SetSource
  BY <1>0, <1>2 DEF FlagsOK, SetSource, Idle, call, job, scanner, history
<1>3. CASE Cancel
  BY <1>0, <1>3 DEF FlagsOK, Cancel, call, job, scanner, history
<1>4. CASE Start
  BY <1>0, <1>4 DEF FlagsOK, Start, Idle, Go, call, job, scanner, history
<1>5. CASE Read
  BY <1>0, <1>5 DEF FlagsOK, Read, Idle, Go, Fail, call, job, scanner, history
<1>6. CASE Close
  BY <1>0, <1>6 DEF FlagsOK, Close, Idle, Go, call, job, scanner, history
<1>7. CASE NothingToEnd
  BY <1>0, <1>7 DEF FlagsOK, NothingToEnd, Ending, AfterEnd, ForgetImage, Go, Fail, Return,
     call, job, scanner, history
<1>8. CASE CancelJob
  BY <1>0, <1>8 DEF FlagsOK, CancelJob, Ending, CancelAnswered, AfterEnd, ForgetImage, Go,
     Fail, Return, call, job, scanner, history
<1>9. CASE ClearFlag
  BY <1>0, <1>9 DEF FlagsOK, ClearFlag, PollsDue, Go, call, job, scanner, history
<1>10. CASE PaperFound
  BY <1>0, <1>10 DEF FlagsOK, PaperFound, PaperInADF, Sense, call, job, scanner, history
<1>11. CASE FeederEmpty
  BY <1>0, <1>11 DEF FlagsOK, FeederEmpty, Sense, Fail, call, job, scanner, history
<1>12. CASE PaperUnknown
  BY <1>0, <1>12 DEF FlagsOK, PaperUnknown, FailAs, Fail, call, job, scanner, history
<1>13. CASE BeginScan
  BY <1>0, <1>13 DEF FlagsOK, BeginScan, Reusable, BeforeCreate, Go, Fail, call, job,
     scanner, history
<1>14. CASE CreateRefused
  BY <1>0, <1>14 DEF FlagsOK, CreateRefused, FailAs, Fail, call, job, scanner, history
<1>15. CASE CreateLost
  BY <1>0, <1>15 DEF FlagsOK, CreateLost, NewJob, Fail, call, job, scanner, history
<1>16. CASE CreateAnswered
  BY <1>0, <1>16 DEF FlagsOK, CreateAnswered, NewJob, Go, call, job, scanner, history
<1>17. CASE Created
  BY <1>0, <1>17 DEF FlagsOK, Created, Go, Fail, call, job, scanner, history
<1>18. CASE OpenImage
  BY <1>0, <1>18 DEF FlagsOK, OpenImage, Go, Fail, call, job, scanner, history
<1>19. CASE FetchRefused
  BY <1>0, <1>19 DEF FlagsOK, FetchRefused, Fetchable, FailAs, Fail, call, job, scanner,
     history
<1>20. CASE RequestImage
  BY <1>0, <1>20 DEF FlagsOK, RequestImage, Fetchable, Go, Broken, call, job, scanner,
     history
<1>21. CASE ImageReceived
  BY <1>0, <1>21 DEF FlagsOK, ImageReceived, Go, FailAs, Fail, call, job, scanner, history
<1>22. CASE Decode
  BY <1>0, <1>22 DEF FlagsOK, Decode, Return, FailAs, Fail, call, job, scanner, history
<1>23. CASE MoreRows
  BY <1>0, <1>23 DEF FlagsOK, MoreRows, Return, Fail, call, job, scanner, history
<1>24. CASE PageDone
  BY <1>0, <1>24 DEF FlagsOK, PageDone, Return, Fail, call, job, scanner, history
<1>25. CASE ReadFailed
  BY <1>0, <1>25 DEF FlagsOK, ReadFailed, Fail, call, job, scanner, history
<1>26. CASE Free
  BY <1>0, <1>26 DEF FlagsOK, Free, Go, call, job, scanner, history
<1>27. CASE JobExpires
  BY <1>0, <1>27 DEF FlagsOK, JobExpires, call, job, scanner, history
<1>28. CASE UNCHANGED vars
  BY <1>0, <1>28 DEF FlagsOK, vars, call, job, scanner, history
<1>29. QED
  BY <1>1, <1>2, <1>3, <1>4, <1>5, <1>6, <1>7, <1>8, <1>9, <1>10, <1>11, <1>12, <1>13,
     <1>14, <1>15, <1>16, <1>17, <1>18, <1>19, <1>20, <1>21, <1>22, <1>23, <1>24, <1>25,
     <1>26, <1>27, <1>28 DEF Next, Step

LEMMA CallStep ==
  ASSUME TypeOK, [Next]_vars
  PROVE  CallOK'
<1> USE SessionAssumption DEF Steps, Ending, Broken
<1>0. FlagsOK /\ CallOK /\ NumbersOK /\ JobSetsOK /\ PagesOK
  BY DEF TypeOK
<1>1. CASE Open
  BY <1>0, <1>1 DEF CallOK, Open, Return, Fail, call, job, scanner, history
<1>2. CASE SetSource
  BY <1>0, <1>2 DEF CallOK, SetSource, Idle, call, job, scanner, history
<1>3. CASE Cancel
  BY <1>0, <1>3 DEF CallOK, Cancel, call, job, scanner, history
<1>4. CASE Start
  BY <1>0, <1>4 DEF CallOK, Start, Idle, Go, call, job, scanner, history
<1>5. CASE Read
  BY <1>0, <1>5 DEF CallOK, Read, Idle, Go, Fail, call, job, scanner, history
<1>6. CASE Close
  BY <1>0, <1>6 DEF CallOK, Close, Idle, Go, call, job, scanner, history
<1>7. CASE NothingToEnd
  BY <1>0, <1>7 DEF CallOK, NothingToEnd, Ending, AfterEnd, ForgetImage, Go, Fail, Return,
     call, job, scanner, history
<1>8. CASE CancelJob
  BY <1>0, <1>8 DEF CallOK, CancelJob, Ending, CancelAnswered, AfterEnd, ForgetImage, Go,
     Fail, Return, call, job, scanner, history
<1>9. CASE ClearFlag
  BY <1>0, <1>9 DEF CallOK, ClearFlag, PollsDue, Go, call, job, scanner, history
<1>10. CASE PaperFound
  BY <1>0, <1>10 DEF CallOK, PaperFound, PaperInADF, Sense, call, job, scanner, history
<1>11. CASE FeederEmpty
  BY <1>0, <1>11 DEF CallOK, FeederEmpty, Sense, Fail, call, job, scanner, history
<1>12. CASE PaperUnknown
  BY <1>0, <1>12 DEF CallOK, PaperUnknown, FailAs, Fail, call, job, scanner, history
<1>13. CASE BeginScan
  BY <1>0, <1>13 DEF CallOK, BeginScan, Reusable, BeforeCreate, Go, Fail, call, job,
     scanner, history
<1>14. CASE CreateRefused
  BY <1>0, <1>14 DEF CallOK, CreateRefused, FailAs, Fail, call, job, scanner, history
<1>15. CASE CreateLost
  BY <1>0, <1>15 DEF CallOK, CreateLost, NewJob, Fail, call, job, scanner, history
<1>16. CASE CreateAnswered
  BY <1>0, <1>16 DEF CallOK, CreateAnswered, NewJob, Go, call, job, scanner, history
<1>17. CASE Created
  BY <1>0, <1>17 DEF CallOK, Created, Go, Fail, call, job, scanner, history
<1>18. CASE OpenImage
  BY <1>0, <1>18 DEF CallOK, OpenImage, Go, Fail, call, job, scanner, history
<1>19. CASE FetchRefused
  BY <1>0, <1>19 DEF CallOK, FetchRefused, Fetchable, FailAs, Fail, call, job, scanner,
     history
<1>20. CASE RequestImage
  BY <1>0, <1>20 DEF CallOK, RequestImage, Fetchable, Go, Broken, call, job, scanner,
     history
<1>21. CASE ImageReceived
  BY <1>0, <1>21 DEF CallOK, ImageReceived, Go, FailAs, Fail, call, job, scanner, history
<1>22. CASE Decode
  BY <1>0, <1>22 DEF CallOK, Decode, Return, FailAs, Fail, call, job, scanner, history
<1>23. CASE MoreRows
  BY <1>0, <1>23 DEF CallOK, MoreRows, Return, Fail, call, job, scanner, history
<1>24. CASE PageDone
  BY <1>0, <1>24 DEF CallOK, PageDone, Return, Fail, call, job, scanner, history
<1>25. CASE ReadFailed
  BY <1>0, <1>25 DEF CallOK, ReadFailed, Fail, call, job, scanner, history
<1>26. CASE Free
  BY <1>0, <1>26 DEF CallOK, Free, Go, call, job, scanner, history
<1>27. CASE JobExpires
  BY <1>0, <1>27 DEF CallOK, JobExpires, call, job, scanner, history
<1>28. CASE UNCHANGED vars
  BY <1>0, <1>28 DEF CallOK, vars, call, job, scanner, history
<1>29. QED
  BY <1>1, <1>2, <1>3, <1>4, <1>5, <1>6, <1>7, <1>8, <1>9, <1>10, <1>11, <1>12, <1>13,
     <1>14, <1>15, <1>16, <1>17, <1>18, <1>19, <1>20, <1>21, <1>22, <1>23, <1>24, <1>25,
     <1>26, <1>27, <1>28 DEF Next, Step

LEMMA NumbersStep ==
  ASSUME TypeOK, [Next]_vars
  PROVE  NumbersOK'
<1> USE SessionAssumption DEF Steps, Ending, Broken
<1>0. FlagsOK /\ CallOK /\ NumbersOK /\ JobSetsOK /\ PagesOK
  BY DEF TypeOK
<1>1. CASE Open
  BY <1>0, <1>1 DEF NumbersOK, CallOK, Open, Return, Fail, call, job, scanner, history
<1>2. CASE SetSource
  BY <1>0, <1>2 DEF NumbersOK, CallOK, SetSource, Idle, call, job, scanner, history
<1>3. CASE Cancel
  BY <1>0, <1>3 DEF NumbersOK, CallOK, Cancel, call, job, scanner, history
<1>4. CASE Start
  BY <1>0, <1>4 DEF NumbersOK, CallOK, Start, Idle, Go, call, job, scanner, history
<1>5. CASE Read
  BY <1>0, <1>5 DEF NumbersOK, CallOK, Read, Idle, Go, Fail, call, job, scanner, history
<1>6. CASE Close
  BY <1>0, <1>6 DEF NumbersOK, CallOK, Close, Idle, Go, call, job, scanner, history
<1>7. CASE NothingToEnd
  BY <1>0, <1>7 DEF NumbersOK, CallOK, NothingToEnd, Ending, AfterEnd, ForgetImage, Go,
     Fail, Return, call, job, scanner, history
<1>8. CASE CancelJob
  <2>1. job_id' = 0 \/ job_id' = job_id
    BY <1>0, <1>8 DEF CancelJob, CancelAnswered
  <2>2. jpeg' = 0 /\ UNCHANGED <<reply, created, images, feeder, lag>>
    BY <1>0, <1>8 DEF CancelJob, ForgetImage
  <2>3. QED
    BY <1>0, <2>1, <2>2 DEF NumbersOK
<1>9. CASE ClearFlag
  BY <1>0, <1>9 DEF NumbersOK, CallOK, ClearFlag, PollsDue, Go, call, job, scanner, history
<1>10. CASE PaperFound
  BY <1>0, <1>10 DEF NumbersOK, CallOK, PaperFound, PaperInADF, Sense, call, job, scanner,
     history
<1>11. CASE FeederEmpty
  BY <1>0, <1>11 DEF NumbersOK, CallOK, FeederEmpty, Sense, Fail, call, job, scanner,
     history
<1>12. CASE PaperUnknown
  BY <1>0, <1>12 DEF NumbersOK, CallOK, PaperUnknown, FailAs, Fail, call, job, scanner,
     history
<1>13. CASE BeginScan
  BY <1>0, <1>13 DEF NumbersOK, CallOK, BeginScan, Reusable, BeforeCreate, Go, Fail, call,
     job, scanner, history
<1>14. CASE CreateRefused
  BY <1>0, <1>14 DEF NumbersOK, CallOK, CreateRefused, FailAs, Fail, call, job, scanner,
     history
<1>15. CASE CreateLost
  BY <1>0, <1>15 DEF NumbersOK, CallOK, CreateLost, NewJob, Fail, call, job, scanner,
     history
<1>16. CASE CreateAnswered
  BY <1>0, <1>16 DEF NumbersOK, CallOK, CreateAnswered, NewJob, Go, call, job, scanner,
     history
<1>17. CASE Created
  BY <1>0, <1>17 DEF NumbersOK, CallOK, Created, Go, Fail, call, job, scanner, history
<1>18. CASE OpenImage
  BY <1>0, <1>18 DEF NumbersOK, CallOK, OpenImage, Go, Fail, call, job, scanner, history
<1>19. CASE FetchRefused
  BY <1>0, <1>19 DEF NumbersOK, CallOK, FetchRefused, Fetchable, FailAs, Fail, call, job,
     scanner, history
<1>20. CASE RequestImage
  BY <1>0, <1>20 DEF NumbersOK, CallOK, RequestImage, Fetchable, Go, Broken, call, job,
     scanner, history
<1>21. CASE ImageReceived
  BY <1>0, <1>21 DEF NumbersOK, CallOK, ImageReceived, Go, FailAs, Fail, call, job, scanner,
     history
<1>22. CASE Decode
  BY <1>0, <1>22 DEF NumbersOK, CallOK, Decode, Return, FailAs, Fail, call, job, scanner,
     history
<1>23. CASE MoreRows
  BY <1>0, <1>23 DEF NumbersOK, CallOK, MoreRows, Return, Fail, call, job, scanner, history
<1>24. CASE PageDone
  BY <1>0, <1>24 DEF NumbersOK, CallOK, PageDone, Return, Fail, call, job, scanner, history
<1>25. CASE ReadFailed
  BY <1>0, <1>25 DEF NumbersOK, CallOK, ReadFailed, Fail, call, job, scanner, history
<1>26. CASE Free
  BY <1>0, <1>26 DEF NumbersOK, CallOK, Free, Go, call, job, scanner, history
<1>27. CASE JobExpires
  BY <1>0, <1>27 DEF NumbersOK, CallOK, JobExpires, call, job, scanner, history
<1>28. CASE UNCHANGED vars
  BY <1>0, <1>28 DEF NumbersOK, CallOK, vars, call, job, scanner, history
<1>29. QED
  BY <1>1, <1>2, <1>3, <1>4, <1>5, <1>6, <1>7, <1>8, <1>9, <1>10, <1>11, <1>12, <1>13,
     <1>14, <1>15, <1>16, <1>17, <1>18, <1>19, <1>20, <1>21, <1>22, <1>23, <1>24, <1>25,
     <1>26, <1>27, <1>28 DEF Next, Step

LEMMA JobSetsStep ==
  ASSUME TypeOK, [Next]_vars
  PROVE  JobSetsOK'
<1> USE SessionAssumption DEF Steps, Ending, Broken
<1>0. FlagsOK /\ CallOK /\ NumbersOK /\ JobSetsOK /\ PagesOK
  BY DEF TypeOK
<1>1. CASE Open
  BY <1>0, <1>1 DEF NumbersOK, JobSetsOK, Open, Return, Fail, call, job, scanner, history
<1>2. CASE SetSource
  BY <1>0, <1>2 DEF NumbersOK, JobSetsOK, SetSource, Idle, call, job, scanner, history
<1>3. CASE Cancel
  BY <1>0, <1>3 DEF NumbersOK, JobSetsOK, Cancel, call, job, scanner, history
<1>4. CASE Start
  BY <1>0, <1>4 DEF NumbersOK, JobSetsOK, Start, Idle, Go, call, job, scanner, history
<1>5. CASE Read
  BY <1>0, <1>5 DEF NumbersOK, JobSetsOK, Read, Idle, Go, Fail, call, job, scanner, history
<1>6. CASE Close
  BY <1>0, <1>6 DEF NumbersOK, JobSetsOK, Close, Idle, Go, call, job, scanner, history
<1>7. CASE NothingToEnd
  BY <1>0, <1>7 DEF NumbersOK, JobSetsOK, NothingToEnd, Ending, AfterEnd, ForgetImage, Go,
     Fail, Return, call, job, scanner, history
<1>8. CASE CancelJob
  BY <1>0, <1>8 DEF NumbersOK, JobSetsOK, CancelJob, Ending, CancelAnswered, AfterEnd,
     ForgetImage, Go, Fail, Return, call, job, scanner, history
<1>9. CASE ClearFlag
  BY <1>0, <1>9 DEF NumbersOK, JobSetsOK, ClearFlag, PollsDue, Go, call, job, scanner,
     history
<1>10. CASE PaperFound
  BY <1>0, <1>10 DEF NumbersOK, JobSetsOK, PaperFound, PaperInADF, Sense, call, job,
     scanner, history
<1>11. CASE FeederEmpty
  BY <1>0, <1>11 DEF NumbersOK, JobSetsOK, FeederEmpty, Sense, Fail, call, job, scanner,
     history
<1>12. CASE PaperUnknown
  BY <1>0, <1>12 DEF NumbersOK, JobSetsOK, PaperUnknown, FailAs, Fail, call, job, scanner,
     history
<1>13. CASE BeginScan
  BY <1>0, <1>13 DEF NumbersOK, JobSetsOK, BeginScan, Reusable, BeforeCreate, Go, Fail,
     call, job, scanner, history
<1>14. CASE CreateRefused
  BY <1>0, <1>14 DEF NumbersOK, JobSetsOK, CreateRefused, FailAs, Fail, call, job, scanner,
     history
<1>15. CASE CreateLost
  BY <1>0, <1>15 DEF NumbersOK, JobSetsOK, CreateLost, NewJob, Fail, call, job, scanner,
     history
<1>16. CASE CreateAnswered
  BY <1>0, <1>16 DEF NumbersOK, JobSetsOK, CreateAnswered, NewJob, Go, call, job, scanner,
     history
<1>17. CASE Created
  BY <1>0, <1>17 DEF NumbersOK, JobSetsOK, Created, Go, Fail, call, job, scanner, history
<1>18. CASE OpenImage
  BY <1>0, <1>18 DEF NumbersOK, JobSetsOK, OpenImage, Go, Fail, call, job, scanner, history
<1>19. CASE FetchRefused
  BY <1>0, <1>19 DEF NumbersOK, JobSetsOK, FetchRefused, Fetchable, FailAs, Fail, call, job,
     scanner, history
<1>20. CASE RequestImage
  BY <1>0, <1>20 DEF NumbersOK, JobSetsOK, RequestImage, Fetchable, Go, Broken, call, job,
     scanner, history
<1>21. CASE ImageReceived
  BY <1>0, <1>21 DEF NumbersOK, JobSetsOK, ImageReceived, Go, FailAs, Fail, call, job,
     scanner, history
<1>22. CASE Decode
  BY <1>0, <1>22 DEF NumbersOK, JobSetsOK, Decode, Return, FailAs, Fail, call, job, scanner,
     history
<1>23. CASE MoreRows
  BY <1>0, <1>23 DEF NumbersOK, JobSetsOK, MoreRows, Return, Fail, call, job, scanner,
     history
<1>24. CASE PageDone
  BY <1>0, <1>24 DEF NumbersOK, JobSetsOK, PageDone, Return, Fail, call, job, scanner,
     history
<1>25. CASE ReadFailed
  BY <1>0, <1>25 DEF NumbersOK, JobSetsOK, ReadFailed, Fail, call, job, scanner, history
<1>26. CASE Free
  BY <1>0, <1>26 DEF NumbersOK, JobSetsOK, Free, Go, call, job, scanner, history
<1>27. CASE JobExpires
  BY <1>0, <1>27 DEF NumbersOK, JobSetsOK, JobExpires, call, job, scanner, history
<1>28. CASE UNCHANGED vars
  BY <1>0, <1>28 DEF NumbersOK, JobSetsOK, vars, call, job, scanner, history
<1>29. QED
  BY <1>1, <1>2, <1>3, <1>4, <1>5, <1>6, <1>7, <1>8, <1>9, <1>10, <1>11, <1>12, <1>13,
     <1>14, <1>15, <1>16, <1>17, <1>18, <1>19, <1>20, <1>21, <1>22, <1>23, <1>24, <1>25,
     <1>26, <1>27, <1>28 DEF Next, Step

LEMMA PagesStep ==
  ASSUME TypeOK, [Next]_vars
  PROVE  PagesOK'
<1> USE SessionAssumption DEF Steps, Ending, Broken
<1>0. FlagsOK /\ CallOK /\ NumbersOK /\ JobSetsOK /\ PagesOK
  BY DEF TypeOK
<1>1. CASE Open
  BY <1>0, <1>1 DEF PagesOK, NumbersOK, Open, Return, Fail, call, job, scanner, history
<1>2. CASE SetSource
  BY <1>0, <1>2 DEF PagesOK, NumbersOK, SetSource, Idle, call, job, scanner, history
<1>3. CASE Cancel
  BY <1>0, <1>3 DEF PagesOK, NumbersOK, Cancel, call, job, scanner, history
<1>4. CASE Start
  BY <1>0, <1>4 DEF PagesOK, NumbersOK, Start, Idle, Go, call, job, scanner, history
<1>5. CASE Read
  BY <1>0, <1>5 DEF PagesOK, NumbersOK, Read, Idle, Go, Fail, call, job, scanner, history
<1>6. CASE Close
  BY <1>0, <1>6 DEF PagesOK, NumbersOK, Close, Idle, Go, call, job, scanner, history
<1>7. CASE NothingToEnd
  BY <1>0, <1>7 DEF PagesOK, NumbersOK, NothingToEnd, Ending, AfterEnd, ForgetImage, Go,
     Fail, Return, call, job, scanner, history
<1>8. CASE CancelJob
  BY <1>0, <1>8 DEF PagesOK, NumbersOK, CancelJob, Ending, CancelAnswered, AfterEnd,
     ForgetImage, Go, Fail, Return, call, job, scanner, history
<1>9. CASE ClearFlag
  BY <1>0, <1>9 DEF PagesOK, NumbersOK, ClearFlag, PollsDue, Go, call, job, scanner, history
<1>10. CASE PaperFound
  BY <1>0, <1>10 DEF PagesOK, NumbersOK, PaperFound, PaperInADF, Sense, call, job, scanner,
     history
<1>11. CASE FeederEmpty
  BY <1>0, <1>11 DEF PagesOK, NumbersOK, FeederEmpty, Sense, Fail, call, job, scanner,
     history
<1>12. CASE PaperUnknown
  BY <1>0, <1>12 DEF PagesOK, NumbersOK, PaperUnknown, FailAs, Fail, call, job, scanner,
     history
<1>13. CASE BeginScan
  BY <1>0, <1>13 DEF PagesOK, NumbersOK, BeginScan, Reusable, BeforeCreate, Go, Fail, call,
     job, scanner, history
<1>14. CASE CreateRefused
  BY <1>0, <1>14 DEF PagesOK, NumbersOK, CreateRefused, FailAs, Fail, call, job, scanner,
     history
<1>15. CASE CreateLost
  BY <1>0, <1>15 DEF PagesOK, NumbersOK, CreateLost, NewJob, Fail, call, job, scanner,
     history
<1>16. CASE CreateAnswered
  BY <1>0, <1>16 DEF PagesOK, NumbersOK, CreateAnswered, NewJob, Go, call, job, scanner,
     history
<1>17. CASE Created
  BY <1>0, <1>17 DEF PagesOK, NumbersOK, Created, Go, Fail, call, job, scanner, history
<1>18. CASE OpenImage
  BY <1>0, <1>18 DEF PagesOK, NumbersOK, OpenImage, Go, Fail, call, job, scanner, history
<1>19. CASE FetchRefused
  BY <1>0, <1>19 DEF PagesOK, NumbersOK, FetchRefused, Fetchable, FailAs, Fail, call, job,
     scanner, history
<1>20. CASE RequestImage
  BY <1>0, <1>20 DEF PagesOK, NumbersOK, RequestImage, Fetchable, Go, Broken, call, job,
     scanner, history
<1>21. CASE ImageReceived
  BY <1>0, <1>21 DEF PagesOK, NumbersOK, ImageReceived, Go, FailAs, Fail, call, job,
     scanner, history
<1>22. CASE Decode
  BY <1>0, <1>22 DEF PagesOK, NumbersOK, Decode, Return, FailAs, Fail, call, job, scanner,
     history
<1>23. CASE MoreRows
  BY <1>0, <1>23 DEF PagesOK, NumbersOK, MoreRows, Return, Fail, call, job, scanner, history
<1>24. CASE PageDone
  BY <1>0, <1>24 DEF PagesOK, NumbersOK, PageDone, Return, Fail, call, job, scanner, history
<1>25. CASE ReadFailed
  BY <1>0, <1>25 DEF PagesOK, NumbersOK, ReadFailed, Fail, call, job, scanner, history
<1>26. CASE Free
  BY <1>0, <1>26 DEF PagesOK, NumbersOK, Free, Go, call, job, scanner, history
<1>27. CASE JobExpires
  BY <1>0, <1>27 DEF PagesOK, NumbersOK, JobExpires, call, job, scanner, history
<1>28. CASE UNCHANGED vars
  BY <1>0, <1>28 DEF PagesOK, NumbersOK, vars, call, job, scanner, history
<1>29. QED
  BY <1>1, <1>2, <1>3, <1>4, <1>5, <1>6, <1>7, <1>8, <1>9, <1>10, <1>11, <1>12, <1>13,
     <1>14, <1>15, <1>16, <1>17, <1>18, <1>19, <1>20, <1>21, <1>22, <1>23, <1>24, <1>25,
     <1>26, <1>27, <1>28 DEF Next, Step

\* Every variable keeps its type.
THEOREM TypeCorrect == Spec => []TypeOK
<1>1. TypeOK /\ [Next]_vars => TypeOK'
  BY FlagsStep, CallStep, NumbersStep, JobSetsStep, PagesStep DEF TypeOK
<1>2. QED
  BY TypeInit, <1>1, PTL DEF Spec

-----------------------------------------------------------------------------
(* Whose job is it *)

Owned == Ownership /\ JobsAccounted /\ RetrieveReady /\ FailedCallDropsJob

LEMMA OwnedInit == Init => Owned
  BY DEF Init, Owned, Ownership, JobsAccounted, RetrieveReady, FailedCallDropsJob, Known,
     Fetchable

LEMMA OwnershipStep ==
  ASSUME TypeOK, Owned, [Next]_vars
  PROVE  Ownership'
<1> USE DEF Ending
<1>0. FlagsOK /\ CallOK /\ Ownership /\ JobsAccounted /\ RetrieveReady /\ FailedCallDropsJob
  BY DEF TypeOK, Owned
<1>1. CASE Open
  BY <1>0, <1>1 DEF FlagsOK, Ownership, Fetchable, Open, Return, Fail, call, job, scanner,
     history
<1>2. CASE SetSource
  BY <1>0, <1>2 DEF FlagsOK, Ownership, Fetchable, SetSource, Idle, call, job, scanner,
     history
<1>3. CASE Cancel
  BY <1>0, <1>3 DEF FlagsOK, Ownership, Fetchable, Cancel, call, job, scanner, history
<1>4. CASE Start
  BY <1>0, <1>4 DEF FlagsOK, Ownership, Fetchable, Start, Idle, Go, call, job, scanner,
     history
<1>5. CASE Read
  BY <1>0, <1>5 DEF FlagsOK, Ownership, Fetchable, Read, Idle, Go, Fail, call, job, scanner,
     history
<1>6. CASE Close
  BY <1>0, <1>6 DEF FlagsOK, Ownership, Fetchable, Close, Idle, Go, call, job, scanner,
     history
<1>7. CASE NothingToEnd
  BY <1>0, <1>7 DEF FlagsOK, Ownership, Fetchable, NothingToEnd, Ending, AfterEnd,
     ForgetImage, Go, Fail, Return, call, job, scanner, history
<1>8. CASE CancelJob
  BY <1>0, <1>8 DEF FlagsOK, Ownership, Fetchable, CancelJob, Ending, CancelAnswered,
     AfterEnd, ForgetImage, Go, Fail, Return, call, job, scanner, history
<1>9. CASE ClearFlag
  BY <1>0, <1>9 DEF FlagsOK, Ownership, Fetchable, ClearFlag, PollsDue, Go, call, job,
     scanner, history
<1>10. CASE PaperFound
  BY <1>0, <1>10 DEF FlagsOK, Ownership, Fetchable, PaperFound, PaperInADF, Sense, call,
     job, scanner, history
<1>11. CASE FeederEmpty
  BY <1>0, <1>11 DEF FlagsOK, Ownership, Fetchable, FeederEmpty, Sense, Fail, call, job,
     scanner, history
<1>12. CASE PaperUnknown
  BY <1>0, <1>12 DEF FlagsOK, Ownership, Fetchable, PaperUnknown, FailAs, Fail, call, job,
     scanner, history
<1>13. CASE BeginScan
  BY <1>0, <1>13 DEF FlagsOK, Ownership, Fetchable, BeginScan, Reusable, BeforeCreate, Go,
     Fail, call, job, scanner, history
<1>14. CASE CreateRefused
  BY <1>0, <1>14 DEF FlagsOK, Ownership, Fetchable, CreateRefused, FailAs, Fail, call, job,
     scanner, history
<1>15. CASE CreateLost
  BY <1>0, <1>15 DEF FlagsOK, Ownership, Fetchable, CreateLost, NewJob, Fail, call, job,
     scanner, history
<1>16. CASE CreateAnswered
  BY <1>0, <1>16 DEF FlagsOK, Ownership, Fetchable, CreateAnswered, NewJob, Go, call, job,
     scanner, history
<1>17. CASE Created
  BY <1>0, <1>17 DEF FlagsOK, Ownership, Fetchable, Created, Go, Fail, call, job, scanner,
     history
<1>18. CASE OpenImage
  BY <1>0, <1>18 DEF FlagsOK, Ownership, Fetchable, OpenImage, Go, Fail, call, job, scanner,
     history
<1>19. CASE FetchRefused
  BY <1>0, <1>19 DEF FlagsOK, Ownership, Fetchable, FetchRefused, FailAs, Fail, call, job,
     scanner, history
<1>20. CASE RequestImage
  BY <1>0, <1>20 DEF FlagsOK, Ownership, Fetchable, RequestImage, Go, Broken, call, job,
     scanner, history
<1>21. CASE ImageReceived
  BY <1>0, <1>21 DEF FlagsOK, Ownership, Fetchable, ImageReceived, Go, FailAs, Fail, call,
     job, scanner, history
<1>22. CASE Decode
  BY <1>0, <1>22 DEF FlagsOK, Ownership, Fetchable, Decode, Return, FailAs, Fail, call, job,
     scanner, history
<1>23. CASE MoreRows
  BY <1>0, <1>23 DEF FlagsOK, Ownership, Fetchable, MoreRows, Return, Fail, call, job,
     scanner, history
<1>24. CASE PageDone
  BY <1>0, <1>24 DEF FlagsOK, Ownership, Fetchable, PageDone, Return, Fail, call, job,
     scanner, history
<1>25. CASE ReadFailed
  BY <1>0, <1>25 DEF FlagsOK, Ownership, Fetchable, ReadFailed, Fail, call, job, scanner,
     history
<1>26. CASE Free
  BY <1>0, <1>26 DEF FlagsOK, Ownership, Fetchable, Free, Go, call, job, scanner, history
<1>27. CASE JobExpires
  BY <1>0, <1>27 DEF FlagsOK, Ownership, Fetchable, JobExpires, call, job, scanner, history
<1>28. CASE UNCHANGED vars
  BY <1>0, <1>28 DEF FlagsOK, Ownership, Fetchable, vars, call, job, scanner, history
<1>29. QED
  BY <1>1, <1>2, <1>3, <1>4, <1>5, <1>6, <1>7, <1>8, <1>9, <1>10, <1>11, <1>12, <1>13,
     <1>14, <1>15, <1>16, <1>17, <1>18, <1>19, <1>20, <1>21, <1>22, <1>23, <1>24, <1>25,
     <1>26, <1>27, <1>28 DEF Next, Step

LEMMA JobsAccountedStep ==
  ASSUME TypeOK, Owned, [Next]_vars
  PROVE  JobsAccounted'
<1> USE DEF Ending
<1>0. FlagsOK /\ CallOK /\ Ownership /\ JobsAccounted /\ RetrieveReady /\ FailedCallDropsJob
  BY DEF TypeOK, Owned
<1>1. CASE Open
  BY <1>0, <1>1 DEF FlagsOK, JobsAccounted, Ownership, Known, Open, Return, Fail, call, job,
     scanner, history
<1>2. CASE SetSource
  BY <1>0, <1>2 DEF FlagsOK, JobsAccounted, Ownership, Known, SetSource, Idle, call, job,
     scanner, history
<1>3. CASE Cancel
  BY <1>0, <1>3 DEF FlagsOK, JobsAccounted, Ownership, Known, Cancel, call, job, scanner,
     history
<1>4. CASE Start
  BY <1>0, <1>4 DEF FlagsOK, JobsAccounted, Ownership, Known, Start, Idle, Go, call, job,
     scanner, history
<1>5. CASE Read
  BY <1>0, <1>5 DEF FlagsOK, JobsAccounted, Ownership, Known, Read, Idle, Go, Fail, call,
     job, scanner, history
<1>6. CASE Close
  BY <1>0, <1>6 DEF FlagsOK, JobsAccounted, Ownership, Known, Close, Idle, Go, call, job,
     scanner, history
<1>7. CASE NothingToEnd
  BY <1>0, <1>7 DEF FlagsOK, JobsAccounted, Ownership, Known, NothingToEnd, Ending,
     AfterEnd, ForgetImage, Go, Fail, Return, call, job, scanner, history
<1>8. CASE CancelJob
  BY <1>0, <1>8 DEF FlagsOK, JobsAccounted, Ownership, Known, CancelJob, Ending,
     CancelAnswered, AfterEnd, ForgetImage, Go, Fail, Return, call, job, scanner, history
<1>9. CASE ClearFlag
  BY <1>0, <1>9 DEF FlagsOK, JobsAccounted, Ownership, Known, ClearFlag, PollsDue, Go, call,
     job, scanner, history
<1>10. CASE PaperFound
  BY <1>0, <1>10 DEF FlagsOK, JobsAccounted, Ownership, Known, PaperFound, PaperInADF,
     Sense, call, job, scanner, history
<1>11. CASE FeederEmpty
  BY <1>0, <1>11 DEF FlagsOK, JobsAccounted, Ownership, Known, FeederEmpty, Sense, Fail,
     call, job, scanner, history
<1>12. CASE PaperUnknown
  BY <1>0, <1>12 DEF FlagsOK, JobsAccounted, Ownership, Known, PaperUnknown, FailAs, Fail,
     call, job, scanner, history
<1>13. CASE BeginScan
  BY <1>0, <1>13 DEF FlagsOK, JobsAccounted, Ownership, Known, BeginScan, Reusable,
     BeforeCreate, Go, Fail, call, job, scanner, history
<1>14. CASE CreateRefused
  BY <1>0, <1>14 DEF FlagsOK, JobsAccounted, Ownership, Known, CreateRefused, FailAs, Fail,
     call, job, scanner, history
<1>15. CASE CreateLost
  BY <1>0, <1>15 DEF FlagsOK, JobsAccounted, Ownership, Known, CreateLost, NewJob, Fail,
     call, job, scanner, history
<1>16. CASE CreateAnswered
  BY <1>0, <1>16 DEF FlagsOK, JobsAccounted, Ownership, Known, CreateAnswered, NewJob, Go,
     call, job, scanner, history
<1>17. CASE Created
  BY <1>0, <1>17 DEF FlagsOK, JobsAccounted, Ownership, Known, Created, Go, Fail, call, job,
     scanner, history
<1>18. CASE OpenImage
  BY <1>0, <1>18 DEF FlagsOK, JobsAccounted, Ownership, Known, OpenImage, Go, Fail, call,
     job, scanner, history
<1>19. CASE FetchRefused
  BY <1>0, <1>19 DEF FlagsOK, JobsAccounted, Ownership, Known, FetchRefused, Fetchable,
     FailAs, Fail, call, job, scanner, history
<1>20. CASE RequestImage
  BY <1>0, <1>20 DEF FlagsOK, JobsAccounted, Ownership, Known, RequestImage, Fetchable, Go,
     Broken, call, job, scanner, history
<1>21. CASE ImageReceived
  BY <1>0, <1>21 DEF FlagsOK, JobsAccounted, Ownership, Known, ImageReceived, Go, FailAs,
     Fail, call, job, scanner, history
<1>22. CASE Decode
  BY <1>0, <1>22 DEF FlagsOK, JobsAccounted, Ownership, Known, Decode, Return, FailAs, Fail,
     call, job, scanner, history
<1>23. CASE MoreRows
  BY <1>0, <1>23 DEF FlagsOK, JobsAccounted, Ownership, Known, MoreRows, Return, Fail, call,
     job, scanner, history
<1>24. CASE PageDone
  BY <1>0, <1>24 DEF FlagsOK, JobsAccounted, Ownership, Known, PageDone, Return, Fail, call,
     job, scanner, history
<1>25. CASE ReadFailed
  BY <1>0, <1>25 DEF FlagsOK, JobsAccounted, Ownership, Known, ReadFailed, Fail, call, job,
     scanner, history
<1>26. CASE Free
  BY <1>0, <1>26 DEF FlagsOK, JobsAccounted, Ownership, Known, Free, Go, call, job, scanner,
     history
<1>27. CASE JobExpires
  BY <1>0, <1>27 DEF FlagsOK, JobsAccounted, Ownership, Known, JobExpires, call, job,
     scanner, history
<1>28. CASE UNCHANGED vars
  BY <1>0, <1>28 DEF FlagsOK, JobsAccounted, Ownership, Known, vars, call, job, scanner,
     history
<1>29. QED
  BY <1>1, <1>2, <1>3, <1>4, <1>5, <1>6, <1>7, <1>8, <1>9, <1>10, <1>11, <1>12, <1>13,
     <1>14, <1>15, <1>16, <1>17, <1>18, <1>19, <1>20, <1>21, <1>22, <1>23, <1>24, <1>25,
     <1>26, <1>27, <1>28 DEF Next, Step

LEMMA RetrieveReadyStep ==
  ASSUME TypeOK, Owned, [Next]_vars
  PROVE  RetrieveReady'
<1> USE DEF Ending
<1>0. FlagsOK /\ CallOK /\ Ownership /\ JobsAccounted /\ RetrieveReady /\ FailedCallDropsJob
  BY DEF TypeOK, Owned
<1>1. CASE Open
  BY <1>0, <1>1 DEF FlagsOK, RetrieveReady, Ownership, Fetchable, Open, Return, Fail, call,
     job, scanner, history
<1>2. CASE SetSource
  BY <1>0, <1>2 DEF FlagsOK, RetrieveReady, Ownership, Fetchable, SetSource, Idle, call,
     job, scanner, history
<1>3. CASE Cancel
  BY <1>0, <1>3 DEF FlagsOK, RetrieveReady, Ownership, Fetchable, Cancel, call, job,
     scanner, history
<1>4. CASE Start
  BY <1>0, <1>4 DEF FlagsOK, RetrieveReady, Ownership, Fetchable, Start, Idle, Go, call,
     job, scanner, history
<1>5. CASE Read
  BY <1>0, <1>5 DEF FlagsOK, RetrieveReady, Ownership, Fetchable, Read, Idle, Go, Fail,
     call, job, scanner, history
<1>6. CASE Close
  BY <1>0, <1>6 DEF FlagsOK, RetrieveReady, Ownership, Fetchable, Close, Idle, Go, call,
     job, scanner, history
<1>7. CASE NothingToEnd
  BY <1>0, <1>7 DEF FlagsOK, RetrieveReady, Ownership, Fetchable, NothingToEnd, Ending,
     AfterEnd, ForgetImage, Go, Fail, Return, call, job, scanner, history
<1>8. CASE CancelJob
  BY <1>0, <1>8 DEF FlagsOK, RetrieveReady, Ownership, Fetchable, CancelJob, Ending,
     CancelAnswered, AfterEnd, ForgetImage, Go, Fail, Return, call, job, scanner, history
<1>9. CASE ClearFlag
  BY <1>0, <1>9 DEF FlagsOK, RetrieveReady, Ownership, Fetchable, ClearFlag, PollsDue, Go,
     call, job, scanner, history
<1>10. CASE PaperFound
  BY <1>0, <1>10 DEF FlagsOK, RetrieveReady, Ownership, Fetchable, PaperFound, PaperInADF,
     Sense, call, job, scanner, history
<1>11. CASE FeederEmpty
  BY <1>0, <1>11 DEF FlagsOK, RetrieveReady, Ownership, Fetchable, FeederEmpty, Sense, Fail,
     call, job, scanner, history
<1>12. CASE PaperUnknown
  BY <1>0, <1>12 DEF FlagsOK, RetrieveReady, Ownership, Fetchable, PaperUnknown, FailAs,
     Fail, call, job, scanner, history
<1>13. CASE BeginScan
  BY <1>0, <1>13 DEF FlagsOK, RetrieveReady, Ownership, Fetchable, BeginScan, Reusable,
     BeforeCreate, Go, Fail, call, job, scanner, history
<1>14. CASE CreateRefused
  BY <1>0, <1>14 DEF FlagsOK, RetrieveReady, Ownership, Fetchable, CreateRefused, FailAs,
     Fail, call, job, scanner, history
<1>15. CASE CreateLost
  BY <1>0, <1>15 DEF FlagsOK, RetrieveReady, Ownership, Fetchable, CreateLost, NewJob, Fail,
     call, job, scanner, history
<1>16. CASE CreateAnswered
  BY <1>0, <1>16 DEF FlagsOK, RetrieveReady, Ownership, Fetchable, CreateAnswered, NewJob,
     Go, call, job, scanner, history
<1>17. CASE Created
  BY <1>0, <1>17 DEF FlagsOK, RetrieveReady, Ownership, Fetchable, Created, Go, Fail, call,
     job, scanner, history
<1>18. CASE OpenImage
  BY <1>0, <1>18 DEF FlagsOK, RetrieveReady, Ownership, Fetchable, OpenImage, Go, Fail,
     call, job, scanner, history
<1>19. CASE FetchRefused
  BY <1>0, <1>19 DEF FlagsOK, RetrieveReady, Ownership, Fetchable, FetchRefused, FailAs,
     Fail, call, job, scanner, history
<1>20. CASE RequestImage
  BY <1>0, <1>20 DEF FlagsOK, RetrieveReady, Ownership, Fetchable, RequestImage, Go, Broken,
     call, job, scanner, history
<1>21. CASE ImageReceived
  BY <1>0, <1>21 DEF FlagsOK, RetrieveReady, Ownership, Fetchable, ImageReceived, Go,
     FailAs, Fail, call, job, scanner, history
<1>22. CASE Decode
  BY <1>0, <1>22 DEF FlagsOK, RetrieveReady, Ownership, Fetchable, Decode, Return, FailAs,
     Fail, call, job, scanner, history
<1>23. CASE MoreRows
  BY <1>0, <1>23 DEF FlagsOK, RetrieveReady, Ownership, Fetchable, MoreRows, Return, Fail,
     call, job, scanner, history
<1>24. CASE PageDone
  BY <1>0, <1>24 DEF FlagsOK, RetrieveReady, Ownership, Fetchable, PageDone, Return, Fail,
     call, job, scanner, history
<1>25. CASE ReadFailed
  BY <1>0, <1>25 DEF FlagsOK, RetrieveReady, Ownership, Fetchable, ReadFailed, Fail, call,
     job, scanner, history
<1>26. CASE Free
  BY <1>0, <1>26 DEF FlagsOK, RetrieveReady, Ownership, Fetchable, Free, Go, call, job,
     scanner, history
<1>27. CASE JobExpires
  BY <1>0, <1>27 DEF FlagsOK, RetrieveReady, Ownership, Fetchable, JobExpires, call, job,
     scanner, history
<1>28. CASE UNCHANGED vars
  BY <1>0, <1>28 DEF FlagsOK, RetrieveReady, Ownership, Fetchable, vars, call, job, scanner,
     history
<1>29. QED
  BY <1>1, <1>2, <1>3, <1>4, <1>5, <1>6, <1>7, <1>8, <1>9, <1>10, <1>11, <1>12, <1>13,
     <1>14, <1>15, <1>16, <1>17, <1>18, <1>19, <1>20, <1>21, <1>22, <1>23, <1>24, <1>25,
     <1>26, <1>27, <1>28 DEF Next, Step

LEMMA FailedCallDropsJobStep ==
  ASSUME TypeOK, Owned, [Next]_vars
  PROVE  FailedCallDropsJob'
<1> USE DEF Ending
<1>0. FlagsOK /\ CallOK /\ Ownership /\ JobsAccounted /\ RetrieveReady /\ FailedCallDropsJob
  BY DEF TypeOK, Owned
<1>1. CASE Open
  BY <1>0, <1>1 DEF FlagsOK, FailedCallDropsJob, Ownership, Fetchable, Open, Return, Fail,
     call, job, scanner, history
<1>2. CASE SetSource
  BY <1>0, <1>2 DEF FlagsOK, FailedCallDropsJob, Ownership, Fetchable, SetSource, Idle,
     call, job, scanner, history
<1>3. CASE Cancel
  BY <1>0, <1>3 DEF FlagsOK, FailedCallDropsJob, Ownership, Fetchable, Cancel, call, job,
     scanner, history
<1>4. CASE Start
  BY <1>0, <1>4 DEF FlagsOK, FailedCallDropsJob, Ownership, Fetchable, Start, Idle, Go,
     call, job, scanner, history
<1>5. CASE Read
  BY <1>0, <1>5 DEF FlagsOK, FailedCallDropsJob, Ownership, Fetchable, Read, Idle, Go, Fail,
     call, job, scanner, history
<1>6. CASE Close
  BY <1>0, <1>6 DEF FlagsOK, FailedCallDropsJob, Ownership, Fetchable, Close, Idle, Go,
     call, job, scanner, history
<1>7. CASE NothingToEnd
  BY <1>0, <1>7 DEF FlagsOK, FailedCallDropsJob, Ownership, Fetchable, NothingToEnd, Ending,
     AfterEnd, ForgetImage, Go, Fail, Return, call, job, scanner, history
<1>8. CASE CancelJob
  BY <1>0, <1>8 DEF FlagsOK, FailedCallDropsJob, Ownership, Fetchable, CancelJob, Ending,
     CancelAnswered, AfterEnd, ForgetImage, Go, Fail, Return, call, job, scanner, history
<1>9. CASE ClearFlag
  BY <1>0, <1>9 DEF FlagsOK, FailedCallDropsJob, Ownership, Fetchable, ClearFlag, PollsDue,
     Go, call, job, scanner, history
<1>10. CASE PaperFound
  BY <1>0, <1>10 DEF FlagsOK, FailedCallDropsJob, Ownership, Fetchable, PaperFound,
     PaperInADF, Sense, call, job, scanner, history
<1>11. CASE FeederEmpty
  BY <1>0, <1>11 DEF FlagsOK, FailedCallDropsJob, Ownership, Fetchable, FeederEmpty, Sense,
     Fail, call, job, scanner, history
<1>12. CASE PaperUnknown
  BY <1>0, <1>12 DEF FlagsOK, FailedCallDropsJob, Ownership, Fetchable, PaperUnknown,
     FailAs, Fail, call, job, scanner, history
<1>13. CASE BeginScan
  BY <1>0, <1>13 DEF FlagsOK, FailedCallDropsJob, Ownership, Fetchable, BeginScan, Reusable,
     BeforeCreate, Go, Fail, call, job, scanner, history
<1>14. CASE CreateRefused
  BY <1>0, <1>14 DEF FlagsOK, FailedCallDropsJob, Ownership, Fetchable, CreateRefused,
     FailAs, Fail, call, job, scanner, history
<1>15. CASE CreateLost
  BY <1>0, <1>15 DEF FlagsOK, FailedCallDropsJob, Ownership, Fetchable, CreateLost, NewJob,
     Fail, call, job, scanner, history
<1>16. CASE CreateAnswered
  BY <1>0, <1>16 DEF FlagsOK, FailedCallDropsJob, Ownership, Fetchable, CreateAnswered,
     NewJob, Go, call, job, scanner, history
<1>17. CASE Created
  BY <1>0, <1>17 DEF FlagsOK, FailedCallDropsJob, Ownership, Fetchable, Created, Go, Fail,
     call, job, scanner, history
<1>18. CASE OpenImage
  BY <1>0, <1>18 DEF FlagsOK, FailedCallDropsJob, Ownership, Fetchable, OpenImage, Go, Fail,
     call, job, scanner, history
<1>19. CASE FetchRefused
  BY <1>0, <1>19 DEF FlagsOK, FailedCallDropsJob, Ownership, Fetchable, FetchRefused,
     FailAs, Fail, call, job, scanner, history
<1>20. CASE RequestImage
  BY <1>0, <1>20 DEF FlagsOK, FailedCallDropsJob, Ownership, Fetchable, RequestImage, Go,
     Broken, call, job, scanner, history
<1>21. CASE ImageReceived
  BY <1>0, <1>21 DEF FlagsOK, FailedCallDropsJob, Ownership, Fetchable, ImageReceived, Go,
     FailAs, Fail, call, job, scanner, history
<1>22. CASE Decode
  BY <1>0, <1>22 DEF FlagsOK, FailedCallDropsJob, Ownership, Fetchable, Decode, Return,
     FailAs, Fail, call, job, scanner, history
<1>23. CASE MoreRows
  BY <1>0, <1>23 DEF FlagsOK, FailedCallDropsJob, Ownership, Fetchable, MoreRows, Return,
     Fail, call, job, scanner, history
<1>24. CASE PageDone
  BY <1>0, <1>24 DEF FlagsOK, FailedCallDropsJob, Ownership, Fetchable, PageDone, Return,
     Fail, call, job, scanner, history
<1>25. CASE ReadFailed
  BY <1>0, <1>25 DEF FlagsOK, FailedCallDropsJob, Ownership, Fetchable, ReadFailed, Fail,
     call, job, scanner, history
<1>26. CASE Free
  BY <1>0, <1>26 DEF FlagsOK, FailedCallDropsJob, Ownership, Fetchable, Free, Go, call, job,
     scanner, history
<1>27. CASE JobExpires
  BY <1>0, <1>27 DEF FlagsOK, FailedCallDropsJob, Ownership, Fetchable, JobExpires, call,
     job, scanner, history
<1>28. CASE UNCHANGED vars
  BY <1>0, <1>28 DEF FlagsOK, FailedCallDropsJob, Ownership, Fetchable, vars, call, job,
     scanner, history
<1>29. QED
  BY <1>1, <1>2, <1>3, <1>4, <1>5, <1>6, <1>7, <1>8, <1>9, <1>10, <1>11, <1>12, <1>13,
     <1>14, <1>15, <1>16, <1>17, <1>18, <1>19, <1>20, <1>21, <1>22, <1>23, <1>24, <1>25,
     <1>26, <1>27, <1>28 DEF Next, Step

\* The three ownership properties are invariants of the specification.
LEMMA OwnedCorrect == Spec => []Owned
<1>1. Owned /\ TypeOK /\ [Next]_vars => Owned'
  BY OwnershipStep, JobsAccountedStep, RetrieveReadyStep, FailedCallDropsJobStep DEF Owned
<1>2. QED
  BY OwnedInit, TypeCorrect, <1>1, PTL DEF Spec

\* Whatever the scanner answers or loses, no job it holds is forgotten before its
\* cancellation failed and the handle was closed.
THEOREM NoJobForgotten == Spec => []JobsAccounted
  BY OwnedCorrect, PTL DEF Owned

\* Images are fetched only under a live job with known geometry.
THEOREM FetchesAreReady == Spec => []RetrieveReady
  BY OwnedCorrect, PTL DEF Owned

\* Every failing call has ended its job, or marked it for the next one.
THEOREM FailuresCleanUp == Spec => []FailedCallDropsJob
  BY OwnedCorrect, PTL DEF Owned

-----------------------------------------------------------------------------
(* Is there a sheet *)

Fed == Settling /\ SheetForNextPage

LEMMA FedInit == Init => Fed
  BY DEF Init, Fed, Settling, SheetForNextPage, InBatch

LEMMA PageJobs ==
  ASSUME TypeOK
  PROVE  \A i \in 1..Len(pages) : pages[i].job \in Nat
<1> DEFINE Page == [job : 0..JobLimit, image : 0..ImageLimit]
<1>1. pages \in Seq(Page)
  BY DEF TypeOK, PagesOK
<1>2. \A p \in Page : p.job \in Nat
  BY SessionAssumption
<1> HIDE DEF Page
<1>3. \A i \in 1..Len(pages) : pages[i] \in Page
  BY <1>1
<1>4. QED
  BY <1>2, <1>3

LEMMA SettlingStep ==
  ASSUME TypeOK, Owned, Fed, [Next]_vars
  PROVE  Settling'
<1> USE SessionAssumption DEF Ending
<1>0. FlagsOK /\ CallOK /\ NumbersOK /\ PagesOK /\ Ownership /\ Settling
  BY DEF TypeOK, Owned, Fed
<1>1. CASE Open
  BY <1>0, <1>1 DEF Settling, InBatch, CallOK, NumbersOK, PagesOK, Open, Return, Fail, call,
     job, scanner, history
<1>2. CASE SetSource
  BY <1>0, <1>2 DEF Settling, InBatch, CallOK, NumbersOK, PagesOK, SetSource, Idle, call,
     job, scanner, history
<1>3. CASE Cancel
  BY <1>0, <1>3 DEF Settling, InBatch, CallOK, NumbersOK, PagesOK, Cancel, call, job,
     scanner, history
<1>4. CASE Start
  BY <1>0, <1>4 DEF Settling, InBatch, CallOK, NumbersOK, PagesOK, Start, Idle, Go, call,
     job, scanner, history
<1>5. CASE Read
  BY <1>0, <1>5 DEF Settling, InBatch, CallOK, NumbersOK, PagesOK, Read, Idle, Go, Fail,
     call, job, scanner, history
<1>6. CASE Close
  BY <1>0, <1>6 DEF Settling, InBatch, CallOK, NumbersOK, PagesOK, Close, Idle, Go, call,
     job, scanner, history
<1>7. CASE NothingToEnd
  BY <1>0, <1>7 DEF Settling, InBatch, CallOK, NumbersOK, PagesOK, NothingToEnd, Ending,
     AfterEnd, ForgetImage, Go, Fail, Return, call, job, scanner, history
<1>8. CASE CancelJob
  <2>1. job_id' \in {0, job_id}
    BY <1>8 DEF CancelJob, CancelAnswered
  <2>2. pc' \in {"clear", "create", "unwind", "idle", "free"}
    BY <1>8 DEF CancelJob, AfterEnd, Go, Fail, Return
  <2>3. UNCHANGED <<created, pages>>
    BY <1>8 DEF CancelJob
  <2>4. QED
    BY <1>0, <2>1, <2>2, <2>3 DEF Settling, NumbersOK
<1>9. CASE ClearFlag
  BY <1>0, <1>9 DEF Settling, InBatch, CallOK, NumbersOK, PagesOK, ClearFlag, PollsDue, Go,
     call, job, scanner, history
<1>10. CASE PaperFound
  BY <1>0, <1>10 DEF Settling, InBatch, CallOK, NumbersOK, PagesOK, PaperFound, PaperInADF,
     Sense, call, job, scanner, history
<1>11. CASE FeederEmpty
  BY <1>0, <1>11 DEF Settling, InBatch, CallOK, NumbersOK, PagesOK, FeederEmpty, Sense,
     Fail, call, job, scanner, history
<1>12. CASE PaperUnknown
  BY <1>0, <1>12 DEF Settling, InBatch, CallOK, NumbersOK, PagesOK, PaperUnknown, FailAs,
     Fail, call, job, scanner, history
<1>13. CASE BeginScan
  BY <1>0, <1>13 DEF Settling, InBatch, CallOK, NumbersOK, PagesOK, BeginScan, Reusable,
     BeforeCreate, Go, Fail, call, job, scanner, history
<1>14. CASE CreateRefused
  BY <1>0, <1>14 DEF Settling, InBatch, CallOK, NumbersOK, PagesOK, CreateRefused, FailAs,
     Fail, call, job, scanner, history
<1>15. CASE CreateLost
  <2>1. \A i \in 1..Len(pages) : pages[i].job \in Nat
    BY PageJobs
  <2>2. created' = created + 1 /\ job_id' = 0 /\ pc' = "unwind" /\ pages' = pages
    BY <1>15 DEF CreateLost, NewJob, Fail
  <2>3. QED
    BY <1>0, <2>1, <2>2 DEF Settling, NumbersOK
<1>16. CASE CreateAnswered
  <2>1. \A i \in 1..Len(pages) : pages[i].job \in Nat
    BY PageJobs
  <2>2. created' = created + 1 /\ job_id' = created + 1 /\ pc' = "created" /\ pages' = pages
    BY <1>16 DEF CreateAnswered, NewJob, Go, history
  <2>3. job_id' <= created' /\ \A i \in 1..Len(pages) : pages[i].job <= created'
    BY <1>0, <2>1, <2>2 DEF Settling, NumbersOK
  <2>4. \A i \in 1..Len(pages) : pages[i].job < job_id'
    BY <1>0, <2>1, <2>2 DEF Settling, NumbersOK
  <2>5. QED
    BY <2>2, <2>3, <2>4 DEF Settling
<1>17. CASE Created
  <2>1. pc = "created" /\ pc' \in {"abort", "header"}
    BY <1>17 DEF Created, Go, Fail
  <2>2. UNCHANGED <<created, pages, job_id, feeder>>
    BY <1>17 DEF Created, job, scanner, history
  <2>3. \A i \in 1..Len(pages) : pages[i].job # job_id
    BY <1>0, <2>1, PageJobs DEF Settling, NumbersOK
  <2>4. ~InBatch'
    BY <2>2, <2>3 DEF InBatch
  <2>5. QED
    BY <1>0, <2>1, <2>2, <2>4 DEF Settling
<1>18. CASE OpenImage
  BY <1>0, <1>18 DEF Settling, InBatch, CallOK, NumbersOK, PagesOK, OpenImage, Go, Fail,
     call, job, scanner, history
<1>19. CASE FetchRefused
  BY <1>0, <1>19 DEF Settling, InBatch, CallOK, NumbersOK, PagesOK, FetchRefused, Fetchable,
     FailAs, Fail, call, job, scanner, history
<1>20. CASE RequestImage
  BY <1>0, <1>20 DEF Settling, InBatch, CallOK, NumbersOK, PagesOK, RequestImage, Fetchable,
     Go, Broken, call, job, scanner, history
<1>21. CASE ImageReceived
  BY <1>0, <1>21 DEF Settling, InBatch, CallOK, NumbersOK, PagesOK, ImageReceived, Go,
     FailAs, Fail, call, job, scanner, history
<1>22. CASE Decode
  BY <1>0, <1>22 DEF Settling, InBatch, CallOK, NumbersOK, PagesOK, Decode, Return, FailAs,
     Fail, call, job, scanner, history
<1>23. CASE MoreRows
  BY <1>0, <1>23 DEF Settling, InBatch, CallOK, NumbersOK, PagesOK, MoreRows, Return, Fail,
     call, job, scanner, history
<1>24. CASE PageDone
  <2>1. created' = created /\ job_id' = job_id /\ pc' = "idle"
    BY <1>24 DEF PageDone, Return, Fail, scanner, job
  <2>2. DEFINE page == [job |-> job_id, image |-> jpeg]
  <2>3. pages' = Append(pages, page) /\ page.job = job_id
    BY <1>24 DEF PageDone
  <2>4. pages \in Seq([job : 0..JobLimit, image : 0..ImageLimit])
    BY <1>0 DEF PagesOK
  <2> HIDE DEF page
  <2>5. \A i \in 1..Len(pages') : (i \in 1..Len(pages) /\ pages'[i] = pages[i]) \/ pages'[i] = page
    BY <2>3, <2>4
  <2>6. \A i \in 1..Len(pages') : pages'[i].job <= created
    BY <1>0, <2>3, <2>5 DEF Settling
  <2>7. QED
    BY <1>0, <2>1, <2>6 DEF Settling
<1>25. CASE ReadFailed
  BY <1>0, <1>25 DEF Settling, InBatch, CallOK, NumbersOK, PagesOK, ReadFailed, Fail, call,
     job, scanner, history
<1>26. CASE Free
  BY <1>0, <1>26 DEF Settling, InBatch, CallOK, NumbersOK, PagesOK, Free, Go, call, job,
     scanner, history
<1>27. CASE JobExpires
  BY <1>0, <1>27 DEF Settling, InBatch, CallOK, NumbersOK, PagesOK, JobExpires, call, job,
     scanner, history
<1>28. CASE UNCHANGED vars
  BY <1>0, <1>28 DEF Settling, InBatch, CallOK, NumbersOK, PagesOK, vars, call, job,
     scanner, history
<1>29. QED
  BY <1>1, <1>2, <1>3, <1>4, <1>5, <1>6, <1>7, <1>8, <1>9, <1>10, <1>11, <1>12, <1>13,
     <1>14, <1>15, <1>16, <1>17, <1>18, <1>19, <1>20, <1>21, <1>22, <1>23, <1>24, <1>25,
     <1>26, <1>27, <1>28 DEF Next, Step

LEMMA SheetStep ==
  ASSUME TypeOK, Owned, Fed, [Next]_vars
  PROVE  SheetForNextPage'
<1> USE SessionAssumption DEF Ending
<1>0. PagesOK /\ Settling /\ SheetForNextPage
  BY DEF TypeOK, Fed
<1>1. CASE Open
  BY <1>0, <1>1 DEF SheetForNextPage, Settling, InBatch, Open, Return, Fail, call, job,
     scanner, history
<1>2. CASE SetSource
  BY <1>0, <1>2 DEF SheetForNextPage, Settling, InBatch, SetSource, Idle, call, job,
     scanner, history
<1>3. CASE Cancel
  BY <1>0, <1>3 DEF SheetForNextPage, Settling, InBatch, Cancel, call, job, scanner, history
<1>4. CASE Start
  BY <1>0, <1>4 DEF SheetForNextPage, Settling, InBatch, Start, Idle, Go, call, job,
     scanner, history
<1>5. CASE Read
  BY <1>0, <1>5 DEF SheetForNextPage, Settling, InBatch, Read, Idle, Go, Fail, call, job,
     scanner, history
<1>6. CASE Close
  BY <1>0, <1>6 DEF SheetForNextPage, Settling, InBatch, Close, Idle, Go, call, job,
     scanner, history
<1>7. CASE NothingToEnd
  BY <1>0, <1>7 DEF SheetForNextPage, Settling, InBatch, NothingToEnd, Ending, AfterEnd,
     ForgetImage, Go, Fail, Return, call, job, scanner, history
<1>8. CASE CancelJob
  BY <1>0, <1>8 DEF SheetForNextPage, Settling, InBatch, CancelJob, Ending, CancelAnswered,
     AfterEnd, ForgetImage, Go, Fail, Return, call, job, scanner, history
<1>9. CASE ClearFlag
  BY <1>0, <1>9 DEF SheetForNextPage, Settling, InBatch, ClearFlag, PollsDue, Go, call, job,
     scanner, history
<1>10. CASE PaperFound
  BY <1>0, <1>10 DEF SheetForNextPage, Settling, InBatch, PaperFound, PaperInADF, Sense,
     call, job, scanner, history
<1>11. CASE FeederEmpty
  BY <1>0, <1>11 DEF SheetForNextPage, Settling, InBatch, FeederEmpty, Sense, Fail, call,
     job, scanner, history
<1>12. CASE PaperUnknown
  BY <1>0, <1>12 DEF SheetForNextPage, Settling, InBatch, PaperUnknown, FailAs, Fail, call,
     job, scanner, history
<1>13. CASE BeginScan
  BY <1>0, <1>13 DEF SheetForNextPage, Settling, InBatch, BeginScan, Reusable, BeforeCreate,
     Go, Fail, call, job, scanner, history
<1>14. CASE CreateRefused
  BY <1>0, <1>14 DEF SheetForNextPage, Settling, InBatch, CreateRefused, FailAs, Fail, call,
     job, scanner, history
<1>15. CASE CreateLost
  BY <1>0, <1>15 DEF SheetForNextPage, Settling, InBatch, CreateLost, NewJob, Fail, call,
     job, scanner, history
<1>16. CASE CreateAnswered
  BY <1>0, <1>16 DEF SheetForNextPage, Settling, InBatch, CreateAnswered, NewJob, Go, call,
     job, scanner, history
<1>17. CASE Created
  BY <1>0, <1>17 DEF SheetForNextPage, Settling, InBatch, Created, Go, Fail, call, job,
     scanner, history
<1>18. CASE OpenImage
  BY <1>0, <1>18 DEF SheetForNextPage, Settling, InBatch, OpenImage, Go, Fail, call, job,
     scanner, history
<1>19. CASE FetchRefused
  BY <1>0, <1>19 DEF SheetForNextPage, Settling, InBatch, FetchRefused, Fetchable, FailAs,
     Fail, call, job, scanner, history
<1>20. CASE RequestImage
  BY <1>0, <1>20 DEF SheetForNextPage, Settling, InBatch, RequestImage, Fetchable, Go,
     Broken, call, job, scanner, history
<1>21. CASE ImageReceived
  BY <1>0, <1>21 DEF SheetForNextPage, Settling, InBatch, ImageReceived, Go, FailAs, Fail,
     call, job, scanner, history
<1>22. CASE Decode
  BY <1>0, <1>22 DEF SheetForNextPage, Settling, InBatch, Decode, Return, FailAs, Fail,
     call, job, scanner, history
<1>23. CASE MoreRows
  BY <1>0, <1>23 DEF SheetForNextPage, Settling, InBatch, MoreRows, Return, Fail, call, job,
     scanner, history
<1>24. CASE PageDone
  BY <1>0, <1>24 DEF SheetForNextPage, Settling, InBatch, PageDone, Return, Fail, call, job,
     scanner, history
<1>25. CASE ReadFailed
  BY <1>0, <1>25 DEF SheetForNextPage, Settling, InBatch, ReadFailed, Fail, call, job,
     scanner, history
<1>26. CASE Free
  BY <1>0, <1>26 DEF SheetForNextPage, Settling, InBatch, Free, Go, call, job, scanner,
     history
<1>27. CASE JobExpires
  BY <1>0, <1>27 DEF SheetForNextPage, Settling, InBatch, JobExpires, call, job, scanner,
     history
<1>28. CASE UNCHANGED vars
  BY <1>0, <1>28 DEF SheetForNextPage, Settling, InBatch, vars, call, job, scanner, history
<1>29. QED
  BY <1>1, <1>2, <1>3, <1>4, <1>5, <1>6, <1>7, <1>8, <1>9, <1>10, <1>11, <1>12, <1>13,
     <1>14, <1>15, <1>16, <1>17, <1>18, <1>19, <1>20, <1>21, <1>22, <1>23, <1>24, <1>25,
     <1>26, <1>27, <1>28 DEF Next, Step

LEMMA FedCorrect == Spec => []Fed
<1>1. Fed /\ Owned /\ TypeOK /\ [Next]_vars => Fed'
  BY SettlingStep, SheetStep DEF Fed
<1>2. QED
  BY FedInit, TypeCorrect, OwnedCorrect, <1>1, PTL DEF Spec

\* Within a batch an image is requested only while a sheet is left, for every number of
\* settling queries greater than the lag of the sensor.
THEOREM NoPhantomPage == Spec => []SheetForNextPage
  BY FedCorrect, PTL DEF Fed

-----------------------------------------------------------------------------
(* Are the images of a batch consecutive *)

Whole == Sequencing /\ GaplessBatch

LEMMA WholeInit == Init => Whole
  BY DEF Init, Whole, Sequencing, Converting, ImageIsLatest, InSequence, GaplessBatch,
     Fetchable

LEMMA ConvertingStep ==
  ASSUME TypeOK, Owned, Fed, Whole, [Next]_vars
  PROVE  Converting'
<1> USE SessionAssumption DEF Ending, Doomed
<1>0. FlagsOK /\ Ownership /\ RetrieveReady /\ Converting
  BY DEF TypeOK, Owned, Whole, Sequencing
<1>1. CASE Open
  BY <1>0, <1>1 DEF Converting, Ownership, RetrieveReady, Fetchable, FlagsOK, Open, Return,
     Fail, call, job, scanner, history
<1>2. CASE SetSource
  BY <1>0, <1>2 DEF Converting, Ownership, RetrieveReady, Fetchable, FlagsOK, SetSource,
     Idle, call, job, scanner, history
<1>3. CASE Cancel
  BY <1>0, <1>3 DEF Converting, Ownership, RetrieveReady, Fetchable, FlagsOK, Cancel, call,
     job, scanner, history
<1>4. CASE Start
  BY <1>0, <1>4 DEF Converting, Ownership, RetrieveReady, Fetchable, FlagsOK, Start, Idle,
     Go, call, job, scanner, history
<1>5. CASE Read
  BY <1>0, <1>5 DEF Converting, Ownership, RetrieveReady, Fetchable, FlagsOK, Read, Idle,
     Go, Fail, call, job, scanner, history
<1>6. CASE Close
  BY <1>0, <1>6 DEF Converting, Ownership, RetrieveReady, Fetchable, FlagsOK, Close, Idle,
     Go, call, job, scanner, history
<1>7. CASE NothingToEnd
  BY <1>0, <1>7 DEF Converting, Ownership, RetrieveReady, Fetchable, FlagsOK, NothingToEnd,
     Ending, AfterEnd, ForgetImage, Go, Fail, Return, call, job, scanner, history
<1>8. CASE CancelJob
  BY <1>0, <1>8 DEF Converting, Ownership, RetrieveReady, Fetchable, FlagsOK, CancelJob,
     Ending, CancelAnswered, AfterEnd, ForgetImage, Go, Fail, Return, call, job, scanner,
     history
<1>9. CASE ClearFlag
  BY <1>0, <1>9 DEF Converting, Ownership, RetrieveReady, Fetchable, FlagsOK, ClearFlag,
     PollsDue, Go, call, job, scanner, history
<1>10. CASE PaperFound
  BY <1>0, <1>10 DEF Converting, Ownership, RetrieveReady, Fetchable, FlagsOK, PaperFound,
     PaperInADF, Sense, call, job, scanner, history
<1>11. CASE FeederEmpty
  BY <1>0, <1>11 DEF Converting, Ownership, RetrieveReady, Fetchable, FlagsOK, FeederEmpty,
     Sense, Fail, call, job, scanner, history
<1>12. CASE PaperUnknown
  BY <1>0, <1>12 DEF Converting, Ownership, RetrieveReady, Fetchable, FlagsOK, PaperUnknown,
     FailAs, Fail, call, job, scanner, history
<1>13. CASE BeginScan
  BY <1>0, <1>13 DEF Converting, Ownership, RetrieveReady, Fetchable, FlagsOK, BeginScan,
     Reusable, BeforeCreate, Go, Fail, call, job, scanner, history
<1>14. CASE CreateRefused
  BY <1>0, <1>14 DEF Converting, Ownership, RetrieveReady, Fetchable, FlagsOK,
     CreateRefused, FailAs, Fail, call, job, scanner, history
<1>15. CASE CreateLost
  BY <1>0, <1>15 DEF Converting, Ownership, RetrieveReady, Fetchable, FlagsOK, CreateLost,
     NewJob, Fail, call, job, scanner, history
<1>16. CASE CreateAnswered
  BY <1>0, <1>16 DEF Converting, Ownership, RetrieveReady, Fetchable, FlagsOK,
     CreateAnswered, NewJob, Go, call, job, scanner, history
<1>17. CASE Created
  BY <1>0, <1>17 DEF Converting, Ownership, RetrieveReady, Fetchable, FlagsOK, Created, Go,
     Fail, call, job, scanner, history
<1>18. CASE OpenImage
  BY <1>0, <1>18 DEF Converting, Ownership, RetrieveReady, Fetchable, FlagsOK, OpenImage,
     Go, Fail, call, job, scanner, history
<1>19. CASE FetchRefused
  BY <1>0, <1>19 DEF Converting, Ownership, RetrieveReady, Fetchable, FlagsOK, FetchRefused,
     FailAs, Fail, call, job, scanner, history
<1>20. CASE RequestImage
  BY <1>0, <1>20 DEF Converting, Ownership, RetrieveReady, Fetchable, FlagsOK, RequestImage,
     Go, Broken, call, job, scanner, history
<1>21. CASE ImageReceived
  <2>1. pc = "reply" /\ UNCHANGED <<job_active, cancel_pending>>
    BY <1>21 DEF ImageReceived, job
  <2>2. \/ reply \in 1..ImageLimit /\ jpeg' = reply /\ pc' = "decode" /\ ip' = ip
        \/ pc' = "abort" /\ ip' = FALSE
    BY <1>21 DEF ImageReceived, Go, FailAs, Fail
  <2>3. reply \in 1..ImageLimit => reply # 0
    OBVIOUS
  <2>4. QED
    BY <1>0, <2>1, <2>2, <2>3 DEF Converting, RetrieveReady, Fetchable, FlagsOK
<1>22. CASE Decode
  BY <1>0, <1>22 DEF Converting, Ownership, RetrieveReady, Fetchable, FlagsOK, Decode,
     Return, FailAs, Fail, call, job, scanner, history
<1>23. CASE MoreRows
  BY <1>0, <1>23 DEF Converting, Ownership, RetrieveReady, Fetchable, FlagsOK, MoreRows,
     Return, Fail, call, job, scanner, history
<1>24. CASE PageDone
  BY <1>0, <1>24 DEF Converting, Ownership, RetrieveReady, Fetchable, FlagsOK, PageDone,
     Return, Fail, call, job, scanner, history
<1>25. CASE ReadFailed
  BY <1>0, <1>25 DEF Converting, Ownership, RetrieveReady, Fetchable, FlagsOK, ReadFailed,
     Fail, call, job, scanner, history
<1>26. CASE Free
  BY <1>0, <1>26 DEF Converting, Ownership, RetrieveReady, Fetchable, FlagsOK, Free, Go,
     call, job, scanner, history
<1>27. CASE JobExpires
  BY <1>0, <1>27 DEF Converting, Ownership, RetrieveReady, Fetchable, FlagsOK, JobExpires,
     call, job, scanner, history
<1>28. CASE UNCHANGED vars
  BY <1>0, <1>28 DEF Converting, Ownership, RetrieveReady, Fetchable, FlagsOK, vars, call,
     job, scanner, history
<1>29. QED
  BY <1>1, <1>2, <1>3, <1>4, <1>5, <1>6, <1>7, <1>8, <1>9, <1>10, <1>11, <1>12, <1>13,
     <1>14, <1>15, <1>16, <1>17, <1>18, <1>19, <1>20, <1>21, <1>22, <1>23, <1>24, <1>25,
     <1>26, <1>27, <1>28 DEF Next, Step

LEMMA ImageStep ==
  ASSUME TypeOK, Owned, Fed, Whole, [Next]_vars
  PROVE  ImageIsLatest'
<1> USE SessionAssumption DEF Ending, Doomed
<1>0. NumbersOK /\ Converting /\ ImageIsLatest
  BY DEF TypeOK, Whole, Sequencing
<1>1. CASE Open
  BY <1>0, <1>1 DEF ImageIsLatest, Converting, NumbersOK, Broken, Open, Return, Fail, call,
     job, scanner, history
<1>2. CASE SetSource
  BY <1>0, <1>2 DEF ImageIsLatest, Converting, NumbersOK, Broken, SetSource, Idle, call,
     job, scanner, history
<1>3. CASE Cancel
  BY <1>0, <1>3 DEF ImageIsLatest, Converting, NumbersOK, Broken, Cancel, call, job,
     scanner, history
<1>4. CASE Start
  BY <1>0, <1>4 DEF ImageIsLatest, Converting, NumbersOK, Broken, Start, Idle, Go, call,
     job, scanner, history
<1>5. CASE Read
  BY <1>0, <1>5 DEF ImageIsLatest, Converting, NumbersOK, Broken, Read, Idle, Go, Fail,
     call, job, scanner, history
<1>6. CASE Close
  BY <1>0, <1>6 DEF ImageIsLatest, Converting, NumbersOK, Broken, Close, Idle, Go, call,
     job, scanner, history
<1>7. CASE NothingToEnd
  BY <1>0, <1>7 DEF ImageIsLatest, Converting, NumbersOK, Broken, NothingToEnd, Ending,
     AfterEnd, ForgetImage, Go, Fail, Return, call, job, scanner, history
<1>8. CASE CancelJob
  BY <1>0, <1>8 DEF ImageIsLatest, Converting, NumbersOK, Broken, CancelJob, Ending,
     CancelAnswered, AfterEnd, ForgetImage, Go, Fail, Return, call, job, scanner, history
<1>9. CASE ClearFlag
  BY <1>0, <1>9 DEF ImageIsLatest, Converting, NumbersOK, Broken, ClearFlag, PollsDue, Go,
     call, job, scanner, history
<1>10. CASE PaperFound
  BY <1>0, <1>10 DEF ImageIsLatest, Converting, NumbersOK, Broken, PaperFound, PaperInADF,
     Sense, call, job, scanner, history
<1>11. CASE FeederEmpty
  BY <1>0, <1>11 DEF ImageIsLatest, Converting, NumbersOK, Broken, FeederEmpty, Sense, Fail,
     call, job, scanner, history
<1>12. CASE PaperUnknown
  BY <1>0, <1>12 DEF ImageIsLatest, Converting, NumbersOK, Broken, PaperUnknown, FailAs,
     Fail, call, job, scanner, history
<1>13. CASE BeginScan
  BY <1>0, <1>13 DEF ImageIsLatest, Converting, NumbersOK, Broken, BeginScan, Reusable,
     BeforeCreate, Go, Fail, call, job, scanner, history
<1>14. CASE CreateRefused
  BY <1>0, <1>14 DEF ImageIsLatest, Converting, NumbersOK, Broken, CreateRefused, FailAs,
     Fail, call, job, scanner, history
<1>15. CASE CreateLost
  BY <1>0, <1>15 DEF ImageIsLatest, Converting, NumbersOK, Broken, CreateLost, NewJob, Fail,
     call, job, scanner, history
<1>16. CASE CreateAnswered
  BY <1>0, <1>16 DEF ImageIsLatest, Converting, NumbersOK, Broken, CreateAnswered, NewJob,
     Go, call, job, scanner, history
<1>17. CASE Created
  BY <1>0, <1>17 DEF ImageIsLatest, Converting, NumbersOK, Broken, Created, Go, Fail, call,
     job, scanner, history
<1>18. CASE OpenImage
  BY <1>0, <1>18 DEF ImageIsLatest, Converting, NumbersOK, Broken, OpenImage, Go, Fail,
     call, job, scanner, history
<1>19. CASE FetchRefused
  BY <1>0, <1>19 DEF ImageIsLatest, Converting, NumbersOK, Broken, FetchRefused, Fetchable,
     FailAs, Fail, call, job, scanner, history
<1>20. CASE RequestImage
  BY <1>0, <1>20 DEF ImageIsLatest, Converting, NumbersOK, Broken, RequestImage, Fetchable,
     Go, call, job, scanner, history
<1>21. CASE ImageReceived
  <2>1. pc = "reply" /\ UNCHANGED <<images, pages, job_id, job_active, cancel_pending>>
    BY <1>21 DEF ImageReceived, job, scanner, history
  <2>2. \/ reply \in 1..ImageLimit /\ jpeg' = reply /\ pc' = "decode"
        \/ pc' = "abort"
    BY <1>21 DEF ImageReceived, Go, FailAs, Fail
  <2>3. QED
    BY <1>0, <2>1, <2>2 DEF ImageIsLatest, NumbersOK, Broken
<1>22. CASE Decode
  BY <1>0, <1>22 DEF ImageIsLatest, Converting, NumbersOK, Broken, Decode, Return, FailAs,
     Fail, call, job, scanner, history
<1>23. CASE MoreRows
  BY <1>0, <1>23 DEF ImageIsLatest, Converting, NumbersOK, Broken, MoreRows, Return, Fail,
     call, job, scanner, history
<1>24. CASE PageDone
  BY <1>0, <1>24 DEF ImageIsLatest, Converting, NumbersOK, Broken, PageDone, Return, Fail,
     call, job, scanner, history
<1>25. CASE ReadFailed
  BY <1>0, <1>25 DEF ImageIsLatest, Converting, NumbersOK, Broken, ReadFailed, Fail, call,
     job, scanner, history
<1>26. CASE Free
  BY <1>0, <1>26 DEF ImageIsLatest, Converting, NumbersOK, Broken, Free, Go, call, job,
     scanner, history
<1>27. CASE JobExpires
  BY <1>0, <1>27 DEF ImageIsLatest, Converting, NumbersOK, Broken, JobExpires, call, job,
     scanner, history
<1>28. CASE UNCHANGED vars
  BY <1>0, <1>28 DEF ImageIsLatest, Converting, NumbersOK, Broken, vars, call, job, scanner,
     history
<1>29. QED
  BY <1>1, <1>2, <1>3, <1>4, <1>5, <1>6, <1>7, <1>8, <1>9, <1>10, <1>11, <1>12, <1>13,
     <1>14, <1>15, <1>16, <1>17, <1>18, <1>19, <1>20, <1>21, <1>22, <1>23, <1>24, <1>25,
     <1>26, <1>27, <1>28 DEF Next, Step

LEMMA InSequenceStep ==
  ASSUME TypeOK, Owned, Fed, Whole, [Next]_vars
  PROVE  InSequence'
<1> USE SessionAssumption DEF Ending, Doomed
<1>0. NumbersOK /\ PagesOK /\ Ownership /\ Settling /\ Converting /\ ImageIsLatest /\ InSequence
  BY DEF TypeOK, Owned, Fed, Whole, Sequencing
<1>1. CASE Open
  BY <1>0, <1>1 DEF InSequence, Converting, ImageIsLatest, Last, Fetchable, NumbersOK,
     Broken, Open, Return, Fail, call, job, scanner, history
<1>2. CASE SetSource
  BY <1>0, <1>2 DEF InSequence, Converting, ImageIsLatest, Last, Fetchable, NumbersOK,
     Broken, SetSource, Idle, call, job, scanner, history
<1>3. CASE Cancel
  BY <1>0, <1>3 DEF InSequence, Converting, ImageIsLatest, Last, Fetchable, NumbersOK,
     Broken, Cancel, call, job, scanner, history
<1>4. CASE Start
  BY <1>0, <1>4 DEF InSequence, Converting, ImageIsLatest, Last, Fetchable, NumbersOK,
     Broken, Start, Idle, Go, call, job, scanner, history
<1>5. CASE Read
  BY <1>0, <1>5 DEF InSequence, Converting, ImageIsLatest, Last, Fetchable, NumbersOK,
     Broken, Read, Idle, Go, Fail, call, job, scanner, history
<1>6. CASE Close
  BY <1>0, <1>6 DEF InSequence, Converting, ImageIsLatest, Last, Fetchable, NumbersOK,
     Broken, Close, Idle, Go, call, job, scanner, history
<1>7. CASE NothingToEnd
  BY <1>0, <1>7 DEF InSequence, Converting, ImageIsLatest, Last, Fetchable, NumbersOK,
     Broken, NothingToEnd, Ending, AfterEnd, ForgetImage, Go, Fail, Return, call, job,
     scanner, history
<1>8. CASE CancelJob
  BY <1>0, <1>8 DEF InSequence, Converting, ImageIsLatest, Last, Fetchable, NumbersOK,
     Broken, CancelJob, Ending, CancelAnswered, AfterEnd, ForgetImage, Go, Fail, Return,
     call, job, scanner, history
<1>9. CASE ClearFlag
  BY <1>0, <1>9 DEF InSequence, Converting, ImageIsLatest, Last, Fetchable, NumbersOK,
     Broken, ClearFlag, PollsDue, Go, call, job, scanner, history
<1>10. CASE PaperFound
  BY <1>0, <1>10 DEF InSequence, Converting, ImageIsLatest, Last, Fetchable, NumbersOK,
     Broken, PaperFound, PaperInADF, Sense, call, job, scanner, history
<1>11. CASE FeederEmpty
  BY <1>0, <1>11 DEF InSequence, Converting, ImageIsLatest, Last, Fetchable, NumbersOK,
     Broken, FeederEmpty, Sense, Fail, call, job, scanner, history
<1>12. CASE PaperUnknown
  BY <1>0, <1>12 DEF InSequence, Converting, ImageIsLatest, Last, Fetchable, NumbersOK,
     Broken, PaperUnknown, FailAs, Fail, call, job, scanner, history
<1>13. CASE BeginScan
  BY <1>0, <1>13 DEF InSequence, Converting, ImageIsLatest, Last, Fetchable, NumbersOK,
     Broken, BeginScan, Reusable, BeforeCreate, Go, Fail, call, job, scanner, history
<1>14. CASE CreateRefused
  BY <1>0, <1>14 DEF InSequence, Converting, ImageIsLatest, Last, Fetchable, NumbersOK,
     Broken, CreateRefused, FailAs, Fail, call, job, scanner, history
<1>15. CASE CreateLost
  BY <1>0, <1>15 DEF InSequence, Converting, ImageIsLatest, Last, Fetchable, NumbersOK,
     Broken, CreateLost, NewJob, Fail, call, job, scanner, history
<1>16. CASE CreateAnswered
  <2>1. job_id' = created + 1 /\ UNCHANGED pages
    BY <1>16 DEF CreateAnswered, history
  <2>2. ASSUME pages # <<>>
        PROVE  Last.job # created + 1
    <3>1. Len(pages) \in 1..Len(pages)
      BY <1>0, <2>2 DEF PagesOK
    <3>2. Last.job <= created /\ Last.job \in Nat
      BY <1>0, <3>1, PageJobs DEF Settling, Last
    <3>3. QED
      BY <1>0, <3>2 DEF NumbersOK
  <2>3. QED
    BY <2>1, <2>2 DEF InSequence, Last
<1>17. CASE Created
  BY <1>0, <1>17 DEF InSequence, Converting, ImageIsLatest, Last, Fetchable, NumbersOK,
     Broken, Created, Go, Fail, call, job, scanner, history
<1>18. CASE OpenImage
  BY <1>0, <1>18 DEF InSequence, Converting, ImageIsLatest, Last, Fetchable, NumbersOK,
     Broken, OpenImage, Go, Fail, call, job, scanner, history
<1>19. CASE FetchRefused
  BY <1>0, <1>19 DEF InSequence, Converting, ImageIsLatest, Last, Fetchable, NumbersOK,
     Broken, FetchRefused, FailAs, Fail, call, job, scanner, history
<1>20. CASE RequestImage
  BY <1>0, <1>20 DEF InSequence, Converting, ImageIsLatest, Last, Fetchable, NumbersOK,
     Broken, RequestImage, Go, call, job, scanner, history
<1>21. CASE ImageReceived
  <2>1. pc = "reply" /\ UNCHANGED <<images, pages, job_id, job_active, cancel_pending>>
    BY <1>21 DEF ImageReceived, job, scanner, history
  <2>2. \/ reply \in 1..ImageLimit /\ jpeg' = reply /\ pc' = "decode"
        \/ pc' = "abort"
    BY <1>21 DEF ImageReceived, Go, FailAs, Fail
  <2>3. QED
    BY <1>0, <2>1, <2>2 DEF InSequence, ImageIsLatest, Converting, Last, Fetchable,
       NumbersOK, Broken
<1>22. CASE Decode
  BY <1>0, <1>22 DEF InSequence, Converting, ImageIsLatest, Last, Fetchable, NumbersOK,
     Broken, Decode, Return, FailAs, Fail, call, job, scanner, history
<1>23. CASE MoreRows
  BY <1>0, <1>23 DEF InSequence, Converting, ImageIsLatest, Last, Fetchable, NumbersOK,
     Broken, MoreRows, Return, Fail, call, job, scanner, history
<1>24. CASE PageDone
  <2>1. pages' = Append(pages, [job |-> job_id, image |-> jpeg])
    BY <1>24 DEF PageDone
  <2>2. Last'.image = jpeg
    <3> DEFINE page == [job |-> job_id, image |-> jpeg]
    <3>1. page.image = jpeg /\ pages' = Append(pages, page)
      BY <2>1
    <3>2. pages \in Seq([job : 0..JobLimit, image : 0..ImageLimit])
      BY <1>0 DEF PagesOK
    <3> HIDE DEF page
    <3>3. pages'[Len(pages')] = page
      BY <3>1, <3>2
    <3>4. QED
      BY <3>1, <3>3 DEF Last
  <2>3. jpeg' = 0 /\ UNCHANGED images /\ pc = "read" /\ pc' = "idle"
    BY <1>24 DEF PageDone, Return, Fail, scanner
  <2>4. jpeg # 0 => jpeg = images
    BY <1>0, <2>3 DEF ImageIsLatest
  <2>5. jpeg # 0
    BY <1>0, <2>3 DEF Converting
  <2>6. QED
    BY <2>2, <2>3, <2>4, <2>5 DEF InSequence
<1>25. CASE ReadFailed
  BY <1>0, <1>25 DEF InSequence, Converting, ImageIsLatest, Last, Fetchable, NumbersOK,
     Broken, ReadFailed, Fail, call, job, scanner, history
<1>26. CASE Free
  BY <1>0, <1>26 DEF InSequence, Converting, ImageIsLatest, Last, Fetchable, NumbersOK,
     Broken, Free, Go, call, job, scanner, history
<1>27. CASE JobExpires
  BY <1>0, <1>27 DEF InSequence, Converting, ImageIsLatest, Last, Fetchable, NumbersOK,
     Broken, JobExpires, call, job, scanner, history
<1>28. CASE UNCHANGED vars
  BY <1>0, <1>28 DEF InSequence, Converting, ImageIsLatest, Last, Fetchable, NumbersOK,
     Broken, vars, call, job, scanner, history
<1>29. QED
  BY <1>1, <1>2, <1>3, <1>4, <1>5, <1>6, <1>7, <1>8, <1>9, <1>10, <1>11, <1>12, <1>13,
     <1>14, <1>15, <1>16, <1>17, <1>18, <1>19, <1>20, <1>21, <1>22, <1>23, <1>24, <1>25,
     <1>26, <1>27, <1>28 DEF Next, Step

LEMMA GaplessStep ==
  ASSUME TypeOK, Owned, Whole, [Next]_vars
  PROVE  GaplessBatch'
<1>0. NumbersOK /\ PagesOK /\ RetrieveReady /\ Converting /\ ImageIsLatest /\ InSequence /\ GaplessBatch
  BY DEF TypeOK, Owned, Whole, Sequencing
<1>1. CASE PageDone
  <2> DEFINE page == [job |-> job_id, image |-> jpeg]
  <2>1. pages' = Append(pages, page) /\ page.job = job_id /\ page.image = jpeg
    BY <1>1 DEF PageDone
  <2>2. pc = "read" /\ ip /\ Fetchable
    BY <1>0, <1>1 DEF PageDone, Converting
  <2>3. jpeg # 0 /\ jpeg = images
    BY <1>0, <2>2 DEF Converting, ImageIsLatest, Doomed
  <2>4. pages # <<>> /\ Last.job = job_id => jpeg = Last.image + 1
    BY <1>0, <2>2, <2>3 DEF InSequence, Doomed
  <2>5. pages \in Seq([job : 0..JobLimit, image : 0..ImageLimit])
    BY <1>0 DEF PagesOK
  <2> HIDE DEF page
  <2>6. ASSUME NEW i \in 1..Len(pages') - 1, pages'[i].job = pages'[i + 1].job
        PROVE  pages'[i + 1].image = pages'[i].image + 1
    <3>1. Len(pages') = Len(pages) + 1 /\ Len(pages) \in Nat
      BY <2>1, <2>5
    <3>2. CASE i = Len(pages)
      <4>1. pages # <<>> /\ pages'[i] = Last /\ pages'[i + 1] = page
        BY <2>1, <2>5, <3>1, <3>2 DEF Last
      <4>2. QED
        BY <2>1, <2>4, <2>6, <4>1
    <3>3. CASE i # Len(pages)
      <4>1. i \in 1..Len(pages) - 1 /\ pages'[i] = pages[i] /\ pages'[i + 1] = pages[i + 1]
        BY <2>1, <2>5, <3>1, <3>3
      <4>2. QED
        BY <1>0, <2>6, <4>1 DEF GaplessBatch
    <3>4. QED
      BY <3>2, <3>3
  <2>7. QED
    BY <2>6 DEF GaplessBatch
<1>2. CASE ~PageDone
  <2>1. pages' = pages
    BY <1>2 DEF Next, Step, vars, call, job, scanner, history, Open, SetSource, Cancel,
       Start, Read,
         Close, NothingToEnd, CancelJob, ClearFlag, PaperFound, FeederEmpty, PaperUnknown,
         BeginScan, CreateRefused, CreateLost, CreateAnswered, Created, OpenImage,
         FetchRefused, RequestImage, ImageReceived, Decode, MoreRows, ReadFailed, Free,
         JobExpires
  <2>2. QED
    BY <1>0, <2>1 DEF GaplessBatch
<1>3. QED
  BY <1>1, <1>2

\* However pages fail, are canceled or get lost, the pages delivered under one JobId are
\* consecutive images of the scanner.
THEOREM BatchesAreGapless == Spec => []GaplessBatch
<1>1. Whole /\ Fed /\ Owned /\ TypeOK /\ [Next]_vars => Whole'
  BY ConvertingStep, ImageStep, InSequenceStep, GaplessStep DEF Whole, Sequencing
<1>2. Whole => GaplessBatch
  BY DEF Whole
<1>3. QED
  BY WholeInit, TypeCorrect, OwnedCorrect, FedCorrect, <1>1, <1>2, PTL DEF Spec
=============================================================================
