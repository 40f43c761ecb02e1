\* Two processes, a cron job and a cron or webhook job, an edit, and an error or a crash.
CONSTANTS
    k1 = k1  k2 = k2  p1 = p1  p2 = p2  h1 = h1  e1 = e1  e2 = e2
    EveryMinute = EveryMinute  EverySecond = EverySecond  OnCall = OnCall
    Same = Same  Never = Never  NoRow = NoRow  Nobody = Nobody
    Schedules <- TwoJobs
    Processes <- TwoProcesses
    Hooks <- OneHook
    Editors <- OneEditor
    Timings <- TwoCrons
    Webhook <- OnCall
    NextOf <- NextMinute
    TimingsOf <- MixedTimings
    EditsOf <- MixedEdits
    Removable <- SecondJob
    Slow = FALSE
    MaxTime = 2
    MaxEdits = 1
    MaxFaults = 1
SPECIFICATION FairRecordedSpec
INVARIANTS TypeOK OneRunPerOccurrence FollowsRequests
PROPERTIES CatchesUpOnce DueScheduleFires
CHECK_DEADLOCK FALSE
