------------------------- MODULE MCScheduleRequests -------------------------
(* A small instance of ScheduleRequests for TLC. *)
EXTENDS MCSchedules, ScheduleRequests

CONSTANTS e2

TwoEditors == {e1, e2}

\* One job that is retitled, paused, resumed or made a webhook job.
AnyTiming == k1 :> {EveryMinute, OnCall}
AnyEdit == k1 :> {Retitle, Pause, [Retitle EXCEPT !.enabled = TRUE], [Retitle EXCEPT !.timing = OnCall]}
=============================================================================
