---------------------------- MODULE MCSchedules ----------------------------
(* Small instances of Schedules for TLC. *)
EXTENDS Schedules, TLC

CONSTANTS k1, k2, p1, p2, h1, e1, EveryMinute, EverySecond, OnCall

TwoProcesses == {p1, p2}
OneProcess == {p1}
OneHook == {h1}
OneEditor == {e1}

\* Every minute, every second minute, or on a call.
TwoCrons == {EveryMinute, EverySecond, OnCall}
NextMinute == [t \in Timings |-> [n \in Clock |->
    IF t = EverySecond THEN n + 2 - (n % 2) ELSE n + 1]]

Retitle == [timing |-> Same, enabled |-> Same]
Pause == [timing |-> Same, enabled |-> FALSE]

\* A cron job whose title is edited, and another or a webhook job that is
\* paused, or deleted with its conversation or without.
TwoJobs == {k1, k2}
MixedTimings == (k1 :> {EveryMinute}) @@ (k2 :> {EverySecond, OnCall})
MixedEdits == (k1 :> {Retitle}) @@ (k2 :> {Pause})
SecondJob == {k2}

\* One cron job that is paused.
OneCron == {k1}
OneTiming == k1 :> {EveryMinute}
PauseIt == k1 :> {Pause}
Nothing == {}
=============================================================================
