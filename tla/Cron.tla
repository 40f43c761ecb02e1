-------------------------------- MODULE Cron --------------------------------
(***************************************************************************)
(* Cron expressions (services/api/src/schedules/cron.ts): five fields of    *)
(* segments, the values each selects, and the first minute after a given    *)
(* one that they all select in the schedule's time zone.  An expression is  *)
(* a function from the fields to sequences of segments; a segment has a     *)
(* base, <<>> for a star, <<v>> for a value and <<from, to>> for a range,   *)
(* and a step, 0 when none is written.  Names of months and days are the    *)
(* numbers they stand for.                                                  *)
(***************************************************************************)
EXTENDS Integers, Sequences, FiniteSets

CONSTANTS Bounds,    \* the least and the greatest value of each field
          Local,     \* what the clock of the time zone shows in each minute, one value per field
          Horizon    \* how many minutes the search goes on

Fields == {"minute", "hour", "day", "month", "weekday"}
Least(f) == Bounds[f][1]
Greatest(f) == Bounds[f][2]
Star == <<>>
Expressions == [Fields -> Seq([base : Seq(Int), step : Nat])]

ASSUME FieldsAssumption ==
    /\ DOMAIN Bounds = Fields
    /\ \A f \in Fields : Least(f) \in Int /\ Greatest(f) \in Int /\ Least(f) <= Greatest(f)

\* A clock shows what a field may hold, and a Sunday as 0.
ASSUME ClockAssumption ==
    \A m \in DOMAIN Local :
        /\ \A f \in Fields : Local[m][f] \in Least(f)..Greatest(f)
        /\ Local[m]["weekday"] # 7

ASSUME HorizonAssumption == Horizon \in Nat

StepOf(seg) == IF seg.step = 0 THEN 1 ELSE seg.step
Start(f, seg) == IF seg.base = Star THEN Least(f) ELSE seg.base[1]
End(f, seg) ==
    CASE seg.base = Star -> Greatest(f)
      [] Len(seg.base) = 2 -> seg.base[2]
      \* a value with a step goes on to the end
      [] Len(seg.base) = 1 -> IF seg.step = 0 THEN seg.base[1] ELSE Greatest(f)

SegmentIsValid(f, seg) ==
    /\ StepOf(seg) \in 1..(Greatest(f) - Least(f) + 1)
    /\ \A i \in DOMAIN seg.base : seg.base[i] \in Least(f)..Greatest(f)
    /\ Len(seg.base) = 2 => seg.base[1] <= seg.base[2]

Segments(e, f) == {e[f][i] : i \in DOMAIN e[f]}
IsValid(e) == \A f \in Fields : e[f] # <<>> /\ \A seg \in Segments(e, f) : SegmentIsValid(f, seg)

\* Sunday is 0, and may be written 7.
Selected(e, f) ==
    LET chosen == UNION {{v \in Start(f, seg)..End(f, seg) : (v - Start(f, seg)) % StepOf(seg) = 0} :
                            seg \in Segments(e, f)}
    IN IF f = "weekday" THEN {IF v = 7 THEN 0 ELSE v : v \in chosen} ELSE chosen

\* A field that is a star, or begins with a star and a step.
Wildcard(e, f) ==
    /\ e[f][1].base = Star
    /\ e[f][1].step # 0 \/ Len(e[f]) = 1

Matches(e, f, minute) == Local[minute][f] \in Selected(e, f)

DayMatches(e, minute) ==
    CASE Wildcard(e, "day") -> Matches(e, "weekday", minute)
      [] ~Wildcard(e, "day") /\ Wildcard(e, "weekday") -> Matches(e, "day", minute)
      [] OTHER -> Matches(e, "day", minute) \/ Matches(e, "weekday", minute)

Occurs(e, minute) ==
    /\ \A f \in {"minute", "hour", "month"} : Matches(e, f, minute)
    /\ DayMatches(e, minute)

\* The minutes that are tried, and the first of them in which the expression occurs.
FromNow(after) == after..(after + Horizon)
Tried(after) == (after + 1)..(after + 1 + Horizon)
Occurrences(e, after) == {m \in Tried(after) : Occurs(e, m)}
HasOccurrence(e, after) == IsValid(e) /\ Occurrences(e, after) # {}
NextCronOccurrence(e, after) ==
    CHOOSE m \in Occurrences(e, after) : \A n \in Occurrences(e, after) : m <= n
=============================================================================
