-------------------------- MODULE TimeConstraints --------------------------
(***************************************************************************)
(* The time windows of snooze filters and notifications                    *)
(* (internal/timeconstraints).  An instant is an integer on a clock with   *)
(* Day ticks a day and Minute ticks a minute, tick 0 a Sunday midnight in  *)
(* UTC; a zone is its offset in ticks.  A bound that is not given is Open. *)
(***************************************************************************)
EXTENDS Integers, Sequences

CONSTANTS Day, Minute

Open == <<>>
Given(b) == b # Open

--------------------------------------------------------------------------
(* Daily windows                                                           *)

Daytime(tick, zone) == [tick |-> tick, zone |-> zone]

\* parseDaytime of HH:MM: the first instant of that minute.
parseDaytime(minute, zone) == Daytime(minute * Minute, zone)

DateIn(t, zone) == (t + zone) \div Day

\* The instant at which the daytime falls on the calendar date of rd.
onDate(d, rd) == DateIn(rd, d.zone) * Day + d.tick - d.zone

intervalsToday(c, rd) ==
    LET from == onDate(c.from, rd)
        until == onDate(c.until, rd)
    IN  {<<from, IF until < from THEN until + Day ELSE until>>}

intervals(c, rd) ==
    LET from == onDate(c.from, rd)
        until == onDate(c.until, rd)
    IN  IF until < from THEN {<<from - Day, until>>, <<from, until + Day>>}
        ELSE {<<from, until>>}

TimeMatch(c, t) ==
    CASE Given(c.from) /\ Given(c.until) ->
             \E iv \in intervals(c, t) : iv[1] <= t /\ t <= iv[2]
      [] Given(c.from) /\ ~ Given(c.until) -> onDate(c.from, t) <= t
      [] ~ Given(c.from) /\ Given(c.until) -> t <= onDate(c.until, t)
      [] OTHER -> TRUE

--------------------------------------------------------------------------
(* Absolute windows and weekdays                                           *)

DateTimeMatch(c, t) ==
    CASE Given(c.from) /\ Given(c.until) -> c.from <= t /\ t <= c.until
      [] ~ Given(c.from) /\ Given(c.until) -> t <= c.until
      [] Given(c.from) /\ ~ Given(c.until) -> c.from <= t
      [] OTHER -> FALSE

\* The weekday is read in the zone the caller's instant carries.
WeekdaysMatch(days, t, zone) == DateIn(t, zone) % 7 \in days

--------------------------------------------------------------------------
(* A group: the families are conjoined, the members of one disjoined, and  *)
(* a family without members does not constrain.                            *)

anyMatch(cs, holds(_)) == \E c \in cs : holds(c)

GroupMatch(g, t, zone) ==
    LET dated(c) == DateTimeMatch(c, t)
        daily(c) == TimeMatch(c, t)
        weekly(ds) == WeekdaysMatch(ds, t, zone)
    IN  /\ g.datetime = {} \/ anyMatch(g.datetime, dated)
        /\ g.time = {} \/ anyMatch(g.time, daily)
        /\ g.weekdays = {} \/ anyMatch(g.weekdays, weekly)
=============================================================================
