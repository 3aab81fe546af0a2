------------------------------ MODULE Crontab ------------------------------
(***************************************************************************)
(* The plan of the day: modules/public/Crontab.lua over core/base/         *)
(* Timer.lua.  The events of a day that are still to come are sorted into  *)
(* a plan that ends with midnight.  RunNext raises what is due and starts  *)
(* a one-shot timer for the next entry; at midnight it makes a new plan.   *)
(*                                                                         *)
(* RunNext reads the time of day in whole seconds (os.time), the timer     *)
(* counts in milliseconds from Timer.now, the time at which the frame      *)
(* began: other callbacks of the frame and the loading of the scripts run  *)
(* between the two.                                                        *)
(*                                                                         *)
(* Time is counted in ticks; a second, a minute and a day have a few of    *)
(* them each.  An occurrence of an event is the minute it is planned for.  *)
(* Listeners are external and taken not to fail; a hot update, which calls *)
(* Init again, is left out.                                                *)
(***************************************************************************)
EXTENDS Integers, FiniteSets

CONSTANTS
  CronMinutes, \* minutes of a day at which events are configured (CrontabConfig)
  Tick,        \* ticks of a second
  Second,      \* seconds of a minute
  Minute,      \* minutes of a day
  MaxClock,    \* bound: ticks of a run
  MaxLoad      \* bound: ticks between the loading of Timer.lua and Crontab.Init

ASSUME CrontabAssumption ==
  /\ Tick \in Nat \ {0} /\ Second \in Nat \ {0} /\ Minute \in Nat \ {0}
  /\ CronMinutes \subseteq 0 .. Minute - 1 /\ MaxLoad \in Nat
  /\ MaxClock \in Nat /\ MaxClock >= Tick * Second * Minute

VARIABLES
  clock,       \* the time
  timerNow,    \* Timer.now
  dayPlan,     \* DayPlan from DayPlanPtr on: the minutes of its entries
  midnight,    \* the last entry of the plan (evId 0)
  dayRunTimer, \* nextCall of DayRunTimer
  timerRuns,   \* it is in timerList
  calling,     \* whether RunNext is called, by its timer or by who made the plan
  raised,      \* history: times each occurrence was raised
  bootMinute,  \* history: the minute of Crontab.Init
  overslept    \* history: RunNext was called a minute, less a second, too late or with a
               \* Timer.now that old, or midnight came between BuildDayPlan and it

planVars == <<dayPlan, midnight>>
cronVars ==
  <<clock, timerNow, planVars, dayRunTimer, timerRuns, calling, raised, bootMinute, overslept>>

OsTime    == clock \div Tick
MinuteNow == OsTime \div Second
Minutes   == 0 .. MaxClock \div (Tick * Second)
-----------------------------------------------------------------------------
\* getTimeByStr("24:00:00").
NextMidnight == (MinuteNow \div Minute + 1) * Minute

Planned(m) == m >= MinuteNow

\* BuildDayPlan.
DayPlan ==
  {m \in NextMidnight - Minute .. NextMidnight - 1 :
     m % Minute \in CronMinutes /\ Planned(m)} \cup {NextMidnight}

CronInit ==
  /\ clock \in 0 .. Tick * Second * Minute - 1
  /\ timerNow \in {t \in 0 .. clock : clock - t <= MaxLoad}
  /\ dayPlan = DayPlan /\ midnight = NextMidnight
  /\ dayRunTimer = clock /\ timerRuns = FALSE /\ calling = "built"
  /\ raised = [m \in Minutes |-> 0] /\ bootMinute = MinuteNow /\ overslept = FALSE

Elapse ==
  /\ clock < MaxClock
  /\ clock' = clock + 1
  /\ UNCHANGED <<timerNow, planVars, dayRunTimer, timerRuns, calling, raised, bootMinute,
                 overslept>>

\* TimerDispatch; the timer has one call left and is stopped after it.
TimerDispatch ==
  /\ calling = "no"
  /\ timerNow' = clock
  /\ LET fires == timerRuns /\ dayRunTimer <= clock
     IN  /\ calling' = IF fires THEN "timer" ELSE "no"
         /\ timerRuns' = (timerRuns /\ ~fires)
  /\ UNCHANGED <<clock, planVars, dayRunTimer, raised, bootMinute, overslept>>

\* The timer is set from Timer.now for a time that RunNext reads off the clock.
Late == \/ calling = "timer" /\ clock - dayRunTimer >= Tick * (Second - 1)
        \/ /\ calling = "built"
           /\ MinuteNow >= midnight \/ clock - timerNow >= Tick * (Second - 1)

\* Mutant: RunNext does not call itself.
RebuildOnly ==
  /\ calling # "no" /\ dayPlan = {midnight}
  /\ dayPlan' = DayPlan /\ midnight' = NextMidnight
  /\ calling' = "no" /\ overslept' = (overslept \/ Late)
  /\ UNCHANGED <<clock, timerNow, dayRunTimer, timerRuns, raised, bootMinute>>

\* RunNext at an entry of evId 0, which calls itself.
Rebuild ==
  /\ calling # "no" /\ dayPlan = {midnight}
  /\ dayPlan' = DayPlan /\ midnight' = NextMidnight
  /\ calling' = "built" /\ overslept' = (overslept \/ Late)
  /\ UNCHANGED <<clock, timerNow, dayRunTimer, timerRuns, raised, bootMinute>>

Due == {m \in dayPlan : m <= MinuteNow}

\* RunNext at another entry.
RunNext ==
  /\ calling # "no" /\ dayPlan # {midnight} /\ midnight \notin Due
  /\ dayPlan' = dayPlan \ Due
  /\ LET next == CHOOSE m \in dayPlan' : \A k \in dayPlan' : m <= k
     IN  dayRunTimer' = timerNow + (next * Second - OsTime) * Tick
  /\ timerRuns' = TRUE /\ calling' = "no"
  /\ raised' = [m \in Minutes |-> IF m \in Due THEN raised[m] + 1 ELSE raised[m]]
  /\ overslept' = (overslept \/ Late)
  /\ UNCHANGED <<clock, timerNow, midnight, bootMinute>>

\* RunNext when midnight is due too: the entry after it is nil, and the assertion ends the plan.
RunPastMidnight ==
  /\ calling # "no" /\ dayPlan # {midnight} /\ midnight \in Due
  /\ dayPlan' = {} /\ calling' = "no"
  /\ overslept' = (overslept \/ Late)
  /\ UNCHANGED <<clock, timerNow, midnight, dayRunTimer, timerRuns, raised, bootMinute>>

CronNext == Elapse \/ TimerDispatch \/ Rebuild \/ RunNext \/ RunPastMidnight

CronSpec == CronInit /\ [][CronNext]_cronVars
-----------------------------------------------------------------------------
(* The type invariant.                                                     *)
CronTypeOK ==
  /\ clock \in 0 .. MaxClock /\ timerNow \in 0 .. clock
  /\ dayPlan \subseteq Nat /\ midnight \in Nat /\ dayRunTimer \in Nat
  /\ timerRuns \in BOOLEAN /\ calling \in {"no", "timer", "built"} /\ overslept \in BOOLEAN
  /\ raised \in [Minutes -> Nat] /\ bootMinute \in Minutes

(* The plan of the day is kept through stale clocks and midnights: unless  *)
(* RunNext was called a minute late, or with a Timer.now as old, so that   *)
(* the timer it sets or the midnight it looks for is in the past           *)
(* (Crontab.lua:27), the events of every minute that is over are raised,   *)
(* only those of the last minute of a day are ever raised again (by a      *)
(* RunNext that runs before midnight, as the clocks allow), and the timer  *)
(* is there and late by less than a second.                                *)
PlanKept ==
  ~overslept =>
    /\ \A m \in Minutes : raised[m] > 1 => (m + 1) % Minute = 0
    /\ \A m \in bootMinute .. midnight - 1 :
         m % Minute \in CronMinutes /\ m \notin dayPlan => m \in Minutes /\ raised[m] > 0
    /\ calling = "no" => timerRuns /\ \A m \in dayPlan : dayRunTimer < (m * Second + 1) * Tick
=============================================================================
