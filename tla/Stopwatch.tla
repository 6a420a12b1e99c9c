------------------------------ MODULE Stopwatch ------------------------------
(***************************************************************************)
(* zisc/stopwatch-inl.hpp: a sum of the times between start() and pause(). *)
(* The clock advances between the calls; counted observes it.              *)
(***************************************************************************)
EXTENDS Naturals

CONSTANT MaxTime  \* bound of the clock

VARIABLES
  clock,         \* ClockT::now()
  start_time,    \* start_time_
  elapsed_time,  \* elapsed_time_
  watchState,    \* state_
  counted,       \* ticks in state "run" since stop(), pauses left out
  lost,          \* of these, ticks of runs that start() interrupted
  run            \* ticks of the present run
watchVars == <<clock, start_time, elapsed_time, watchState, counted, lost, run>>

watchInit ==
  /\ clock = 0 /\ start_time = 0 /\ elapsed_time = 0 /\ watchState = "idle"
  /\ counted = 0 /\ lost = 0 /\ run = 0

isRunning == watchState = "run"
elapsedRunningTime == clock - start_time
elapsedTime == IF isRunning THEN elapsed_time + elapsedRunningTime ELSE elapsed_time

\* A start() of a running watch starts over: what it ran for is forgotten.
start ==
  /\ start_time' = clock /\ watchState' = "run"
  /\ run' = 0 /\ lost' = (IF isRunning THEN lost + run ELSE lost)
  /\ UNCHANGED <<clock, elapsed_time, counted>>

\* MUTANT: a pause is counted again by each call of pause().
pauseAgain ==
  /\ watchState # "idle"
  /\ elapsed_time' = elapsed_time + elapsedRunningTime /\ watchState' = "pause"
  /\ UNCHANGED <<clock, start_time, counted, lost, run>>
pause ==
  /\ isRunning  \* or else zero is returned and nothing happens
  /\ elapsed_time' = elapsed_time + elapsedRunningTime /\ watchState' = "pause"
  /\ UNCHANGED <<clock, start_time, counted, lost, run>>

stop ==
  /\ elapsed_time' = 0 /\ watchState' = "idle"
  /\ counted' = 0 /\ lost' = 0 /\ run' = 0
  /\ UNCHANGED <<clock, start_time>>

Tick ==
  /\ clock < MaxTime
  /\ clock' = clock + 1
  /\ IF isRunning THEN counted' = counted + 1 /\ run' = run + 1 ELSE UNCHANGED <<counted, run>>
  /\ UNCHANGED <<start_time, elapsed_time, watchState, lost>>

watchNext == start \/ pause \/ stop \/ Tick
-----------------------------------------------------------------------------
\* The elapsed time is the time in which the watch ran since it was last stopped,
\* except for the runs that a second start() interrupted.
ElapsedIsRun == elapsedTime = counted - lost
=============================================================================
