------------------------------- MODULE Timer -------------------------------
(***************************************************************************)
(* The clock of the kernel: the programmable interval timer divides its    *)
(* frequency to about one interrupt a millisecond (driver/pit/pit.c), and  *)
(* k_tmr_tick (timer/timer.c), its handler, counts milliseconds and leaves *)
(* one out whenever the interrupts have run ahead of the time by one.      *)
(*                                                                         *)
(* The counter of milliseconds wraps round at TIME, as the 32 bits of      *)
(* time_t do.  The handlers k_tmr_tick calls are Tick of Scheduler.        *)
(***************************************************************************)
EXTENDS Naturals, Integers

CONSTANTS
  k_pit_freq,    \* cycles of the timer in a second
  k_pit_evFreq,  \* interrupts asked for in a second: 1000, one a ms
  TIME           \* values of time_t

ASSUME TimerAssumption ==
  /\ k_pit_freq \in Nat /\ k_pit_evFreq \in Nat \ {0} /\ TIME \in Nat \ {0}
  /\ k_pit_freq >= k_pit_evFreq

VARIABLES
  ms,            \* milliseconds since the start
  driftCurrent,  \* what the interrupts are ahead of the time by
  lag            \* real time minus ms, in 1 / (k_pit_freq * k_pit_evFreq) s

timer == <<ms, driftCurrent, lag>>

\* Cycles between two interrupts, and those a millisecond has on top.
divider == k_pit_freq \div k_pit_evFreq
pitDrift == k_pit_freq % k_pit_evFreq

TimerInit == ms = 0 /\ driftCurrent = 0 /\ lag = 0

\* Whether this interrupt counts no millisecond, and the drift after it.
RunsLate == driftCurrent + pitDrift > k_pit_freq  \* variant
RunsAhead == driftCurrent + pitDrift >= k_pit_freq
Drift == (driftCurrent + pitDrift) % k_pit_freq

k_tmr_tick ==
  /\ driftCurrent' = Drift
  /\ ms' = IF RunsAhead THEN ms ELSE (ms + 1) % TIME
  /\ lag' = lag + k_pit_evFreq * divider - (IF RunsAhead THEN 0 ELSE k_pit_freq)

\* The clock never falls behind the time, and is ahead of it by less than a
\* millisecond, however long the machine runs: the drift that is left over
\* when a millisecond is left out is carried on (k_tmr_tick).
ClockIsTrue == -k_pit_freq < lag /\ lag <= 0

=============================================================================
