------------------------------ MODULE Intervals ------------------------------
(***************************************************************************)
(* What the loop of a looping call does between two calls of its function, *)
(* for the four kinds of backend/_common/loopingcall.py: the clock runs    *)
(* during a call, idle_for computes how long the loop sleeps after it, and *)
(* the sleep lasts that or a little longer.  A fixed interval's delay is   *)
(* rounded to hundredths of a second; a back-off's products are whole      *)
(* numbers here.                                                           *)
(***************************************************************************)
EXTENDS Integers

CONSTANTS
    IVParams,    \* the arguments of start() to check
    IVElapsed,   \* how long a call of the function may take
    IVLate,      \* how much longer than asked for a sleep may last
    IVGrain,     \* how many units of the clock are a hundredth of a second
    IVMaxTime    \* bound: no call begins after this

IVNone == -1     \* a Python None

\* "interval" is a fixed interval, the starting interval of a back-off, or the
\* max of a dynamic call; jitter is in quarters.
ASSUME IVParamsAssumption ==
    IVParams \subseteq
      [kind : {"fixed", "timeout", "dynamic", "backoff"}, interval : Int,
       timeout : Nat, max : Nat, min : Nat \ {0}, jitter : Nat \ {0}]
ASSUME IVTimesAssumption ==
    /\ IVElapsed \subseteq Nat /\ IVLate \subseteq Nat /\ IVGrain \in Nat \ {0}
    /\ \A p \in IVParams : p.interval >= 0 \/ (p.kind = "dynamic" /\ p.interval = IVNone)

VARIABLES
    ivParam,     \* the arguments of start()
    ivPc,        \* "new", "idle", "call", or "over": an exception ended the loop
    ivClock,
    ivWake,      \* when the sleep is over
    ivBegan,     \* when the call began
    ivGap,       \* the time between the beginnings of the last two calls (history)
    ivInterval,  \* self._interval
    ivError,     \* self._error_time
    ivFails      \* calls that failed in a row (history)

ivVars == <<ivParam, ivPc, ivClock, ivWake, ivBegan, ivGap, ivInterval, ivError, ivFails>>

IVLarger(a, b) == IF a > b THEN a ELSE b
IVSmaller(a, b) == IF a < b THEN a ELSE b

IVInit ==
    /\ ivParam = [kind |-> "none"]
    /\ ivPc = "new"
    /\ ivClock = 0 /\ ivWake = 0
    /\ ivBegan = IVNone /\ ivGap = IVNone
    /\ ivInterval = 0 /\ ivError = 0 /\ ivFails = 0

\* start(): an initial delay, or none.
IVStart ==
    /\ ivPc = "new"
    /\ ivParam' \in IVParams
    /\ ivPc' = "idle"
    /\ ivWake' \in {0, 1}
    /\ ivInterval' = ivParam'.interval
    /\ UNCHANGED <<ivClock, ivBegan, ivGap, ivError, ivFails>>

IVBegin ==
    /\ ivPc = "idle"
    /\ ivWake <= IVMaxTime
    /\ ivPc' = "call"
    /\ \E late \in IVLate : ivClock' = ivWake + late
    /\ ivBegan' = ivClock'
    /\ ivGap' = IF ivBegan = IVNone THEN IVNone ELSE ivClock' - ivBegan
    /\ UNCHANGED <<ivParam, ivWake, ivInterval, ivError, ivFails>>

IVReturn(kinds) ==
    /\ ivPc = "call"
    /\ ivParam.kind \in kinds
    /\ \E d \in IVElapsed : ivClock' = ivClock + d
    /\ UNCHANGED <<ivParam, ivBegan, ivGap>>

IVSleep(idle) == ivPc' = "idle" /\ ivWake' = ivClock' + idle
IVRaise == ivPc' = "over" /\ UNCHANGED <<ivWake, ivInterval, ivError, ivFails>>

\* Mutant: the time the call took is not taken off.
IVFixedAfter == IVReturn({"fixed", "timeout"}) /\ IVSleep(0) /\ UNCHANGED <<ivInterval, ivError, ivFails>>

\* round(d, 2): the nearest hundredth, either of two that are equally near.
IVRounded(d) ==
    LET below == IVGrain * (d \div IVGrain)
    IN  {r \in {below, below + IVGrain} :
           2 * (r - d) <= IVGrain /\ 2 * (d - r) <= IVGrain}

\* The rest of the interval, or nothing.
IVFixedIdle ==
    \E delay \in IVRounded((ivClock' - ivBegan) - ivParam.interval) :
      IVSleep(IVLarger(-delay, 0))

\* The time-out is looked at after a call only.
IVFixed ==
    /\ IVReturn({"fixed", "timeout"})
    /\ IF ivParam.kind = "timeout" /\ ivParam.timeout > 0 /\ ivClock' > ivParam.timeout
         THEN IVRaise
         ELSE /\ IVFixedIdle
              /\ UNCHANGED <<ivInterval, ivError, ivFails>>

\* The function suggests a delay, or None; without a maximum that is an error.
IVDynamic ==
    /\ IVReturn({"dynamic"})
    /\ \E delay \in {IVNone, ivParam.min} :
         IF delay = IVNone /\ ivParam.interval = IVNone
           THEN IVRaise
           ELSE /\ IVSleep(IF delay = IVNone THEN ivParam.interval
                           ELSE IF ivParam.interval = IVNone THEN delay
                           ELSE IVSmaller(delay, ivParam.interval))
                /\ UNCHANGED <<ivInterval, ivError, ivFails>>

\* abs(gauss(jitter, 0.1))
IVRandom == {ivParam.jitter - 1, ivParam.jitter, ivParam.jitter + 1}

\* The next interval, with a jitter of j, bounded from below.
IVGrown(j) == IVLarger((ivInterval * 2 * j) \div 4, ivParam.min)

IVBackOffSuccess ==
    /\ IVReturn({"backoff"})
    /\ ivInterval' = ivParam.interval
    /\ ivError' = 0 /\ ivFails' = 0
    /\ \E j \in IVRandom : IVSleep((ivInterval' * j) \div 4)

IVBackOffFailure ==
    /\ IVReturn({"backoff"})
    /\ \E j \in IVRandom :
         LET idle == IVSmaller(IVGrown(j), ivParam.max)
         IN  IF ivParam.timeout > 0 /\ ivError + idle > ivParam.timeout
               THEN ivPc' = "over" /\ UNCHANGED <<ivWake, ivError, ivFails>>
               ELSE /\ IVSleep(idle)
                    /\ ivError' = ivError + idle
                    /\ ivFails' = ivFails + 1
    /\ ivInterval' = IVGrown(ivParam.jitter)

IVNext == IVStart \/ IVBegin \/ IVFixed \/ IVDynamic \/ IVBackOffSuccess \/ IVBackOffFailure

IVSpec == IVInit /\ [][IVNext]_ivVars
-----------------------------------------------------------------------------
\* Fixed intervals: calls begin at least an interval apart, less the half of a
\* hundredth of a second that rounding takes, however long each takes (249-258,
\* 282-297); with a time-out none begins later than one interval, half a hundredth
\* and one late sleep after it, unless the first is itself later.
FixedApart ==
    ivPc = "call" /\ ivParam.kind \in {"fixed", "timeout"} /\ ivGap # IVNone =>
        /\ 2 * (ivParam.interval - ivGap) <= IVGrain
        /\ ivParam.kind = "timeout" /\ ivParam.timeout > 0 =>
             \E late \in IVLate :
               2 * (ivBegan - late - ivParam.timeout - ivParam.interval) <= IVGrain

\* Back-off: the sleeps after failures in a row, each of them at least
\* min_interval, add up to no more than the time-out, so that there are only so
\* many of them (384-397).
BackOffBounded ==
    ivParam.kind = "backoff" /\ ivParam.timeout > 0 =>
        /\ ivError <= ivParam.timeout
        /\ ivFails * IVSmaller(ivParam.min, ivParam.max) <= ivError

IntervalsKept == FixedApart /\ BackOffBounded
=============================================================================
