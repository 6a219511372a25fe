------------------------------ MODULE CpuUsage ------------------------------
(***************************************************************************)
(* The two measurements of the CPU's load: cpu_percentage (monitor/        *)
(* cpu-monitor.cc) and get_sysCpuUsage (time-zone/cpu-moni.h).  Each reads *)
(* the counters of /proc/stat, sleeps, reads them again, and divides what  *)
(* was added.  The first reads four counters as 64-bit numbers; the second *)
(* reads seven as unsigned int and adds them as unsigned int.              *)
(*                                                                         *)
(* Of the counters, user, nice and system are used in one sum only, so are *)
(* irq and softirq: they are "work" and "irq" here.  A percentage is a     *)
(* pair of a numerator and a denominator.                                  *)
(***************************************************************************)
EXTENDS Integers

CONSTANTS NoSample,  \* nothing has been read
          W,         \* the bits of an unsigned int
          MaxTicks   \* bound: ticks counted after the start

ASSUME CpuAssumption == W \in Nat \ {0} /\ MaxTicks \in Nat

M == 2 ^ W
Monitors == {"cpu_percentage", "get_sysCpuUsage"}
Counters == {"work", "idle", "iowait", "irq"}

VARIABLES start, stat, \* /proc/stat at the start, and now
          first,       \* what each monitor has read before its sleep
          sample       \* the two readings its result is computed from

vars == <<start, stat, first, sample>>

\* The machine has run for any time already.
Init ==
  /\ start \in {[work |-> w, idle |-> i, iowait |-> 0, irq |-> 0] : w, i \in 0..(M - 1)}
  /\ stat = start
  /\ first = [m \in Monitors |-> NoSample]
  /\ sample = [m \in Monitors |-> NoSample]

Total(s) == s.work + s.idle + s.iowait + s.irq

Tick ==
  /\ Total(stat) < Total(start) + MaxTicks
  /\ \E k \in Counters : stat' = [stat EXCEPT ![k] = @ + 1]
  /\ UNCHANGED <<start, first, sample>>

BeginSample(m) ==
  /\ first[m] = NoSample /\ sample[m] = NoSample
  /\ first' = [first EXCEPT ![m] = stat]
  /\ UNCHANGED <<start, stat, sample>>

EndSample(m) ==
  /\ first[m] # NoSample
  /\ sample' = [sample EXCEPT ![m] = [old |-> first[m], new |-> stat]]
  /\ first' = [first EXCEPT ![m] = NoSample]
  /\ UNCHANGED <<start, stat>>

Next == Tick \/ \E m \in Monitors : BeginSample(m) \/ EndSample(m)

Spec == Init /\ [][Next]_vars

-----------------------------------------------------------------------------
(* The results *)

\* The counters that cpu_percentage reads.
CP_STATES == {"work", "idle"}

\* cpu_percentage: work over work and idle.  0 over 0 is not a number.
cpu_percentage(o, n) ==
  LET stats == [k \in CP_STATES |-> n[k] - o[k]] IN
  [num |-> stats.work, den |-> stats.work + stats.idle]

\* get_cpuoccupy: what sscanf leaves of the counters in an unsigned int.  It reads an
\* unsigned long: one that is wider is cut off, one of the same width saturates.
get_cpuoccupy(s, wide) == [k \in Counters |-> IF wide \/ s[k] < M THEN s[k] % M ELSE M - 1]

\* Mutant: the idle time is left out of the sum.
SumOfBusy(s) == (s.work + s.iowait + s.irq) % M

\* The sum of unsigned ints is one.
Sum(s) == (s.work + s.idle + s.iowait + s.irq) % M

\* cal_cpuoccupy: the share that was not idle, or 0 if no time has passed.  The
\* differences are taken in double, so they may be negative.
cal_cpuoccupy(o, n) ==
  LET passed == Sum(n) - Sum(o) IN
  IF passed = 0 THEN [num |-> 0, den |-> 1]
  ELSE [num |-> passed - (n.idle - o.idle), den |-> passed]

get_sysCpuUsage(o, n, wide) == cal_cpuoccupy(get_cpuoccupy(o, wide), get_cpuoccupy(n, wide))

-----------------------------------------------------------------------------
(* Correctness *)

\* The idle counter or the sum has passed a multiple of 2^W between the readings.
Wrapped(o, n) == o.idle \div M # n.idle \div M \/ Total(o) \div M # Total(n) \div M

\* Where unsigned long is no wider, a counter of the reading is at the limit.
Saturated(n) == \E k \in Counters : n[k] >= M

\* The share of the time between the readings that was not idle.
NotIdle(o, n) == [num |-> (Total(n) - Total(o)) - (n.idle - o.idle), den |-> Total(n) - Total(o)]

\* a/b <= c/d for denominators that are positive.
AtMost(x, y) == x.num * y.den <= y.num * x.den

\* Both monitors measure the share that was not idle: cpu_percentage never more
\* than that (it knows neither iowait nor interrupts), get_sysCpuUsage exactly
\* that, although every number it has is reduced modulo 2^W, unless one of them
\* wrapped between its readings or has saturated.
UsageIsSound ==
  /\ LET s == sample["cpu_percentage"] IN
     (s # NoSample /\ cpu_percentage(s.old, s.new).den # 0) =>
       AtMost(cpu_percentage(s.old, s.new), NotIdle(s.old, s.new))
  /\ LET s == sample["get_sysCpuUsage"] IN
     \A wide \in BOOLEAN :
       /\ s # NoSample /\ s.old # s.new
       /\ ~Wrapped(s.old, s.new) /\ (wide \/ ~Saturated(s.new))
       => LET u == get_sysCpuUsage(s.old, s.new, wide) IN
          u.den > 0 /\ AtMost(u, NotIdle(s.old, s.new)) /\ AtMost(NotIdle(s.old, s.new), u)
=============================================================================
