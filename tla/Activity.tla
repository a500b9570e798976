----------------------------- MODULE Activity -----------------------------
(***************************************************************************)
(* The activity counter and its bounded cooperative wait                  *)
(* (src/core/activity.c).  Background processes each hold one activity:  *)
(* the caller starts it, the process stops it when its work is done.  The *)
(* processes only run inside step(), which activity_wait calls while the  *)
(* count is nonzero and the deadline has not been reached.  The tick      *)
(* counter currticks() and the unsigned count wrap at their widths.       *)
(*                                                                         *)
(* A process may itself call activity_wait from inside step(), which the  *)
(* header advises against: the waits then form a stack, the innermost one *)
(* running the loop.  Each process stops its activity once, as the API   *)
(* pairs activity_stop with activity_start.                               *)
(***************************************************************************)
EXTENDS Naturals, FiniteSets, Sequences

CONSTANTS
  Procs,          \* background processes, each holding one activity
  UintBits,       \* width of unsigned int (num_activities)
  TickBits,       \* width of unsigned long (currticks(), the deadline)
  TICKS_PER_SEC,  \* timer ticks per second
  Timeouts,       \* max_timeout arguments, in tenths of a second
  InitTicks,      \* values currticks() may have when the model starts
  TickLimit,      \* bound: ticks the timer advances in a run
  MaxWaits,       \* bound: calls of activity_wait in a run
  NestedTimeouts  \* timeouts a process passes to activity_wait from inside
                  \* step() ({} where no process waits)

ASSUME UintBits \in Nat \ {0} /\ TickBits \in Nat \ {0}
ASSUME TICKS_PER_SEC \in Nat \ {0} /\ Timeouts \subseteq Nat
ASSUME InitTicks \subseteq 0 .. 2 ^ TickBits - 1
ASSUME TickLimit \in Nat /\ MaxWaits \in Nat
ASSUME NestedTimeouts \subseteq Nat

VARIABLES
  num_activities, \* the counter
  ticks,          \* currticks()
  proc,           \* proc[p]: "idle", "running" (activity started),
                  \* "blocked" (in its own activity_wait), "done"
  pc,             \* the caller: "main", "waiting" (in the loop), "returned"
  frames,         \* the activity_wait calls in progress, innermost last:
                  \* who called it, the local max_timeout after its first
                  \* assignment, ticks asked for, ticks elapsed since entry
  last,           \* the last wait to return: who, its value, its timing,
                  \* and the processes holding an activity at that moment
  waits,          \* calls of activity_wait so far
  advanced        \* ticks the timer has advanced so far

vars == <<num_activities, ticks, proc, pc, frames, last, waits, advanced>>

UintMod == 2 ^ UintBits
TickMod == 2 ^ TickBits

(* Default timeout for 1 second, in tenths of a second.                   *)
ACTIVITY_TIMEOUT == 10

(* Mutant: the timeout is divided by ten before the multiplication.      *)
TimeoutTicksTruncated(t) == ((t \div 10) * TICKS_PER_SEC) % TickMod

(* The time the caller asks for: max_timeout tenths of a second, in      *)
(* ticks, in exact arithmetic.                                           *)
RequestedTicks(t) == (t * TICKS_PER_SEC) \div 10

(* max_timeout tenths of a second, in ticks, as unsigned long.            *)
TimeoutTicks(t) == ((t * TICKS_PER_SEC) % TickMod) \div 10

(* The deadline activity_wait computes from the current tick count.       *)
WaitDeadline(t) == (ticks + TimeoutTicks(t)) % TickMod

(* Mutant: the deadline slides with the clock.                         *)
KeepWaitingSliding(f) ==
  num_activities # 0 /\ ticks < (ticks + f.wanted) % TickMod

(* The loop condition of activity_wait f.                                 *)
KeepWaiting(f) == num_activities # 0 /\ ticks < f.deadline

(* Mutant: ~num_activities (bitwise not) written for !num_activities.  *)
WaitResultBitNot == (UintMod - 1) - num_activities

(* The value activity_wait returns, the int !num_activities.             *)
WaitResult == IF num_activities = 0 THEN 1 ELSE 0

(* Mutant: starting an activity sets the count instead of raising it.    *)
ActivityStartedFlag(n) == 1

(* num_activities++ and num_activities-- for k activities, unsigned.     *)
ActivityStarted(n) == (n + 1) % UintMod
ActivitiesStopped(n, k) == (n - k) % UintMod

Top == frames[Len(frames)]

(* The processes that hold an activity: started and not yet stopped.     *)
Holding == {p \in Procs : proc[p] \in {"running", "blocked"}}

(* The run still has time for a wait of t: every deadline is reached.    *)
HasTime(t) == advanced + TimeoutTicks(t) <= TickLimit

(* activity_wait(t) called by who: the deadline is fixed, the loop begins. *)
EnterWait(who, t) ==
  /\ waits < MaxWaits
  /\ HasTime(t)
  /\ frames' = Append(frames, [who |-> who, deadline |-> WaitDeadline(t),
                               wanted |-> RequestedTicks(t), elapsed |-> 0])
  /\ waits' = waits + 1

Init ==
  /\ num_activities = 0
  /\ ticks \in InitTicks
  /\ proc = [p \in Procs |-> "idle"]
  /\ pc = "main"
  /\ frames = <<>>
  /\ last = [who |-> "none", result |-> 0, elapsed |-> 0, wanted |-> 0,
             holding |-> {}]
  /\ waits = 0
  /\ advanced = 0

(* The caller starts the activity a process will carry out.              *)
activity_start(p) ==
  /\ pc = "main"
  /\ proc[p] = "idle"
  /\ proc' = [proc EXCEPT ![p] = "running"]
  /\ num_activities' = ActivityStarted(num_activities)
  /\ UNCHANGED <<ticks, pc, frames, last, waits, advanced>>

(* The caller enters activity_wait.                                      *)
activity_wait(t) ==
  /\ pc = "main"
  /\ EnterWait("main", t)
  /\ pc' = "waiting"
  /\ UNCHANGED <<num_activities, ticks, proc, last, advanced>>

(* One iteration of the innermost loop: step() runs every ready process  *)
(* once; the processes in S finish their work and call activity_stop.    *)
step ==
  /\ frames # <<>>
  /\ KeepWaiting(Top)
  /\ \E S \in SUBSET {p \in Procs : proc[p] = "running"} :
       /\ proc' = [p \in Procs |-> IF p \in S THEN "done" ELSE proc[p]]
       /\ num_activities' = ActivitiesStopped(num_activities, Cardinality(S))
  /\ UNCHANGED <<ticks, pc, frames, last, waits, advanced>>

(* In an iteration of the innermost loop, step() runs process p, which   *)
(* calls activity_wait(t) before it has stopped its own activity.        *)
process_wait(p, t) ==
  /\ frames # <<>>
  /\ KeepWaiting(Top)
  /\ proc[p] = "running"
  /\ EnterWait(p, t)
  /\ proc' = [proc EXCEPT ![p] = "blocked"]
  /\ UNCHANGED <<num_activities, ticks, pc, last, advanced>>

(* The innermost loop's condition fails: that activity_wait returns     *)
(* !num_activities to its caller, the main caller or a process, which   *)
(* goes on with its step.                                               *)
activity_wait_return ==
  /\ frames # <<>>
  /\ ~KeepWaiting(Top)
  /\ last' = [who |-> Top.who, result |-> WaitResult, elapsed |-> Top.elapsed,
              wanted |-> Top.wanted, holding |-> Holding]
  /\ frames' = SubSeq(frames, 1, Len(frames) - 1)
  /\ IF Top.who = "main"
       THEN pc' = "returned" /\ UNCHANGED proc
       ELSE proc' = [proc EXCEPT ![Top.who] = "running"] /\ UNCHANGED pc
  /\ UNCHANGED <<num_activities, ticks, waits, advanced>>

(* The caller goes on with its work, and may start and wait again.       *)
caller_continues ==
  /\ pc = "returned"
  /\ pc' = "main"
  /\ UNCHANGED <<num_activities, ticks, proc, frames, last, waits, advanced>>

(* The timer interrupt advances currticks().                              *)
tick ==
  /\ advanced < TickLimit
  /\ ticks' = (ticks + 1) % TickMod
  /\ advanced' = advanced + 1
  /\ frames' = [k \in DOMAIN frames |->
                  [frames[k] EXCEPT !.elapsed = @ + 1]]
  /\ UNCHANGED <<num_activities, proc, pc, last, waits>>

(* The run is over: time has run out and the caller waits no more.      *)
Finished ==
  /\ pc = "main"
  /\ advanced = TickLimit
  /\ UNCHANGED vars

Next ==
  \/ \E p \in Procs : activity_start(p)
  \/ \E t \in Timeouts : activity_wait(t)
  \/ step
  \/ \E p \in Procs, t \in NestedTimeouts : process_wait(p, t)
  \/ activity_wait_return
  \/ caller_continues
  \/ tick
  \/ Finished

(* The loop keeps evaluating its condition, so it leaves once the         *)
(* condition fails, and the timer keeps ticking.  An iteration in which no *)
(* process finishes is a stuttering step: processes are not obliged to     *)
(* finish.                                                                *)
Spec == Init /\ [][Next]_vars /\ WF_vars(activity_wait_return) /\ WF_vars(tick)

(***************************************************************************)
(* Properties.                                                             *)
(***************************************************************************)
TypeOK ==
  /\ num_activities \in 0 .. UintMod - 1
  /\ ticks \in 0 .. TickMod - 1
  /\ proc \in [Procs -> {"idle", "running", "blocked", "done"}]
  /\ pc \in {"main", "waiting", "returned"}
  /\ last.result \in {0, 1}

(* activity_wait returns TRUE only when every activity that was started  *)
(* has been stopped: the counter never reaches zero early.               *)
WaitTrueMeansDone == last.result = 1 => last.holding = {}

(* activity_wait returns FALSE (timed out) only after the time the caller *)
(* asked for has passed (spec P8: it returns false once the deadline       *)
(* passes, not before).                                                   *)
TimeoutHonoured == last.result = 0 => last.elapsed >= last.wanted

(* A caller in activity_wait eventually returns, whether or not the        *)
(* processes ever stop their activities.                                  *)
WaitReturns == pc = "waiting" ~> pc = "returned"

=============================================================================
