------------------------------ MODULE TimerMap ------------------------------
(***************************************************************************)
(* What HeapTimer promises Server::run: a map from descriptors to          *)
(* deadlines.  Setting a deadline replaces the old one; GetNextTick first  *)
(* fires what is less than a millisecond away, the earliest deadline       *)
(* first, then answers for how many whole milliseconds nothing will be, or *)
(* that there is no deadline at all.                                       *)
(***************************************************************************)
EXTENDS Integers

CONSTANTS Ids, Ms, Timeout, NoTime

VARIABLES
  deadline,  \* Ids -> its deadline, NoTime without a timer
  now,       \* the clock
  loop,      \* the caller: out of GetNextTick, firing, in a callback, about to be answered
  fired,     \* whose callback runs
  wait       \* the last answer of GetNextTick

tmVars == <<deadline, now, loop, fired, wait>>

Pending == {x \in Ids : deadline[x] # NoTime}

TMInit ==
  /\ deadline = [x \in Ids |-> NoTime]
  /\ now = 0 /\ loop = "run" /\ fired = NoTime /\ wait = -1

Set(x) ==
  /\ deadline' = [deadline EXCEPT ![x] = now + Timeout]
  /\ UNCHANGED <<now, loop, fired, wait>>

Unset(x) ==
  /\ deadline' = [deadline EXCEPT ![x] = NoTime]
  /\ UNCHANGED <<now, loop, fired, wait>>

\* All timers are removed, no callback runs.
UnsetAll ==
  /\ deadline' = [x \in Ids |-> NoTime]
  /\ UNCHANGED <<now, loop, fired, wait>>

Enter == loop = "run" /\ loop' = "tick" /\ UNCHANGED <<deadline, now, fired, wait>>

\* A deadline fires less than a millisecond early, and none before an earlier.
Fire(x) ==
  /\ loop = "tick" /\ x \in Pending /\ deadline[x] - now < Ms
  /\ \A y \in Pending : deadline[x] <= deadline[y]
  /\ deadline' = [deadline EXCEPT ![x] = NoTime]
  /\ fired' = x /\ loop' = "callback"
  /\ UNCHANGED <<now, wait>>

\* Its callback runs, while others may set and unset deadlines.
Called ==
  /\ loop = "callback" /\ loop' = "tick"
  /\ fired' = NoTime /\ UNCHANGED <<deadline, now, wait>>

\* Firing ends only when every deadline is a millisecond away.
Fired ==
  /\ loop = "tick" /\ \A x \in Pending : deadline[x] - now >= Ms
  /\ loop' = "answer" /\ UNCHANGED <<deadline, now, fired, wait>>

Answer ==
  /\ loop = "answer" /\ loop' = "run"
  /\ \/ Pending = {} /\ wait' = -1
     \/ \E x \in Pending :
          /\ \A y \in Pending : deadline[x] <= deadline[y]
          /\ wait' = IF deadline[x] < now THEN 0 ELSE (deadline[x] - now) \div Ms
  /\ UNCHANGED <<deadline, now, fired>>

Pass == now' = now + 1 /\ UNCHANGED <<deadline, loop, fired, wait>>

TMNext ==
  \/ \E x \in Ids : Set(x) \/ Unset(x) \/ Fire(x)
  \/ UnsetAll \/ Enter \/ Called \/ Fired \/ Answer \/ Pass

TMSpec == TMInit /\ [][TMNext]_tmVars
=============================================================================
