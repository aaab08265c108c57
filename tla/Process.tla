------------------------------- MODULE Process -------------------------------
(***************************************************************************)
(* The process table of kernel/proc/process.c: creation, kill with its     *)
(* reparenting, and signals.  fork, exec, waitpid and exit are stubs that  *)
(* change nothing.  No code stores a signal handler, so a pending signal   *)
(* acts only if it is SIGTERM.                                             *)
(***************************************************************************)
EXTENDS Integers

CONSTANTS
  MAX_PROCESSES,
  PID_MOD,        \* black_next_pid is an unsigned of PID_MOD values
  Signals, SIGKILL, SIGTERM

Slots == 0 .. MAX_PROCESSES - 1
Pids == 0 .. PID_MOD - 1
Current == 0      \* the slot black_process_current returns, whoever runs

VARIABLES
  state,     \* black_state: "UNUSED", "RUNNING", "READY" or "ZOMBIE"
  pid,       \* black_pid
  ppid,      \* black_ppid
  pending,   \* black_pending_signals
  next_pid   \* black_next_pid

vars == <<state, pid, ppid, pending, next_pid>>

Used(i) == state[i] # "UNUSED"
Alive(i) == state[i] \notin {"UNUSED", "ZOMBIE"}

\* black_process_init makes slot 0 the first process; the kernel's boot
\* sequence does not call it, and leaves the table all zero.
Init ==
  /\ \E initialised \in BOOLEAN :
       state = [i \in Slots |-> IF i = 0 /\ initialised THEN "RUNNING" ELSE "UNUSED"]
  /\ pid = [i \in Slots |-> 0]
  /\ ppid = [i \in Slots |-> 0]
  /\ pending = [i \in Slots |-> {}]
  /\ next_pid = 1

\* black_process_create, for a parent that is 0 or a living process.
Create(i, parent) ==
  /\ ~Used(i) /\ \A j \in 0 .. i - 1 : Used(j)
  /\ parent = 0 \/ \E j \in Slots : Alive(j) /\ pid[j] = parent
  /\ state' = [state EXCEPT ![i] = "READY"]
  /\ pid' = [pid EXCEPT ![i] = next_pid]
  /\ ppid' = [ppid EXCEPT ![i] = parent]
  /\ pending' = [pending EXCEPT ![i] = {}]
  /\ next_pid' = (next_pid + 1) % PID_MOD

\* The first used slot with the process id: black_process_get.
IsSlotOf(i, p) == Used(i) /\ pid[i] = p /\ \A j \in 0 .. i - 1 : ~(Used(j) /\ pid[j] = p)

\* black_process_reparent_children
NotReparented(p) == ppid
Reparented(p) == [j \in Slots |-> IF Used(j) /\ ppid[j] = p THEN 0 ELSE ppid[j]]

Die(i) ==
  /\ state' = [state EXCEPT ![i] = "ZOMBIE"]
  /\ ppid' = Reparented(pid[i])
  /\ UNCHANGED <<pid, next_pid>>

Kill(p) == \E i \in Slots : IsSlotOf(i, p) /\ Die(i) /\ UNCHANGED pending

\* black_process_signal
Signal(p, s) ==
  \E i \in Slots :
    /\ IsSlotOf(i, p)
    /\ \/ s = SIGKILL /\ Die(i) /\ UNCHANGED pending
       \/ /\ s # SIGKILL
          /\ pending' = [pending EXCEPT ![i] = @ \cup {s}]
          /\ UNCHANGED <<state, pid, ppid, next_pid>>

\* black_process_check_signals: the kill looks the process up by its pid.
CheckSignals ==
  /\ pending[Current] # {}
  /\ pending' = [pending EXCEPT ![Current] = {}]
  /\ \/ /\ SIGTERM \in pending[Current]
        /\ \E i \in Slots : IsSlotOf(i, pid[Current]) /\ Die(i)
     \/ /\ SIGTERM \notin pending[Current]
        /\ UNCHANGED <<state, pid, ppid, next_pid>>

Next ==
  \/ \E i \in Slots, parent \in Pids : Create(i, parent)
  \/ \E p \in Pids : Kill(p) \/ \E s \in Signals : Signal(p, s)
  \/ CheckSignals

Spec == Init /\ [][Next]_vars
-----------------------------------------------------------------------------
\* Pids below the width of their type.
TypeOK ==
  /\ state \in [Slots -> {"UNUSED", "RUNNING", "READY", "ZOMBIE"}]
  /\ pid \in [Slots -> Pids] /\ ppid \in [Slots -> Pids]
  /\ pending \in [Slots -> SUBSET (Signals \ {SIGKILL})]
  /\ next_pid \in Pids

\* The table is a family tree.  Two entries never share a pid, so kill and
\* signal reach the process they name: a slot is never used twice, and the
\* pids run out after it.  And no process is left with a dead parent: whoever
\* dies, by kill, SIGKILL or a SIGTERM that is acted on, its children become
\* children of 0.
FamilyTree ==
  /\ \A i, j \in Slots : Used(i) /\ Used(j) /\ pid[i] = pid[j] => i = j
  /\ \A i \in Slots : Used(i) /\ ppid[i] # 0 =>
       \E j \in Slots : Alive(j) /\ pid[j] = ppid[i]
=============================================================================
