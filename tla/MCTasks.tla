------------------------------- MODULE MCTasks -------------------------------
(***************************************************************************)
(* The two tables of who runs for TLC: the tasks of the scheduler as the   *)
(* booted kernel drives them, and the processes.  Nothing links them, so a *)
(* behaviour exercises the one that part names.                            *)
(***************************************************************************)
EXTENDS KernelTasks

CONSTANTS MAX_PROCESSES, PID_MOD, Signals, SIGKILL, SIGTERM

VARIABLES
  part,   \* the table that is exercised
  ps_state, ps_pid, ps_ppid, ps_pending, ps_next_pid

ps == <<ps_state, ps_pid, ps_ppid, ps_pending, ps_next_pid>>

Ps == INSTANCE Process WITH
        state <- ps_state, pid <- ps_pid, ppid <- ps_ppid,
        pending <- ps_pending, next_pid <- ps_next_pid

TasksInit == part \in {"tasks", "processes"} /\ KInit /\ Ps!Init

TasksNext ==
  /\ part' = part
  /\ \/ part = "tasks" /\ KNext /\ UNCHANGED ps
     \/ part = "processes" /\ Ps!Next /\ UNCHANGED kvars

TasksSpec == TasksInit /\ [][TasksNext]_<<part, kvars, ps>>
-----------------------------------------------------------------------------
\* Processes: the table is well formed, pids are unique and parents live.
ProcessFamilyTree == Ps!TypeOK /\ Ps!FamilyTree
=============================================================================
