----------------------------- MODULE RunLifecycle -----------------------------
(***************************************************************************)
(* What a job's record promises about its runs.  A run is started only     *)
(* when none is active and gets a serial of its own; a run that has ended  *)
(* is never active again; and a record whose run is gone says so as a      *)
(* whole, with no serial.                                                  *)
(*                                                                         *)
(* ComputeJob (sirepo's job supervisor) implements this.                   *)
(***************************************************************************)
EXTENDS Naturals

CONSTANT Job

VARIABLES run,      \* run[j]: status and serial of the job's last run
          last      \* the last serial given out

vars == <<run, last>>

Active == {"pending", "running"}
NoRun == {"missing", "job_run_purged"}

Init ==
    /\ run = [j \in Job |-> [status |-> "missing", serial |-> 0]]
    /\ last = 0

Start(j) ==
    /\ run[j].status \notin Active
    /\ last' = last + 1
    /\ run' = [run EXCEPT ![j] = [status |-> "pending", serial |-> last + 1]]

\* A run changes, for as long as it is active.
Proceed(j, s) ==
    /\ run[j].status \in Active
    /\ run' = [run EXCEPT ![j].status = s]
    /\ UNCHANGED last

\* A timeout cancels the job, whatever the state of its run.
Cancel(j) ==
    /\ run' = [run EXCEPT ![j].status = "canceled"]
    /\ UNCHANGED last

\* The run directory was found to be gone, or was purged.
Lose(j, s) ==
    /\ run' = [run EXCEPT ![j] = [status |-> s, serial |-> 0]]
    /\ UNCHANGED last

Next ==
    \E j \in Job :
        \/ Start(j)
        \/ \E s \in Active \union {"completed", "error", "canceled"} : Proceed(j, s)
        \/ Cancel(j)
        \/ \E s \in NoRun : Lose(j, s)

Spec == Init /\ [][Next]_vars
===============================================================================
