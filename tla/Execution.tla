------------------------------ MODULE Execution ------------------------------
(***************************************************************************)
(* One execution to its end: execute_and_wait of execution.py over the     *)
(* local CommandExecutionHarness or the remote DevinExecutionHarness.  The *)
(* process or remote session runs beside the loop that polls it and may    *)
(* end between any two of its calls; a remote call may fail at any time.   *)
(***************************************************************************)
EXTENDS Integers

CONSTANTS
  Drivers,   \* processes that call execute_and_wait
  Remote     \* those of them that use the remote harness

ASSUME ExecutionAssumption == Remote \subseteq Drivers

VARIABLE execution   \* per driver: its place in the call, what runs outside, what was answered

Running  == "running"
Ended    == {"succeeded", "failed", "stopped", "unavailable"}
NoAnswer == "none"

NotStarted == [pc |-> "idle", real |-> "absent", asked |-> FALSE, expired |-> FALSE, answer |-> NoAnswer]

ExecutionInit == execution = [d \in Drivers |-> NotStarted]

At(d, pc) == execution[d].pc = pc
Update(d, r) == execution' = [execution EXCEPT ![d] = r]
Raise(d, real) == Update(d, [execution[d] EXCEPT !.pc = "raised", !.real = real])

(* What status() and result() report: of a process, its exit code unless its
   cancellation was asked for; of a remote session, its state, where all that
   is not known to be an end is running. *)
Reported(d) ==
  LET e == execution[d] IN
  IF e.real = Running THEN "running"
  ELSE IF d \in Remote THEN IF e.real = "stopped" THEN "cancelled" ELSE e.real
  ELSE IF e.asked THEN "cancelled"
  ELSE IF e.real = "succeeded" THEN "succeeded" ELSE "failed"

-----------------------------------------------------------------------------
(* start().  A command that cannot be run is recorded as a failed execution.
   The call raises before anything runs, or after the effect when the process
   does not read its prompt (it is not recorded and runs on), or when the reply
   has no id. *)
Launch(d) ==
  /\ At(d, "idle")
  /\ \/ Update(d, [NotStarted EXCEPT !.pc = "polling", !.real = Running])
     \/ /\ d \notin Remote
        /\ Update(d, [NotStarted EXCEPT !.pc = "polling", !.real = "unavailable"])
     \/ \E real \in {Running, "absent"} : Raise(d, real)

(* An iteration of the loop that sees the end. *)
PollSeesEnd(d) ==
  /\ At(d, "polling") /\ ~execution[d].expired
  /\ Reported(d) # "running"
  /\ Update(d, [execution[d] EXCEPT !.pc = "result"])

(* MUTANT of DeadlinePasses: the deadline moves on with every poll. *)
DeadlineRenewed(d) ==
  /\ At(d, "polling") /\ ~execution[d].expired /\ execution[d].real # Running
  /\ Update(d, [execution[d] EXCEPT !.expired = TRUE])

DeadlinePasses(d) ==
  /\ At(d, "polling") /\ ~execution[d].expired
  /\ Update(d, [execution[d] EXCEPT !.expired = TRUE])

Result(d) ==
  /\ At(d, "result")
  /\ Update(d, [execution[d] EXCEPT !.pc = "returned", !.answer = Reported(d)])

(* cancel() of a process looks first whether it still runs. *)
CancelLocal(d) ==
  /\ At(d, "polling") /\ execution[d].expired /\ d \notin Remote
  /\ Update(d, IF execution[d].real = Running
                 THEN [execution[d] EXCEPT !.pc = "terminate", !.asked = TRUE]
                 ELSE [execution[d] EXCEPT !.pc = "collect"])

(* It is terminated, killed if need be, and waited for.  It may have ended in
   the meantime, and may end its own way when it is told to.  One that outlives
   its kill for too long makes the call raise, and runs on. *)
Terminate(d) ==
  /\ At(d, "terminate")
  /\ \/ \E real \in IF execution[d].real = Running THEN {"succeeded", "failed"} ELSE {execution[d].real} :
          Update(d, [execution[d] EXCEPT !.pc = "collect", !.real = real])
     \/ execution[d].real = Running /\ Raise(d, Running)

(* The remote session is asked to stop, which it may do later or not at all. *)
CancelRemote(d) ==
  /\ At(d, "polling") /\ execution[d].expired /\ d \in Remote
  /\ Update(d, [execution[d] EXCEPT !.pc = "collect", !.asked = TRUE])

(* MUTANT of Collect: the result keeps the status it has. *)
CollectAsIs(d) ==
  /\ At(d, "collect")
  /\ Update(d, [execution[d] EXCEPT !.pc = "returned", !.answer = Reported(d)])

(* Whatever the result says, it is labelled as timed out. *)
Collect(d) ==
  /\ At(d, "collect")
  /\ Update(d, [execution[d] EXCEPT !.pc = "returned", !.answer = "timed_out"])

(* A request to the remote service fails; what a process printed cannot be read. *)
CallRaises(d) ==
  /\ execution[d].pc \in {"result", "collect"} \cup (IF d \in Remote THEN {"polling"} ELSE {})
  /\ execution[d].real # "unavailable"
  /\ Raise(d, execution[d].real)

WaitStep(d) ==
  \/ PollSeesEnd(d) \/ DeadlinePasses(d) \/ Result(d) \/ CancelLocal(d) \/ Terminate(d)
  \/ CancelRemote(d) \/ Collect(d)

(* The process exits; the remote session ends or is stopped by its users. *)
Ends(d) ==
  /\ execution[d].real = Running
  /\ \E real \in {"succeeded", "failed"} \cup (IF d \in Remote THEN {"stopped"} ELSE {}) :
       Update(d, [execution[d] EXCEPT !.real = real])

ExecutionStep(d) == Launch(d) \/ WaitStep(d) \/ CallRaises(d) \/ Ends(d)

-----------------------------------------------------------------------------
(* Properties. *)

(* An outcome that was returned is what happened: success and failure are how
   the execution ended, only a remote session somebody stopped is cancelled,
   and a timeout leaves no local process running, although the process may end
   by itself while it is being cancelled and a remote session may run on. *)
OutcomeIsReal ==
  \A d \in Drivers : LET e == execution[d] IN At(d, "returned") =>
    \/ e.answer = "succeeded" /\ e.real = "succeeded"
    \/ e.answer = "failed" /\ e.real \in {"failed", "unavailable"}
    \/ e.answer = "cancelled" /\ d \in Remote /\ e.real = "stopped"
    \/ e.answer = "timed_out" /\ e.expired /\ (d \in Remote \/ e.real # Running)

(* execute_and_wait returns or raises, also when the execution never ends. *)
EveryWaitEnds ==
  \A d \in Drivers : At(d, "polling") ~> execution[d].pc \in {"returned", "raised"}

=============================================================================
