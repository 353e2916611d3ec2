---------------------------- MODULE ManualSession ----------------------------
(***************************************************************************)
(* The manual keep-awake session and its expiry scheduler                  *)
(* (src-tauri/src/manual_session.rs).  A command holds the session's mutex *)
(* from its checks to the coordinator's answer, so a command is one step.  *)
(*                                                                         *)
(* The scheduler thread waits on a condition variable, with a timeout at   *)
(* the deadline of a finite session.  When it finds a deadline passed it   *)
(* drops the mutex and takes it again inside expire_due: commands may run  *)
(* in between, and that gap is the state "Expiring".                       *)
(***************************************************************************)
EXTENDS WakeCoordinator, Naturals

CONSTANTS
  StartDurations,  \* the durations a finite session may be started with
  AddDurations,    \* the durations that may be added to one
  MaxInstant       \* the last instant: the clock stops and deadlines overflow

ASSUME SessionAssumption ==
  /\ StartDurations \subseteq Nat \ {0}
  /\ AddDurations \subseteq Nat \ {0}
  /\ MaxInstant \in Nat

VARIABLES
  now,                \* the monotonic clock
  intent,             \* what the user asked for
  backgroundFailure,  \* the last expiry could not be coordinated
  accepting,          \* commands are accepted
  scheduler,          \* where the scheduler thread is
  wakeAt              \* the timeout of its wait, while "Timed"

sessionVars == <<now, intent, backgroundFailure, accepting, scheduler, wakeAt>>

Intent == [kind : {"Inactive", "Finite", "UntilDisabled"}, deadline : Nat]
SchedulerState ==
  {"NotStarted", "Checking", "Parked", "Timed", "Expiring", "Exited"}

Inactive == [kind |-> "Inactive", deadline |-> 0]
Finite(deadline) == [kind |-> "Finite", deadline |-> deadline]
UntilDisabled == [kind |-> "UntilDisabled", deadline |-> 0]

Due == intent.kind = "Finite" /\ intent.deadline <= now

SessionInit ==
  /\ now = 0
  /\ intent = Inactive
  /\ backgroundFailure = FALSE
  /\ accepting = TRUE
  /\ scheduler = "NotStarted"
  /\ wakeAt = 0

Tick ==
  /\ now < MaxInstant
  /\ now' = now + 1
  /\ UNCHANGED <<intent, backgroundFailure, accepting, scheduler, wakeAt>>

(* notify_all: a waiting scheduler goes back to look at the session.       *)
NotifyAll ==
  scheduler' = IF scheduler \in {"Parked", "Timed"} THEN "Checking" ELSE scheduler

-----------------------------------------------------------------------------
(* Commands.                                                               *)

(* Mutant: a command changes the session without waking the scheduler.     *)
Commit_WithoutNotify(new, ok) ==
  /\ accepting
  /\ intent' = new
  /\ SetReasonActive("ManualKeepAwake", new.kind # "Inactive", ok)
  /\ backgroundFailure' = (backgroundFailure /\ ~ok)
  /\ UNCHANGED <<now, accepting, scheduler, wakeAt>>

(* Mutant: commands are still accepted after shutdown was requested.       *)
Commit_AlwaysAccepts(new, ok) ==
  /\ intent' = new
  /\ SetReasonActive("ManualKeepAwake", new.kind # "Inactive", ok)
  /\ backgroundFailure' = (backgroundFailure /\ ~ok)
  /\ NotifyAll
  /\ UNCHANGED <<now, accepting, wakeAt>>

(* What every admitted command ends with: the intent is stored, the        *)
(* coordinator is told and the scheduler is notified.  The intent is kept  *)
(* when the coordinator fails; only a success clears an earlier background *)
(* failure.                                                                *)
Commit(new, ok) ==
  /\ accepting
  /\ intent' = new
  /\ SetReasonActive("ManualKeepAwake", new.kind # "Inactive", ok)
  /\ backgroundFailure' = (backgroundFailure /\ ~ok)
  /\ NotifyAll
  /\ UNCHANGED <<now, accepting, wakeAt>>

StartFinite(duration, ok) ==
  /\ intent.kind = "Inactive"
  /\ now + duration <= MaxInstant
  /\ Commit(Finite(now + duration), ok)

StartUntilDisabled(ok) ==
  /\ intent.kind = "Inactive"
  /\ Commit(UntilDisabled, ok)

Add(duration, ok) ==
  /\ intent.kind = "Finite"
  /\ intent.deadline + duration <= MaxInstant
  /\ Commit(Finite(intent.deadline + duration), ok)

ConvertToUntilDisabled(ok) ==
  /\ intent.kind = "Finite"
  /\ Commit(UntilDisabled, ok)

Stop(ok) == Commit(Inactive, ok)

(* A command that is admitted in this state.  Every other command returns  *)
(* InvalidTransition, DeadlineOverflow or Unavailable and changes nothing. *)
Command(ok) ==
  \/ \E duration \in StartDurations : StartFinite(duration, ok)
  \/ StartUntilDisabled(ok)
  \/ \E duration \in AddDurations : Add(duration, ok)
  \/ ConvertToUntilDisabled(ok)
  \/ Stop(ok)

-----------------------------------------------------------------------------
(* The scheduler thread.                                                   *)

StartScheduler ==
  /\ scheduler = "NotStarted"
  /\ accepting
  /\ scheduler' = "Checking"
  /\ UNCHANGED <<now, intent, backgroundFailure, accepting, wakeAt>>

(* Mutant: the timeout is subtracted the wrong way around.                 *)
SchedulerCheck_InvertsTimeout ==
  /\ scheduler = "Checking"
  /\ \/ /\ ~accepting
        /\ scheduler' = "Exited"
        /\ UNCHANGED wakeAt
     \/ /\ accepting
        /\ Due
        /\ scheduler' = "Expiring"
        /\ UNCHANGED wakeAt
     \/ /\ accepting
        /\ intent.kind = "Finite"
        /\ intent.deadline > now
        /\ scheduler' = "Timed"
        /\ wakeAt' = now - intent.deadline
     \/ /\ accepting
        /\ intent.kind # "Finite"
        /\ scheduler' = "Parked"
        /\ UNCHANGED wakeAt
  /\ UNCHANGED <<now, intent, backgroundFailure, accepting>>

(* One turn of run_scheduler's loop, under the mutex up to the wait or to  *)
(* the drop that precedes expire_due.                                      *)
SchedulerCheck ==
  /\ scheduler = "Checking"
  /\ \/ /\ ~accepting
        /\ scheduler' = "Exited"
        /\ UNCHANGED wakeAt
     \/ /\ accepting
        /\ Due
        /\ scheduler' = "Expiring"
        /\ UNCHANGED wakeAt
     \/ /\ accepting
        /\ intent.kind = "Finite"
        /\ intent.deadline > now
        /\ scheduler' = "Timed"
        /\ wakeAt' = intent.deadline
     \/ /\ accepting
        /\ intent.kind # "Finite"
        /\ scheduler' = "Parked"
        /\ UNCHANGED wakeAt
  /\ UNCHANGED <<now, intent, backgroundFailure, accepting>>

(* The timed wait runs out.                                                *)
SchedulerTimeout ==
  /\ scheduler = "Timed"
  /\ wakeAt <= now
  /\ scheduler' = "Checking"
  /\ UNCHANGED <<now, intent, backgroundFailure, accepting, wakeAt>>

(* A condition variable may wake its waiter for no reason.                 *)
SchedulerSpuriousWake ==
  /\ scheduler \in {"Parked", "Timed"}
  /\ scheduler' = "Checking"
  /\ UNCHANGED <<now, intent, backgroundFailure, accepting, wakeAt>>

(* Mutant: the decision taken before the mutex was dropped is trusted.     *)
ExpireDue_TrustsStaleDecision(ok) ==
  /\ scheduler = "Expiring"
  /\ scheduler' = "Checking"
  /\ intent' = Inactive
  /\ SetReasonActive("ManualKeepAwake", FALSE, ok)
  /\ backgroundFailure' = ~ok
  /\ UNCHANGED <<now, accepting, wakeAt>>

(* expire_due looks again, under the mutex it has just taken.              *)
ExpireDue(ok) ==
  /\ scheduler = "Expiring"
  /\ scheduler' = "Checking"
  /\ \/ /\ Due
        /\ intent' = Inactive
        /\ SetReasonActive("ManualKeepAwake", FALSE, ok)
        /\ backgroundFailure' = ~ok
     \/ /\ ~Due
        /\ ok
        /\ UNCHANGED <<intent, reasons, native, backgroundFailure>>
  /\ UNCHANGED <<now, accepting, wakeAt>>

(* Mutant: the scheduler is not told that it should stop.                  *)
RequestSchedulerShutdown_WithoutNotify ==
  /\ accepting' = FALSE
  /\ UNCHANGED <<now, intent, backgroundFailure, scheduler, wakeAt>>

RequestSchedulerShutdown ==
  /\ accepting' = FALSE
  /\ NotifyAll
  /\ UNCHANGED <<now, intent, backgroundFailure, wakeAt>>

(* The join in stop_and_join returns.                                      *)
SchedulerJoined == scheduler \in {"NotStarted", "Exited"}

=============================================================================
