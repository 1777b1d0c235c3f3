------------------------------ MODULE CronLock ------------------------------
(***************************************************************************)
(* The lock around a scheduled job (scheduler/tasks): SETNX, EXPIRE of 300 *)
(* seconds, the job, and a DEL in finally.  The tasks of invoice           *)
(* generation, overdue marking, subscription expiry and restriction        *)
(* enforcement all have this shape; the lines are those of the first.      *)
(*                                                                         *)
(* A run is one firing of the timer on one instance.  An earlier run may   *)
(* still be going on when the timer fires again.                           *)
(***************************************************************************)
EXTENDS Integers, FiniteSets

CONSTANTS Runs, None

ASSUME NoneAssumption == None \notin Runs

VARIABLES
    lock,      \* the key: history of whose SETNX has set it, None for no key
    ttl,       \* the key has a time to live
    phase,     \* what each run does next
    overrun,   \* history: a lock has expired under its run
    abandoned  \* history: a run ended between SETNX and EXPIRE

lockVars == <<lock, ttl, phase, overrun, abandoned>>

RunSteps == {"idle", "expire", "job", "release", "skipped", "ended"}

LockInit ==
    /\ lock = None
    /\ ttl = FALSE
    /\ phase = [r \in Runs |-> "idle"]
    /\ overrun = FALSE
    /\ abandoned = FALSE

Enter(r, step) == phase' = [phase EXCEPT ![r] = step]
Working(r) == phase[r] \in {"expire", "job", "release"}

Mutant_GetThenSet(r) ==
    /\ phase[r] = "idle"
    /\ lock' = r /\ ttl' = FALSE
    /\ Enter(r, "expire")
    /\ UNCHANGED <<overrun, abandoned>>
Acquire(r) ==
    /\ phase[r] = "idle"
    /\ lock = None
    /\ lock' = r /\ ttl' = FALSE
    /\ Enter(r, "expire")
    /\ UNCHANGED <<overrun, abandoned>>

Skip(r) ==
    /\ phase[r] = "idle"
    /\ lock # None
    /\ Enter(r, "skipped")
    /\ UNCHANGED <<lock, ttl, overrun, abandoned>>

Mutant_NoTtl(r) ==
    /\ phase[r] = "expire"
    /\ Enter(r, "job")
    /\ UNCHANGED <<lock, ttl, overrun, abandoned>>
\* EXPIRE concerns the key, whoever has set it, and does nothing without a key.
Expire(r) ==
    /\ phase[r] = "expire"
    /\ ttl' = (lock # None)
    /\ Enter(r, "job")
    /\ UNCHANGED <<lock, overrun, abandoned>>

\* The job is done, or has thrown: both lead to the DEL in finally.
JobEnds(r) ==
    /\ phase[r] = "job"
    /\ Enter(r, "release")
    /\ UNCHANGED <<lock, ttl, overrun, abandoned>>

\* DEL without asking whose lock it is.
Release(r) ==
    /\ phase[r] = "release"
    /\ lock' = None /\ ttl' = FALSE
    /\ Enter(r, "ended")
    /\ UNCHANGED <<overrun, abandoned>>

\* The instance stops, or a command to Redis fails: EXPIRE is outside the try.
Dies(r) ==
    /\ Working(r)
    /\ Enter(r, "ended")
    /\ abandoned' = (abandoned \/ phase[r] = "expire")
    /\ UNCHANGED <<lock, ttl, overrun>>

TimeToLiveEnds ==
    /\ lock # None /\ ttl
    /\ overrun' = (overrun \/ Working(lock))
    /\ lock' = None /\ ttl' = FALSE
    /\ UNCHANGED <<phase, abandoned>>

Run(r) == Acquire(r) \/ Skip(r) \/ Expire(r) \/ JobEnds(r) \/ Release(r)

LockNext == (\E r \in Runs : Run(r) \/ Dies(r)) \/ TimeToLiveEnds

LockSpec == LockInit /\ [][LockNext]_lockVars

\* Redis and the job answer, and keys expire; nothing makes the timer fire.
FairLockSpec ==
    /\ LockSpec
    /\ \A r \in Runs : WF_lockVars(Expire(r) \/ JobEnds(r) \/ Release(r))
    /\ WF_lockVars(TimeToLiveEnds)

-----------------------------------------------------------------------------
(* Properties.                                                             *)

LockTypeOK ==
    /\ lock \in Runs \cup {None}
    /\ ttl \in BOOLEAN /\ (ttl => lock # None)
    /\ phase \in [Runs -> RunSteps]
    /\ overrun \in BOOLEAN
    /\ abandoned \in BOOLEAN

\* As long as no job has outlived the 300 seconds of its lock, one run works at a
\* time, although DEL never asks who holds the lock.
OneRunAtATime == ~overrun => \A r, q \in Runs : Working(r) /\ Working(q) => r = q

\* A lock does not outlive its run for good, unless the run ended between SETNX and
\* EXPIRE.
LockIsFreed == lock # None ~> lock = None \/ abandoned
=============================================================================
