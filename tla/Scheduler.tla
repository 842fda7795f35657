------------------------------ MODULE Scheduler ------------------------------
(***************************************************************************)
(* The scheduler of crates/core/src/scheduler.rs (drive) and its two ends  *)
(* in crates/runtime/src/supervise.rs: the watch channel through which the *)
(* monitor hands it a reloaded configuration and the bounded channel       *)
(* through which results come back.  One-off runs take a number of samples *)
(* of each check and end; a watch runs until it is stopped.                *)
(*                                                                         *)
(* Time is only what becomes due, and a result is only whose it is.        *)
(***************************************************************************)
EXTENDS Integers, Sequences, FiniteSets

CONSTANTS
    Key,            \* job keys: a target and a check
    Scope,          \* provider scopes
    Configs,        \* the configurations that may be loaded
    Modes,          \* whether a start may be Mode::Once, Mode::Watch or either
    Samples,        \* settings.samples
    Capacity,       \* of the result channel
    MaxReloads,     \* bound on reloads
    Empty

\* A revision, its jobs in order, and the ceilings they share.
Config == [rev : Nat, jobs : Seq(Key), scope : [Key -> Scope],
           limit : Nat \ {0}, scopeLimit : [Scope -> Nat \ {0}]]

\* What is assumed of the constants: an assumption of the modules that give them values.
SchedulerConstants ==
    /\ Configs \subseteq Config
    /\ \A c \in Configs : /\ c.jobs # <<>>
                          /\ \A i, j \in DOMAIN c.jobs : c.jobs[i] = c.jobs[j] => i = j
    /\ Modes \subseteq BOOLEAN
    /\ Samples \in Nat
    /\ Capacity \in Nat \ {0}
    /\ MaxReloads \in Nat
    /\ IsFiniteSet(Key)

Status == {"running", "collected", "cancelled"}
JobTask == [key : Key, rev : Nat, scope : Scope, cancelled : BOOLEAN, status : Status]
Place == {"top", "select", "sending", "cleanup", "done"}

EmptyAssumption == Empty \notin Config \cup JobTask

VARIABLES
    once,       \* Mode::Once rather than Mode::Watch
    current,    \* the configuration the entries were made of
    due,        \* per job, whether its entry is due
    samples,    \* per job, entry.samples (one-off runs only)
    running,    \* keys of the jobs with a task
    used,       \* tasks per scope
    tasks,      \* the JoinSet
    cursor,
    place,      \* where drive is
    outbox,     \* the result it is sending
    output,     \* the result channel
    updated,    \* what the watch channel holds that drive has not seen
    effective,  \* the monitor's configuration
    stopped,    \* the stop token
    answered,   \* per job, results the monitor took (one-off runs only)
    reloads

drive == <<current, due, samples, running, used, cursor, place, outbox>>
channels == <<output, updated>>
supervisor == <<once, effective, stopped, answered, reloads>>
schedulerVars == <<drive, tasks, channels, supervisor>>

Jobs(c) == {c.jobs[i] : i \in DOMAIN c.jobs}
Sampled(k) == once /\ samples[k] >= Samples
InScope(ks, s) == {k \in ks : current.scope[k] = s}
Cancelled(t) == t.cancelled \/ stopped
IsCurrent(t, c) == t.key \in Jobs(c) /\ t.rev = c.rev

-----------------------------------------------------------------------------
SchedulerInit ==
    /\ once \in Modes
    /\ current \in Configs
    /\ effective = current
    /\ due = [k \in Key |-> TRUE]
    /\ samples = [k \in Key |-> 0]
    /\ running = {}
    /\ used = [s \in Scope |-> 0]
    /\ tasks = {}
    /\ cursor = 0
    /\ place = "top"
    /\ outbox = Empty
    /\ output = <<>>
    /\ updated = Empty
    /\ stopped = FALSE
    /\ answered = [k \in Key |-> 0]
    /\ reloads = 0

\* The entry the admission loop looks at after i others.
Nth(i) == current.jobs[1 + ((cursor + i) % Len(current.jobs))]

\* Whether job k is admitted when the jobs before were admitted ahead of it.
Fits(k, before) ==
    /\ Cardinality(running \cup before) < current.limit
    /\ due[k]
    /\ k \notin running
    /\ used[current.scope[k]] + Cardinality(InScope(before, current.scope[k]))
          < current.scopeLimit[current.scope[k]]
    /\ ~Sampled(k)

\* The jobs one pass of the loop admits: each that fits after those before it.
IsAdmission(ks) ==
    \A i \in 0 .. Len(current.jobs) - 1 :
        Nth(i) \in ks <=> Fits(Nth(i), ks \cap {Nth(j) : j \in 0 .. i - 1})

NewTask(k) == [key |-> k, rev |-> current.rev, scope |-> current.scope[k],
               cancelled |-> FALSE, status |-> "running"]

Spawned(ks) ==
    /\ running' = running \cup ks
    /\ used' = [s \in Scope |-> used[s] + Cardinality(InScope(ks, s))]
    /\ tasks' = tasks \cup {NewTask(k) : k \in ks}
    /\ due' = [k \in Key |-> due[k] /\ k \notin ks]
    /\ samples' = [k \in Key |-> IF once /\ k \in ks THEN samples[k] + 1 ELSE samples[k]]

\* Every entry's token is cancelled on the way out.
Leave ==
    /\ place' = "cleanup"
    /\ tasks' = {[t EXCEPT !.cancelled = TRUE] : t \in tasks}

\* A one-off run is over: ks are the jobs that run, taken the samples started.
Taken(ks, taken) == once /\ ks = {} /\ \A k \in Jobs(current) : taken[k] >= Samples

\* The top of the loop: stop, or admit what fits.
Admit ==
    /\ place = "top"
    /\ ~stopped
    /\ \E ks \in SUBSET Jobs(current) :
        /\ IsAdmission(ks)
        /\ Spawned(ks)
    /\ cursor' = (cursor + 1) % Len(current.jobs)
    /\ place' = (IF Taken(running', samples') THEN "cleanup" ELSE "select")
    /\ UNCHANGED <<current, outbox, channels, supervisor>>

\* The duration of a watch is over, or the stop token is seen.
EndLoop ==
    /\ \/ place = "top" /\ (stopped \/ ~once)
       \/ place \in {"select", "sending"} /\ stopped
    /\ Leave
    /\ outbox' = Empty
    /\ UNCHANGED <<current, due, samples, running, used, cursor, channels, supervisor>>

\* The sleep of the select ends.
Wake ==
    /\ place = "select"
    /\ place' = "top"
    /\ UNCHANGED <<current, due, samples, running, used, cursor, outbox, tasks,
                   channels, supervisor>>

\* Mutant: a reload leaves the tasks of the jobs it removes alone.
KeptTasks(c) == tasks

\* The tasks after a reload: those of the jobs it removes are cancelled.
RemainingTasks(c) ==
    {[t EXCEPT !.cancelled = @ \/ t.key \notin Jobs(c)] : t \in tasks}

\* Mutant: a reload waits until nothing runs.
UpdateWhenIdle ==
    /\ place = "select"
    /\ ~once
    /\ updated # Empty
    /\ tasks = {}
    /\ current' = updated
    /\ updated' = Empty
    /\ tasks' = RemainingTasks(updated)
    /\ due' = [k \in Key |-> TRUE]
    /\ samples' = [k \in Key |-> 0]
    /\ place' = "top"
    /\ UNCHANGED <<running, used, cursor, outbox, output, supervisor>>

\* A reloaded configuration replaces the entries: all are due again.
Update ==
    /\ place = "select"
    /\ ~once
    /\ updated # Empty
    /\ current' = updated
    /\ updated' = Empty
    /\ tasks' = RemainingTasks(updated)
    /\ due' = [k \in Key |-> TRUE]
    /\ samples' = [k \in Key |-> 0]
    /\ place' = "top"
    /\ UNCHANGED <<running, used, cursor, outbox, output, supervisor>>

\* Mutant: the scope a task is charged to is looked up in the new entries.
ReleasedCurrent(t) == [used EXCEPT ![current.scope[t.key]] = IF @ > 0 THEN @ - 1 ELSE 0]

\* A task's scope gets its slot back.
Released(t) == [used EXCEPT ![t.scope] = IF @ > 0 THEN @ - 1 ELSE 0]

\* A task has ended: its slot is free; its result goes out if it is current.
Join ==
    /\ place = "select"
    /\ \E t \in tasks :
        /\ t.status # "running"
        /\ tasks' = tasks \ {t}
        /\ running' = running \ {t.key}
        /\ used' = Released(t)
        /\ IF IsCurrent(t, current) THEN place' = "sending" /\ outbox' = t
           ELSE place' = "top" /\ UNCHANGED outbox
    /\ UNCHANGED <<current, due, samples, cursor, channels, supervisor>>

Send ==
    /\ place = "sending"
    /\ Len(output) < Capacity
    /\ output' = Append(output, outbox)
    /\ outbox' = Empty
    /\ place' = "top"
    /\ UNCHANGED <<current, due, samples, running, used, cursor, tasks, updated, supervisor>>

\* Cleanup sends every remaining result, of whatever revision.
Drain ==
    /\ place = "cleanup"
    /\ Len(output) < Capacity
    /\ \E t \in tasks :
        /\ t.status # "running"
        /\ tasks' = tasks \ {t}
        /\ output' = Append(output, t)
    /\ UNCHANGED <<drive, updated, supervisor>>

End ==
    /\ place = "cleanup"
    /\ tasks = {}
    /\ place' = "done"
    /\ UNCHANGED <<current, due, samples, running, used, cursor, outbox, tasks,
                   channels, supervisor>>

\* The cleanup's five seconds are over, or the monitor's four: what still runs
\* is aborted, and drive with it in the second case.
Abort ==
    /\ place = "cleanup" \/ (stopped /\ place # "done")
    /\ tasks # {} \/ place # "cleanup"
    /\ tasks' = {}
    /\ place' = "done"
    /\ outbox' = Empty
    /\ UNCHANGED <<current, due, samples, running, used, cursor, channels, supervisor>>

-----------------------------------------------------------------------------
(* The tasks and the time. *)

\* A collection ends with a result, cancelled or not.
Gather(t) ==
    /\ t.status = "running"
    /\ tasks' = (tasks \ {t}) \cup {[t EXCEPT !.status = "collected"]}
    /\ UNCHANGED <<drive, channels, supervisor>>

\* A cancelled task may give up its collection.
GiveUp(t) ==
    /\ t.status = "running"
    /\ Cancelled(t)
    /\ tasks' = (tasks \ {t}) \cup {[t EXCEPT !.status = "cancelled"]}
    /\ UNCHANGED <<drive, channels, supervisor>>

\* A job's interval has passed; ticks that were missed coalesce.
Elapse(k) ==
    /\ place \notin {"cleanup", "done"}
    /\ ~due[k]
    /\ due' = [due EXCEPT ![k] = TRUE]
    /\ UNCHANGED <<current, samples, running, used, cursor, place, outbox, tasks,
                   channels, supervisor>>

-----------------------------------------------------------------------------
(* The monitor. *)

\* A reload that was accepted: the watch channel holds the newest only.
Reload(c) ==
    /\ ~once
    /\ ~stopped
    /\ place # "done"
    /\ reloads < MaxReloads
    /\ c # effective
    /\ effective' = c
    /\ updated' = c
    /\ reloads' = reloads + 1
    /\ UNCHANGED <<drive, tasks, output, once, stopped, answered>>

SignalStop ==
    /\ ~stopped
    /\ place # "done"
    /\ stopped' = TRUE
    /\ UNCHANGED <<drive, tasks, channels, once, effective, answered, reloads>>

\* The monitor takes a result and applies it if it is of its configuration.
Receive ==
    /\ output # <<>>
    /\ output' = Tail(output)
    /\ answered' = IF once /\ IsCurrent(Head(output), effective)
                   THEN [answered EXCEPT ![Head(output).key] = @ + 1] ELSE answered
    /\ UNCHANGED <<drive, tasks, updated, once, effective, stopped, reloads>>

SchedulerNext ==
    \/ Admit \/ EndLoop \/ Wake \/ Update \/ Join \/ Send
    \/ Drain \/ End \/ Abort
    \/ \E t \in tasks : Gather(t) \/ GiveUp(t)
    \/ \E k \in Key : Elapse(k)
    \/ \E c \in Configs : Reload(c)
    \/ SignalStop
    \/ Receive

SchedulerSpec == SchedulerInit /\ [][SchedulerNext]_schedulerVars

\* Each task is polled; a branch of the select that is ready when it is entered
\* comes before the sleep, which takes ten milliseconds at least; the monitor
\* takes results; collections have deadlines and intervals pass.
FairScheduler ==
    /\ SchedulerSpec
    /\ WF_schedulerVars(Admit) /\ WF_schedulerVars(Wake) /\ WF_schedulerVars(Send)
    /\ WF_schedulerVars(Drain) /\ WF_schedulerVars(End)
    /\ WF_schedulerVars(stopped /\ EndLoop)
    /\ SF_schedulerVars(Join) /\ SF_schedulerVars(Update)
    /\ WF_schedulerVars(Receive)
    /\ WF_schedulerVars(\E t \in tasks : Gather(t))
    /\ \A k \in Key : WF_schedulerVars(Elapse(k))

-----------------------------------------------------------------------------
\* Every part of the scheduler keeps its shape.
SchedulerType ==
    /\ once \in Modes
    /\ current \in Configs
    /\ effective \in Configs
    /\ due \in [Key -> BOOLEAN]
    /\ samples \in [Key -> Nat]
    /\ running \subseteq Key
    /\ used \in [Scope -> Nat]
    /\ tasks \subseteq JobTask
    /\ cursor \in Nat
    /\ place \in Place
    /\ outbox \in JobTask \cup {Empty}
    /\ output \in Seq(JobTask)
    /\ Len(output) <= Capacity
    /\ updated \in Configs \cup {Empty}
    /\ stopped \in BOOLEAN
    /\ answered \in [Key -> Nat]
    /\ reloads \in 0 .. MaxReloads

\* "A check does not overlap itself": through ends, reloads and removals of its
\* job, a job has one task at most, and running knows it (scheduler.rs, drive).
NoOverlap ==
    place \notin {"cleanup", "done"} =>
        /\ \A t, u \in tasks : t.key = u.key => t = u
        /\ running = {t.key : t \in tasks}

\* The slots counted against a scope are those of the tasks charged to it, also
\* when a reload moved the job to another scope.
SlotsMatchTasks ==
    place \notin {"cleanup", "done"} =>
        \A s \in Scope : used[s] = Cardinality({t \in tasks : t.scope = s})

\* The tasks there are, the jobs that count as running and the slots that are taken are the same
\* at any time, whatever ends, is reloaded or removed.
TasksMatchSlots == NoOverlap /\ SlotsMatchTasks

\* "Cancel removed checks": no task of a job that is not configured runs on
\* uncancelled.
RemovedAreCancelled ==
    \A t \in tasks : t.key \notin Jobs(current) => t.cancelled

\* A one-off run ends, and unless it is stopped it ends with every sample of
\* every check taken and received.
OnceEnds ==
    once ~> /\ place = "done"
            /\ stopped \/ \A k \in Jobs(current) : answered[k] = Samples

\* A stop ends the scheduler, and a reload reaches it, though it may be blocked on the
\* result channel that the stopping or reloading monitor empties.
SignalsArrive ==
    /\ stopped ~> place = "done"
    /\ effective # current ~> (effective = current \/ place \in {"cleanup", "done"})
=============================================================================
