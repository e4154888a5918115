-------------------------------- MODULE JobQueue --------------------------------
(***************************************************************************)
(* The queue of derived jobs (packages/queue): a BullMQ queue in Redis, as *)
(* the publisher and the worker set it up.  A job's id is the hash of its  *)
(* idempotency key, and a job is not added while one of its id is there.   *)
(***************************************************************************)
EXTENDS Integers, FiniteSets

CONSTANTS
    Jobs,               \* idempotency keys
    Attempts,           \* DEFAULT_JOB_ATTEMPTS
    MaxPublished        \* bound: how often the indexer comes to publish a job

ASSUME QueueAssumption == Attempts \in Nat \ {0} /\ MaxPublished \in Nat

VARIABLES
    job,                \* "absent", "waiting" (or delayed), "active" or "failed"
    tries,              \* attemptsMade
    stalls,             \* how often its worker was lost
    owed,               \* the failed jobs whose dead letter is being written
    letters,            \* the dead-letter queue
    published,          \* how often a job was published
    completed           \* history: the jobs that were completed

queue == <<job, tries, stalls, owed, letters, published, completed>>

QueueOK ==
    /\ job \in [Jobs -> {"absent", "waiting", "active", "failed"}]
    /\ tries \in [Jobs -> 0 .. Attempts]
    /\ stalls \in [Jobs -> 0 .. 1]
    /\ owed \subseteq Jobs
    /\ letters \subseteq Jobs
    /\ published \in [Jobs -> 0 .. MaxPublished]
    /\ completed \subseteq Jobs

QueueInit ==
    /\ job = [j \in Jobs |-> "absent"]
    /\ tries = [j \in Jobs |-> 0]
    /\ stalls = [j \in Jobs |-> 0]
    /\ owed = {}
    /\ letters = {}
    /\ published = [j \in Jobs |-> 0]
    /\ completed = {}

\* A block is indexed, or indexed again, and its job is added.
Publish(j) ==
    /\ job[j] = "absent"
    /\ published[j] < MaxPublished
    /\ published' = [published EXCEPT ![j] = @ + 1]
    /\ job' = [job EXCEPT ![j] = "waiting"]
    /\ tries' = [tries EXCEPT ![j] = 0]
    /\ stalls' = [stalls EXCEPT ![j] = 0]
    /\ UNCHANGED <<owed, letters, completed>>

Take(j) ==
    /\ job[j] = "waiting"
    /\ job' = [job EXCEPT ![j] = "active"]
    /\ UNCHANGED <<tries, stalls, owed, letters, published, completed>>

\* removeOnComplete
Completes(j) ==
    /\ job' = [job EXCEPT ![j] = "absent"]
    /\ completed' = completed \cup {j}
    /\ UNCHANGED <<tries, stalls, owed, letters, published>>

\* Bug: one attempt too many.
ThrowsOnceMore(j) ==
    /\ tries' = [tries EXCEPT ![j] = @ + 1]
    /\ IF tries[j] < Attempts
       THEN job' = [job EXCEPT ![j] = "waiting"] /\ UNCHANGED owed
       ELSE job' = [job EXCEPT ![j] = "failed"] /\ owed' = owed \cup {j}
    /\ UNCHANGED <<stalls, letters, published, completed>>

\* The handler throws.  The last attempt fails the job for good: it is kept, and
\* the worker sets about its dead letter.
Throws(j) ==
    /\ tries' = [tries EXCEPT ![j] = @ + 1]
    /\ IF tries[j] + 1 < Attempts
       THEN job' = [job EXCEPT ![j] = "waiting"] /\ UNCHANGED owed
       ELSE job' = [job EXCEPT ![j] = "failed"] /\ owed' = owed \cup {j}
    /\ UNCHANGED <<stalls, letters, published, completed>>

\* The job's worker is lost, and the letters it was writing may be.  A job that
\* stalls again fails with attempts left, and so without a dead letter.
Stalls(j) ==
    /\ job[j] = "active"
    /\ job' = [job EXCEPT ![j] = IF stalls[j] = 0 THEN "waiting" ELSE "failed"]
    /\ stalls' = [stalls EXCEPT ![j] = 1]
    /\ owed' \in SUBSET owed
    /\ UNCHANGED <<tries, letters, published, completed>>

DeadLetter(j) ==
    /\ j \in owed
    /\ owed' = owed \ {j}
    /\ letters' = letters \cup {j}
    /\ UNCHANGED <<job, tries, stalls, published, completed>>

\* The error is only reported.
DeadLetterFails(j) ==
    /\ j \in owed
    /\ owed' = owed \ {j}
    /\ UNCHANGED <<job, tries, stalls, letters, published, completed>>
===============================================================================
