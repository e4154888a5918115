----------------------------- MODULE AlertDelivery -----------------------------
(***************************************************************************)
(* Alerts in apps/worker.  A job about one event of the chain reads the    *)
(* rules that match it, inserts an alert event for each and delivers it    *)
(* through the channels of the rule's owner; a delivery is a row that is   *)
(* claimed, sent and recorded.  The queue runs a job again when it throws  *)
(* or its worker dies, and several jobs may be about the same event, for a *)
(* log has one alert event per rule and so has a scanned block.            *)
(***************************************************************************)
EXTENDS Integers, FiniteSets

CONSTANTS
    Jobs,               \* jobs about the event
    Rules,              \* the rules the event matches
    Deliveries,         \* a rule and one of its owner's channels or endpoints
    Webhooks,           \* those that are endpoints, which come after the channels
    RuleOf,             \* the rule of a delivery
    None,
    Attempts,           \* DEFAULT_JOB_ATTEMPTS
    MaxClaims,          \* retryCount: 10
    MaxTroubles         \* bound: crashes, failing statements, changes by users

ASSUME AlertAssumption ==
    /\ None \notin Deliveries \cup Rules
    /\ Webhooks \subseteq Deliveries
    /\ RuleOf \in [Deliveries -> Rules]
    /\ Attempts \in Nat \ {0}
    /\ MaxClaims \in Nat \ {0}
    /\ MaxTroubles \in Nat

VARIABLES
    canonical,          \* the event's block is canonical
    on,                 \* the rules that are enabled
    linked,             \* the deliveries whose channel is verified, or endpoint there
    raised,             \* the rules whose alert event is inserted
    row,                \* notification_deliveries and webhook_deliveries
    job, tries, stalls, \* the queue's view of a job
    pc, rules, rule, todo, at, failures,    \* a run of it
    listed,             \* history: the deliveries a job has come upon
    troubles

queue == <<job, tries, stalls>>
run == <<pc, rules, rule, todo, at, failures>>
vars == <<canonical, on, linked, raised, row, queue, run, listed, troubles>>

\* A row that is not there yet is a pending one.
Rows == [status : {"pending", "sent", "failed", "delivered"},
         claims : 0 .. MaxClaims, stale : BOOLEAN]

TypeOK ==
    /\ canonical \in BOOLEAN
    /\ on \subseteq Rules
    /\ linked \subseteq Deliveries
    /\ raised \subseteq Rules
    /\ row \in [Deliveries -> Rows]
    /\ job \in [Jobs -> {"waiting", "active", "done", "dead"}]
    /\ tries \in [Jobs -> 0 .. Attempts]
    /\ stalls \in [Jobs -> 0 .. 1]
    /\ pc \in [Jobs -> {"idle", "rules", "channels", "webhooks",
                        "sending", "accepted", "refused"}]
    /\ rules \in [Jobs -> SUBSET Rules]
    /\ rule \in [Jobs -> Rules \cup {None}]
    /\ todo \in [Jobs -> SUBSET Deliveries]
    /\ at \in [Jobs -> Deliveries \cup {None}]
    /\ failures \in [Jobs -> BOOLEAN]
    /\ listed \in [Jobs -> SUBSET Deliveries]
    /\ troubles \in 0 .. MaxTroubles

Init ==
    /\ canonical = TRUE
    /\ on = Rules
    /\ linked = Deliveries
    /\ raised = {}
    /\ row = [d \in Deliveries |-> [status |-> "pending", claims |-> 0, stale |-> FALSE]]
    /\ job = [j \in Jobs |-> "waiting"]
    /\ tries = [j \in Jobs |-> 0]
    /\ stalls = [j \in Jobs |-> 0]
    /\ pc = [j \in Jobs |-> "idle"]
    /\ rules = [j \in Jobs |-> {}]
    /\ rule = [j \in Jobs |-> None]
    /\ todo = [j \in Jobs |-> {}]
    /\ at = [j \in Jobs |-> None]
    /\ failures = [j \in Jobs |-> FALSE]
    /\ listed = [j \in Jobs |-> {}]
    /\ troubles = 0

-------------------------------------------------------------------------------
(* The queue: BullMQ, as the publisher and the worker set it up.           *)

Rest(j) ==
    /\ pc' = [pc EXCEPT ![j] = "idle"]
    /\ rules' = [rules EXCEPT ![j] = {}]
    /\ rule' = [rule EXCEPT ![j] = None]
    /\ todo' = [todo EXCEPT ![j] = {}]
    /\ at' = [at EXCEPT ![j] = None]
    /\ failures' = [failures EXCEPT ![j] = FALSE]

\* The processor throws: the job is run again unless it was the last attempt.
Throws(j) ==
    /\ Rest(j)
    /\ tries' = [tries EXCEPT ![j] = @ + 1]
    /\ job' = [job EXCEPT ![j] = IF tries[j] + 1 < Attempts THEN "waiting" ELSE "dead"]
    /\ UNCHANGED stalls

Completes(j) ==
    /\ Rest(j)
    /\ job' = [job EXCEPT ![j] = "done"]
    /\ UNCHANGED <<tries, stalls>>

Trouble == troubles < MaxTroubles /\ troubles' = troubles + 1

\* The worker dies; a job that stalls once is run again.
Crash(j) ==
    /\ job[j] = "active"
    /\ Trouble
    /\ Rest(j)
    /\ stalls' = [stalls EXCEPT ![j] = 1]
    /\ job' = [job EXCEPT ![j] = IF stalls[j] = 0 THEN "waiting" ELSE "dead"]
    /\ UNCHANGED <<canonical, on, linked, raised, row, tries, listed>>

-------------------------------------------------------------------------------
(* processAlertEvaluation and RiskAlertService.evaluate.                   *)

\* The block and the rules are read.  An event of an orphaned block is dropped.
Start(j) ==
    /\ job[j] = "waiting"
    /\ IF canonical
       THEN /\ job' = [job EXCEPT ![j] = "active"]
            /\ pc' = [pc EXCEPT ![j] = "rules"]
            /\ rules' = [rules EXCEPT ![j] = on]
            /\ UNCHANGED <<rule, todo, at, failures, tries, stalls>>
       ELSE Completes(j)
    /\ UNCHANGED <<canonical, on, linked, raised, row, listed, troubles>>

\* The deliveries of a rule the database lists.
Listed(r) == {d \in linked : RuleOf[d] = r}

List(j, ds) ==
    /\ todo' = [todo EXCEPT ![j] = ds]
    /\ listed' = [listed EXCEPT ![j] = @ \cup ds]

\* deliver has gone through its rule's deliveries.
Through(j) == pc[j] = "webhooks" /\ todo[j] = {}

AtNextRule(j) == pc[j] = "rules" \/ (Through(j) /\ ~failures[j])

\* The next rule, in no order: its alert event is inserted unless it is there,
\* and its owner's channels are listed.
Raise(j) ==
    /\ AtNextRule(j)
    /\ \E r \in rules[j] :
        /\ raised' = raised \cup {r}
        /\ rules' = [rules EXCEPT ![j] = @ \ {r}]
        /\ rule' = [rule EXCEPT ![j] = r]
        /\ List(j, Listed(r) \ Webhooks)
    /\ pc' = [pc EXCEPT ![j] = "channels"]
    /\ UNCHANGED <<canonical, on, linked, row, queue, at, failures, troubles>>

\* After the channels, the endpoints are listed.
Endpoints(j) ==
    /\ pc[j] = "channels"
    /\ todo[j] = {}
    /\ List(j, Listed(rule[j]) \cap Webhooks)
    /\ pc' = [pc EXCEPT ![j] = "webhooks"]
    /\ UNCHANGED <<canonical, on, linked, raised, row, queue, rules, rule, at, failures, troubles>>

\* deliver throws when one failed: the rules that are left wait for the next
\* attempt.
Rethrow(j) ==
    /\ Through(j)
    /\ failures[j]
    /\ Throws(j)
    /\ UNCHANGED <<canonical, on, linked, raised, row, listed, troubles>>

\* The loop over the rules ends.
Done(j) ==
    /\ AtNextRule(j)
    /\ rules[j] = {}
    /\ Completes(j)
    /\ UNCHANGED <<canonical, on, linked, raised, row, listed, troubles>>

-------------------------------------------------------------------------------
(* AlertDeliveryService: one delivery.                                     *)

\* Bug: whether a claim is stale is not looked at.
ClaimableAtOnce(d) ==
    /\ row[d].claims < MaxClaims
    /\ row[d].status # "delivered"

\* Bug: claims without a limit.
ClaimableForever(d) ==
    \/ row[d].status \in {"pending", "failed"}
    \/ row[d].status = "sent" /\ row[d].stale

\* claimNotificationDelivery, after its insert
Claimable(d) ==
    /\ row[d].claims < MaxClaims
    /\ \/ row[d].status \in {"pending", "failed"}
       \/ row[d].status = "sent" /\ row[d].stale

Phase(d) == IF d \in Webhooks THEN "webhooks" ELSE "channels"

\* Bug: somebody else's claim is waited for.
SkipWhenDelivered(d) ==
    /\ row[d].status = "delivered"
    /\ UNCHANGED <<row, pc, at>>

Skip(d) == UNCHANGED <<row, pc, at>>

\* A delivery that cannot be claimed is passed over, and counts as delivered.
Claim(j) ==
    /\ pc[j] \in {"channels", "webhooks"}
    /\ \E d \in todo[j] \cap linked :
        /\ todo' = [todo EXCEPT ![j] = @ \ {d}]
        /\ IF Claimable(d)
           THEN /\ row' = [row EXCEPT ![d] = [status |-> "sent", claims |-> @.claims + 1,
                                              stale |-> FALSE]]
                /\ pc' = [pc EXCEPT ![j] = "sending"]
                /\ at' = [at EXCEPT ![j] = d]
           ELSE Skip(d)
    /\ UNCHANGED <<canonical, on, linked, raised, queue, rules, rule, failures, listed, troubles>>

\* The channel is gone: the insert breaks the foreign key, outside of the try,
\* unless the channel went after it.
ClaimGone(j) ==
    /\ pc[j] \in {"channels", "webhooks"}
    /\ \E d \in todo[j] \ linked :
        \/ Throws(j)
        \/ /\ todo' = [todo EXCEPT ![j] = @ \ {d}]
           /\ UNCHANGED <<pc, rules, rule, at, failures, queue>>
    /\ UNCHANGED <<canonical, on, linked, raised, row, listed, troubles>>

\* The provider accepts the message, or it does not, or its answer is lost.
Send(j) ==
    /\ pc[j] = "sending"
    /\ \E answer \in {"accepted", "refused"} : pc' = [pc EXCEPT ![j] = answer]
    /\ UNCHANGED <<canonical, on, linked, raised, row, queue, rules, rule, todo, at, failures,
                   listed, troubles>>

\* An update by the row's id; the row went with its channel.
Record(j, status) ==
    /\ row' = [row EXCEPT ![at[j]].status = IF at[j] \in linked THEN status ELSE @]
    /\ pc' = [pc EXCEPT ![j] = Phase(at[j])]
    /\ at' = [at EXCEPT ![j] = None]

Succeed(j) ==
    /\ pc[j] = "accepted"
    /\ Record(j, "delivered")
    /\ UNCHANGED <<canonical, on, linked, raised, queue, rules, rule, todo, failures, listed, troubles>>

\* Bug: the error is only logged.
FailQuietly(j) ==
    /\ pc[j] = "refused"
    /\ Record(j, "failed")
    /\ UNCHANGED <<canonical, on, linked, raised, queue, rules, rule, todo, failures, listed, troubles>>

\* The catch: the error is kept for the end of deliver.
Fail(j) ==
    /\ pc[j] = "refused"
    /\ Record(j, "failed")
    /\ failures' = [failures EXCEPT ![j] = TRUE]
    /\ UNCHANGED <<canonical, on, linked, raised, queue, rules, rule, todo, listed, troubles>>

\* The update of an accepted message throws into the catch, and so the message
\* counts as refused; every other statement throws out of the processor.
StatementFails(j) ==
    /\ Trouble
    /\ \/ /\ pc[j] = "accepted"
          /\ pc' = [pc EXCEPT ![j] = "refused"]
          /\ UNCHANGED <<rules, rule, todo, at, failures, queue>>
       \/ pc[j] \in {"rules", "channels", "webhooks", "refused"} /\ Throws(j)
    /\ UNCHANGED <<canonical, on, linked, raised, row, listed>>

Step(j) ==
    \/ Start(j) \/ Raise(j) \/ Endpoints(j) \/ Rethrow(j) \/ Done(j)
    \/ Claim(j) \/ ClaimGone(j) \/ Send(j) \/ Succeed(j) \/ Fail(j)

-------------------------------------------------------------------------------
(* Surroundings.                                                           *)

\* Five minutes pass after a claim.  Requests to providers time out within
\* seconds, so its run no longer waits for an answer.
GoStale(d) ==
    /\ row[d].status = "sent"
    /\ ~row[d].stale
    /\ \A j \in Jobs : at[j] # d
    /\ row' = [row EXCEPT ![d].stale = TRUE]
    /\ UNCHANGED <<canonical, on, linked, raised, queue, run, listed, troubles>>

\* A rule is disabled or deleted, a channel verified or deleted, an endpoint
\* created or deleted.
Edit ==
    /\ Trouble
    /\ \/ \E r \in on : on' = on \ {r} /\ UNCHANGED linked
       \/ \E d \in linked : linked' = linked \ {d} /\ UNCHANGED on
       \/ \E d \in Deliveries \ linked :
            /\ \A j \in Jobs : d \notin listed[j]
            /\ linked' = linked \cup {d}
            /\ UNCHANGED on
    /\ UNCHANGED <<canonical, raised, row, queue, run, listed>>

\* A reorg orphans the block.
Orphan ==
    /\ canonical
    /\ canonical' = FALSE
    /\ UNCHANGED <<on, linked, raised, row, queue, run, listed, troubles>>

Next ==
    \/ \E j \in Jobs : Step(j) \/ Crash(j) \/ StatementFails(j)
    \/ \E d \in Deliveries : GoStale(d)
    \/ Edit
    \/ Orphan

Spec == Init /\ [][Next]_vars

\* A worker goes on with the jobs of its queue.
FairSpec == Spec /\ \A j \in Jobs : WF_vars(Step(j))

-------------------------------------------------------------------------------
(* Properties.                                                             *)

Holders == [d \in Deliveries |-> {j \in Jobs : at[j] = d}]
Finished == {d \in Deliveries : row[d].status = "delivered"}

Work == INSTANCE ClaimedWork
    WITH Items <- Deliveries, Workers <- Jobs, holders <- Holders, finished <- Finished

\* Deliveries are claimed work (alert-delivery.ts:191): whatever jobs overlap,
\* are run again or die, one run at a time sends a message, and none sends or
\* fails one that is recorded as delivered.
DeliveriesAreClaimedWork == Work!Spec

\* Why: who sends holds the only fresh claim.
ClaimInv ==
    \A j \in Jobs :
        /\ job[j] = "active" <=> pc[j] # "idle"
        /\ at[j] # None <=> pc[j] \in {"sending", "accepted", "refused"}
        /\ at[j] # None =>
              /\ row[at[j]].status = "sent" /\ ~row[at[j]].stale
              /\ at[j] \in listed[j]
              /\ \A k \in Jobs : at[k] = at[j] => k = j
        /\ todo[j] \subseteq listed[j]
        /\ rule[j] # None <=> pc[j] \notin {"idle", "rules"}

\* A delivery that nobody needs to see to: it was delivered, has used its
\* claims up, or is somebody's claim.
Settled(d) ==
    \/ row[d].status \in {"sent", "delivered"}
    \/ row[d].claims = MaxClaims

\* A job that completes leaves nothing it came upon undone, though it skips
\* what it cannot claim and a failing delivery ends its attempt before the
\* rules that are left (alert-delivery.ts:104, alert-evaluation.ts:152): what is
\* not settled another job still has to see to, or died of.
NobodyForgotten ==
    canonical =>
        \A j \in Jobs : job[j] = "done" =>
            /\ on \subseteq raised
            /\ \A d \in listed[j] \cap linked :
                  \/ RuleOf[d] \notin on
                  \/ Settled(d)
                  \/ \E k \in Jobs : d \in listed[k] /\ job[k] # "done"

\* Why: a delivery some job came upon is settled, or a job still has it before
\* it or is run again because of it.
AmongChannels(k) == pc[k] = "channels" \/ (at[k] # None /\ at[k] \notin Webhooks)

Owes(k, d) ==
    \/ job[k] \in {"waiting", "dead"}
    \/ /\ job[k] = "active"
       /\ \/ failures[k] \/ RuleOf[d] \in rules[k] \/ d \in todo[k] \/ at[k] = d
          \/ d \in Webhooks /\ rule[k] = RuleOf[d] /\ AmongChannels(k)

DutyInv ==
    canonical =>
        /\ \A j \in Jobs : /\ job[j] = "active" => on \subseteq raised \cup rules[j]
                           /\ job[j] = "done" => on \subseteq raised
        /\ \A j \in Jobs : \A d \in listed[j] \cap linked :
              \/ RuleOf[d] \notin on
              \/ Settled(d)
              \/ \E k \in Jobs : d \in listed[k] /\ Owes(k, d)

\* Every job completes or runs out of attempts, however often providers refuse.
JobsEnd == \A j \in Jobs : <>(job[j] \in {"done", "dead"})
===============================================================================
