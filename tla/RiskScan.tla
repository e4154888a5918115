-------------------------------- MODULE RiskScan --------------------------------
(***************************************************************************)
(* Risk scans in apps/worker.  A risk-analysis job goes through the        *)
(* targets of an event: it claims the scan of a target at the event's      *)
(* block, runs the rules, writes findings, score and status one after the  *)
(* other, and lets the alerts on the score be evaluated.  Jobs about       *)
(* different events of a block may have a target in common.                *)
(***************************************************************************)
EXTENDS JobQueue, Sequences

CONSTANTS
    Targets,            \* the idempotency keys of scans
    TargetsOf,          \* the targets of a job, in their order
    Rules,              \* the ruleset
    Verdicts,           \* what a rule may conclude: pass, warning, fail, not applicable
    MaxTroubles         \* bound: crashes and failing statements

ASSUME ScanAssumption ==
    /\ TargetsOf \in [Jobs -> Seq(Targets)]
    /\ MaxTroubles \in Nat

VARIABLES
    canonical,          \* the block is canonical in the database and at the provider
    scan,               \* risk_scan_runs
    found,              \* risk_findings
    score,              \* risk_scores: what the rules said when it was computed
    alerted,            \* alert events: a target and what the rules said
    pc, todo, result,   \* a run of a job
    lost,               \* history: the scans whose run ended without a word
    again,              \* history: the scans begun over findings of a failed attempt
    troubles

tables == <<scan, found, score>>
run == <<pc, todo, result>>
vars == <<queue, canonical, tables, alerted, run, lost, again, troubles>>

\* What a rule says, or that the orchestrator had to speak for it: a timeout of its
\* own or of the scan, an exception, a source that was not available.
Outcomes == Verdicts \cup {"unknown", "unavailable"}
Results == [Rules -> Outcomes]
Nothing == [r \in Rules |-> "unavailable"]

\* Whatever a rule says, it says under one seed; the orchestrator has another.
Fingerprint(p) == <<p[1], p[2] = "unavailable">>

Working == {"claimed", "scan", "findings", "score", "finish", "failing"}

TypeOK ==
    /\ QueueOK
    /\ canonical \in BOOLEAN
    /\ scan \in [Targets -> {"none", "running", "failed", "partial", "completed"}]
    /\ found \in [Targets -> SUBSET (Rules \X Outcomes)]
    /\ score \in [Targets -> Results]
    /\ alerted \subseteq Targets \X Results
    /\ pc \in [Jobs -> Working \cup {"idle", "load", "claim", "alerts"}]
    /\ todo \in [Jobs -> Seq(Targets)]
    /\ result \in [Jobs -> Results]
    /\ lost \subseteq Targets
    /\ again \subseteq Targets
    /\ troubles \in 0 .. MaxTroubles

Init ==
    /\ QueueInit
    /\ canonical = TRUE
    /\ scan = [t \in Targets |-> "none"]
    /\ found = [t \in Targets |-> {}]
    /\ score = [t \in Targets |-> Nothing]
    /\ alerted = {}
    /\ pc = [j \in Jobs |-> "idle"]
    /\ todo = [j \in Jobs |-> <<>>]
    /\ result = [j \in Jobs |-> Nothing]
    /\ lost = {}
    /\ again = {}
    /\ troubles = 0

-------------------------------------------------------------------------------
(* processRiskAnalysis                                                     *)

At(j) == Head(todo[j])

Goto(j, where) == pc' = [pc EXCEPT ![j] = where]

Trouble == troubles < MaxTroubles /\ troubles' = troubles + 1

Rest(j) ==
    /\ Goto(j, "idle")
    /\ todo' = [todo EXCEPT ![j] = <<>>]
    /\ result' = [result EXCEPT ![j] = Nothing]

Start(j) ==
    /\ Take(j)
    /\ Goto(j, "load")
    /\ todo' = [todo EXCEPT ![j] = TargetsOf[j]]
    /\ UNCHANGED <<canonical, tables, alerted, result, lost, again, troubles>>

Done(j) ==
    /\ pc[j] = "load"
    /\ todo[j] = <<>>
    /\ Rest(j)
    /\ Completes(j)
    /\ UNCHANGED <<canonical, tables, alerted, lost, again, troubles>>

NextTarget(j) ==
    /\ Goto(j, "load")
    /\ todo' = [todo EXCEPT ![j] = Tail(@)]
    /\ result' = [result EXCEPT ![j] = Nothing]

-------------------------------------------------------------------------------
(* RiskScanJob.run                                                         *)

\* The block is validated before and after the context is loaded, and what it
\* finds at the end may be out of date when the scan is claimed.
Load(j) ==
    /\ pc[j] = "load"
    /\ todo[j] # <<>>
    /\ IF canonical
       THEN Goto(j, "claim") /\ UNCHANGED <<queue, todo, result>>
       ELSE Rest(j) /\ Throws(j)
    /\ UNCHANGED <<canonical, tables, alerted, lost, again, troubles>>

\* Bug: a scan that seems to hang may be done again.
ClaimableTillDone(t) == scan[t] \in {"none", "failed", "running"}

\* claimScanRun: its insert, or its update of a failed row
Claimable(t) == scan[t] \in {"none", "failed"}

\* Bug: the scan of another job is waited for.
ClaimOrWait(j) ==
    /\ pc[j] = "claim"
    /\ scan[At(j)] # "running"
    /\ IF Claimable(At(j))
       THEN /\ scan' = [scan EXCEPT ![At(j)] = "running"]
            /\ again' = IF found[At(j)] = {} THEN again ELSE again \cup {At(j)}
            /\ Goto(j, "claimed")
            /\ UNCHANGED <<todo, result>>
       ELSE NextTarget(j) /\ UNCHANGED <<scan, again>>
    /\ UNCHANGED <<queue, canonical, found, score, alerted, lost, troubles>>

Claim(j) ==
    /\ pc[j] = "claim"
    /\ IF Claimable(At(j))
       THEN /\ scan' = [scan EXCEPT ![At(j)] = "running"]
            /\ again' = IF found[At(j)] = {} THEN again ELSE again \cup {At(j)}
            /\ Goto(j, "claimed")
            /\ UNCHANGED <<todo, result>>
       ELSE NextTarget(j) /\ UNCHANGED <<scan, again>>
    /\ UNCHANGED <<queue, canonical, found, score, alerted, lost, troubles>>

\* isScanCancellationRequested, before the try; nobody requests one.
Begin(j) ==
    /\ pc[j] = "claimed"
    /\ Goto(j, "scan")
    /\ UNCHANGED <<queue, canonical, tables, alerted, todo, result, lost, again, troubles>>

\* The orchestrator: every rule is evaluated, and says nothing if it cannot.
Scan(j) ==
    /\ pc[j] = "scan"
    /\ \E f \in Results : result' = [result EXCEPT ![j] = f]
    /\ Goto(j, "findings")
    /\ UNCHANGED <<queue, canonical, tables, alerted, todo, lost, again, troubles>>

Findings(f) == {<<r, f[r]>> : r \in Rules}

\* Bug: a finding of the rule is enough, whoever spoke for it.
FreshRules(f, stored) == {p \in Findings(f) : \A q \in stored : q[1] # p[1]}

\* Of a fingerprint that is there nothing is inserted: what a failed attempt found
\* stays, and what the rule says now is dropped.
Fresh(f, stored) == {p \in Findings(f) : \A q \in stored : Fingerprint(q) # Fingerprint(p)}

InsertFindings(j) ==
    /\ pc[j] = "findings"
    /\ found' = [found EXCEPT ![At(j)] = @ \cup Fresh(result[j], @)]
    /\ Goto(j, "score")
    /\ UNCHANGED <<queue, canonical, scan, score, alerted, todo, result, lost, again, troubles>>

InsertScore(j) ==
    /\ pc[j] = "score"
    /\ score' = [score EXCEPT ![At(j)] = result[j]]
    /\ Goto(j, "finish")
    /\ UNCHANGED <<queue, canonical, scan, found, alerted, todo, result, lost, again, troubles>>

StatusOf(f) ==
    IF \E r \in Rules : f[r] \in {"unknown", "unavailable"} THEN "partial" ELSE "completed"

Finish(j) ==
    /\ pc[j] = "finish"
    /\ scan' = [scan EXCEPT ![At(j)] = StatusOf(result[j])]
    /\ Goto(j, "alerts")
    /\ UNCHANGED <<queue, canonical, found, score, alerted, todo, result, lost, again, troubles>>

\* Bug: the error is thrown on at once.
GiveUpAtOnce(j) ==
    /\ pc[j] = "failing"
    /\ Rest(j)
    /\ Throws(j)
    /\ UNCHANGED <<canonical, tables, alerted, lost, again, troubles>>

\* The catch: the scan is failed, and the job with it.
GiveUp(j) ==
    /\ pc[j] = "failing"
    /\ scan' = [scan EXCEPT ![At(j)] = "failed"]
    /\ Rest(j)
    /\ Throws(j)
    /\ UNCHANGED <<canonical, found, score, alerted, lost, again, troubles>>

\* RiskAlertService.evaluate, after a scan of the job's own: there is nothing to
\* compare with, no rule that cares or no canonical block any more, or an event
\* is raised and delivered, which may throw.
Evaluate(j) ==
    /\ pc[j] = "alerts"
    /\ \/ NextTarget(j) /\ UNCHANGED <<queue, alerted>>
       \/ /\ canonical
          /\ alerted' = alerted \cup {<<At(j), result[j]>>}
          /\ \/ NextTarget(j) /\ UNCHANGED queue
             \/ Rest(j) /\ Throws(j)
    /\ UNCHANGED <<canonical, tables, lost, again, troubles>>

\* A statement fails.  In the try, the scan is to fail too; in its catch, or
\* before it, the scan stays as it is.
StatementFails(j) ==
    /\ Trouble
    /\ \/ /\ pc[j] \in {"scan", "findings", "score", "finish"}
          /\ Goto(j, "failing")
          /\ UNCHANGED <<queue, todo, result, lost>>
       \/ /\ pc[j] \in {"claimed", "failing"}
          /\ lost' = lost \cup {At(j)}
          /\ Rest(j) /\ Throws(j)
       \/ /\ pc[j] \in {"load", "claim", "alerts"} /\ todo[j] # <<>>
          /\ Rest(j) /\ Throws(j) /\ UNCHANGED lost
    /\ UNCHANGED <<canonical, tables, alerted, again>>

Step(j) ==
    \/ Start(j) \/ Done(j) \/ Load(j) \/ Claim(j) \/ Begin(j) \/ Scan(j) \/ InsertFindings(j)
    \/ InsertScore(j) \/ Finish(j) \/ GiveUp(j) \/ Evaluate(j)

-------------------------------------------------------------------------------
(* Surroundings.                                                           *)

Replay(j) == Publish(j) /\ UNCHANGED <<canonical, tables, alerted, run, lost, again, troubles>>

Crash(j) ==
    /\ Trouble
    /\ Stalls(j)
    /\ Rest(j)
    /\ lost' = lost \cup (IF pc[j] \in Working THEN {At(j)} ELSE {})
    /\ UNCHANGED <<canonical, tables, alerted, again>>

Write(j) == DeadLetter(j) /\ UNCHANGED <<canonical, tables, alerted, run, lost, again, troubles>>

WriteFails(j) ==
    DeadLetterFails(j) /\ Trouble /\ UNCHANGED <<canonical, tables, alerted, run, lost, again>>

\* A reorg: nobody invalidates the scans of the block.
Orphan ==
    /\ canonical
    /\ canonical' = FALSE
    /\ UNCHANGED <<queue, tables, alerted, run, lost, again, troubles>>

Next ==
    \/ \E j \in Jobs :
          Step(j) \/ StatementFails(j) \/ Replay(j) \/ Crash(j) \/ Write(j) \/ WriteFails(j)
    \/ Orphan

Spec == Init /\ [][Next]_vars

\* A worker goes on with the jobs of its queue.
FairSpec == Spec /\ \A j \in Jobs : WF_vars(Step(j))

-------------------------------------------------------------------------------
(* Properties.                                                             *)

Holders == [t \in Targets |-> {j \in Jobs : pc[j] \in Working /\ At(j) = t}]
Finished == {t \in Targets : scan[t] \in {"partial", "completed"}}

Work == INSTANCE ClaimedWork
    WITH Items <- Targets, Workers <- Jobs, holders <- Holders, finished <- Finished

\* Scans are claimed work (risk-repository.ts:348): one job at a time scans a
\* target at a block, and none when it is scanned, whatever is retried, replayed
\* or dies.
ScansAreClaimedWork == Work!Spec

\* Each finding of the score has one of its fingerprint in the table.
Answered(f, stored) == \A p \in Findings(f) : \E q \in stored : Fingerprint(q) = Fingerprint(p)

\* What a finished scan says is consistent, though each of the three writes may fail
\* and be made again (risk-scan.ts:191).  The findings of a scan are exactly those
\* its score was computed from.  A scan begun again over findings of a failed
\* attempt has at least one for each fingerprint of its score, maybe an older one
\* (risk-repository.ts:624 inserts nothing on a conflict).  The status is that of
\* the score, and an alert is about the score that stayed.
ScoresAreExplained ==
    /\ \A t \in Finished :
          /\ t \notin again => found[t] = Findings(score[t])
          /\ Answered(score[t], found[t])
          /\ scan[t] = StatusOf(score[t])
    /\ \A a \in alerted : a[1] \in Finished /\ score[a[1]] = a[2]

Has(j, t) == \E i \in DOMAIN TargetsOf[j] : TargetsOf[j][i] = t

\* A job that was completed passed over no scan that failed (risk-scan.ts:157):
\* it is done, being done or to be done again, or was lost by its run.
NoScanIsForgotten ==
    \A j \in completed : \A t \in Targets : Has(j, t) =>
        \/ t \in Finished
        \/ Holders[t] # {}
        \/ t \in lost
        \/ scan[t] = "failed" /\ \E k \in Jobs : Has(k, t) /\ job[k] # "absent"

\* Every job comes to an end, also when another one died at the scan it needs
\* (risk-scan.ts:157), and one with a dead letter is never added again, though its
\* block is indexed again (publisher.ts:58).
JobsEnd ==
    /\ \A j \in Jobs : job[j] \in {"waiting", "active"} ~> job[j] \in {"absent", "failed"}
    /\ \A j \in Jobs : [](j \in letters => job[j] = "failed")
===============================================================================
