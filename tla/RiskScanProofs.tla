----------------------------- MODULE RiskScanProofs -----------------------------
(***************************************************************************)
(* Proofs about RiskScan, for every set of jobs, targets and rules, every  *)
(* sequence of targets of a job and every number of attempts and troubles. *)
(***************************************************************************)
EXTENDS RiskScan, TLAPS

In(s, t) == \E i \in DOMAIN s : s[i] = t

\* The queue's view of a job and its run agree.
JobInv ==
    \A j \in Jobs :
        /\ job[j] = "active" <=> pc[j] # "idle"
        /\ job[j] \in {"waiting", "active"} => tries[j] < Attempts
        /\ pc[j] \notin {"idle", "load"} => todo[j] # <<>>
        /\ \A t \in Targets : In(todo[j], t) => Has(j, t)
        /\ j \in letters \cup owed => job[j] = "failed"

\* A job at work on a scan holds it.
HoldInv ==
    \A j \in Jobs : pc[j] \in Working =>
        /\ scan[At(j)] = "running"
        /\ \A k \in Jobs : pc[k] \in Working /\ At(k) = At(j) => k = j

\* The findings that are stored for a target are those of what the rules said.
Told(f, t) ==
    /\ t \notin again => found[t] = Findings(f)
    /\ Answered(f, found[t])

\* What it has written so far.
ResultInv ==
    \A j \in Jobs :
        /\ pc[j] \in {"claimed", "scan", "findings"} => At(j) \in again \/ found[At(j)] = {}
        /\ pc[j] \in {"score", "finish"} => Told(result[j], At(j))
        /\ pc[j] = "finish" => score[At(j)] = result[j]
        /\ pc[j] = "alerts" => At(j) \in Finished /\ score[At(j)] = result[j]

\* A scan that is done, being done, lost or to be done again.
Held(t) == \E j \in Jobs : pc[j] \in Working /\ At(j) = t

Owes(k, t) ==
    /\ Has(k, t)
    /\ job[k] \in {"waiting", "failed"} \/ (job[k] = "active" /\ In(todo[k], t))

Seen(t) ==
    \/ scan[t] \in {"partial", "completed"}
    \/ Held(t)
    \/ t \in lost
    \/ scan[t] = "failed" /\ \E k \in Jobs : Owes(k, t)

SeenInv ==
    /\ \A t \in Targets : scan[t] = "running" => Held(t) \/ t \in lost
    /\ \A j \in Jobs, t \in Targets :
          /\ j \in completed /\ Has(j, t) => Seen(t)
          /\ job[j] = "active" /\ Has(j, t) => In(todo[j], t) \/ Seen(t)

\* The inductive invariant.
IInv == TypeOK /\ JobInv /\ HoldInv /\ ResultInv /\ ScoresAreExplained /\ SeenInv

-------------------------------------------------------------------------------
(* Sequences.                                                              *)

LEMMA Split ==
    ASSUME NEW T, NEW s \in Seq(T), s # <<>>
    PROVE  /\ Head(s) \in T /\ Tail(s) \in Seq(T) /\ In(s, Head(s))
           /\ \A t : In(s, t) <=> t = Head(s) \/ In(Tail(s), t)
  <1>1. Len(s) \in Nat \ {0} /\ DOMAIN s = 1 .. Len(s) /\ Head(s) = s[1]
    OBVIOUS
  <1>2. /\ Tail(s) \in Seq(T) /\ Len(Tail(s)) = Len(s) - 1
        /\ \A i \in 1 .. Len(s) - 1 : Tail(s)[i] = s[i + 1]
    OBVIOUS
  <1>3. DOMAIN Tail(s) = 1 .. Len(s) - 1
    BY <1>1, <1>2
  <1>4. Head(s) \in T /\ In(s, Head(s))
    BY <1>1 DEF In
  <1>5. ASSUME NEW t, In(s, t), t # Head(s) PROVE In(Tail(s), t)
    <2>1. PICK i \in 1 .. Len(s) : s[i] = t
      BY <1>1, <1>5 DEF In
    <2>2. i - 1 \in 1 .. Len(s) - 1 /\ Tail(s)[i - 1] = s[i]
      BY <1>1, <1>2, <1>5, <2>1
    <2> QED BY <1>3, <2>1, <2>2 DEF In
  <1>6. ASSUME NEW t, In(Tail(s), t) PROVE In(s, t)
    <2>1. PICK i \in 1 .. Len(s) - 1 : Tail(s)[i] = t
      BY <1>3, <1>6 DEF In
    <2>2. i + 1 \in 1 .. Len(s) /\ s[i + 1] = t
      BY <1>1, <1>2, <2>1
    <2> QED BY <1>1, <2>2 DEF In
  <1> QED BY <1>2, <1>4, <1>5, <1>6

LEMMA NotInEmpty == \A t : ~In(<<>>, t)
  BY DEF In

\* The target a job is at.
LEMMA AtFacts ==
    ASSUME IInv, NEW j \in Jobs, todo[j] # <<>>
    PROVE  /\ At(j) \in Targets /\ Has(j, At(j)) /\ Tail(todo[j]) \in Seq(Targets)
           /\ \A t : In(todo[j], t) <=> t = At(j) \/ In(Tail(todo[j]), t)
  BY Split DEF IInv, TypeOK, JobInv, At

-------------------------------------------------------------------------------
(* A step of one job.                                                      *)

Others(j) ==
    \A k \in Jobs \ {j} :
        /\ job'[k] = job[k] /\ tries'[k] = tries[k] /\ pc'[k] = pc[k]
        /\ todo'[k] = todo[k] /\ result'[k] = result[k]

\* What others owe or hold they still do.
LEMMA OthersKeep ==
    ASSUME NEW j \in Jobs, Others(j)
    PROVE  /\ \A k \in Jobs \ {j}, t \in Targets : Owes(k, t) => Owes(k, t)'
           /\ \A t \in Targets : (\E k \in Jobs \ {j} : pc[k] \in Working /\ At(k) = t) => Held(t)'
  BY DEF Others, Owes, Held, Has, At

LEMMA SeenStep ==
    ASSUME IInv, NEW j \in Jobs, Others(j), completed' \subseteq completed \cup {j},
           \A t \in Targets : Seen(t) => Seen(t)',
           \A t \in Targets : scan'[t] = "running" => Held(t)' \/ t \in lost',
           \A t \in Targets : j \in completed' \ completed /\ Has(j, t) => Seen(t)',
           \A t \in Targets : job'[j] = "active" /\ Has(j, t) => In(todo[j], t)' \/ Seen(t)'
    PROVE  SeenInv'
  <1>1. \A i \in Jobs, t \in Targets : Has(i, t)' <=> Has(i, t)
    BY DEF Has
  <1>2. ASSUME NEW i \in Jobs, NEW t \in Targets, Has(i, t)
        PROVE  /\ i \in completed' => Seen(t)'
               /\ job'[i] = "active" => In(todo[i], t)' \/ Seen(t)'
    <2>1. CASE i = j
      BY <1>2, <2>1 DEF IInv, SeenInv
    <2>2. CASE i # j
      BY <1>2, <2>2 DEF IInv, SeenInv, Others, In
    <2> QED BY <2>1, <2>2
  <1> QED BY <1>1, <1>2 DEF SeenInv

\* The rows a step of job j may change are not another one's, and not final.
Untouched(j) ==
    \A t \in Targets :
        \/ /\ scan'[t] = scan[t] /\ score'[t] = score[t] /\ found'[t] = found[t]
           /\ t \in again' <=> t \in again
        \/ /\ scan[t] \notin {"partial", "completed"}
           /\ \A k \in Jobs \ {j} : ~(pc[k] \in Working /\ At(k) = t)

LEMMA OthersAt ==
    ASSUME NEW j \in Jobs, Others(j), NEW k \in Jobs \ {j}
    PROVE  /\ job'[k] = job[k] /\ tries'[k] = tries[k] /\ pc'[k] = pc[k]
           /\ todo'[k] = todo[k] /\ result'[k] = result[k] /\ At(k)' = At(k)
  BY DEF Others, At

LEMMA HoldStep ==
    ASSUME IInv, NEW j \in Jobs, Others(j), Untouched(j),
           pc'[j] \in Working => /\ At(j)' = At(j) /\ At(j) \in Targets /\ scan'[At(j)] = "running"
                                 /\ \A k \in Jobs \ {j} : ~(pc[k] \in Working /\ At(k) = At(j))
    PROVE  HoldInv'
  <1> SUFFICES ASSUME NEW i \in Jobs, pc'[i] \in Working
               PROVE  /\ scan'[At(i)'] = "running"
                      /\ \A k \in Jobs : pc'[k] \in Working /\ At(k)' = At(i)' => k = i
    BY DEF HoldInv
  <1>1. CASE i = j
    BY <1>1, OthersAt
  <1>2. CASE i # j
    <2>1. pc[i] \in Working /\ At(i)' = At(i)
      BY <1>2, OthersAt
    <2>2. scan[At(i)] = "running" /\ At(i) \in Targets
      <3>1. todo[i] # <<>>
        BY <2>1 DEF IInv, JobInv, Working
      <3> QED BY <2>1, <3>1, AtFacts DEF IInv, HoldInv
    <2>3. scan'[At(i)] = "running"
      BY <1>2, <2>1, <2>2 DEF Untouched
    <2>4. \A k \in Jobs : pc'[k] \in Working /\ At(k)' = At(i)' => k = i
      <3> SUFFICES ASSUME NEW k \in Jobs, pc'[k] \in Working, At(k)' = At(i)' PROVE k = i
        OBVIOUS
      <3>1. CASE k = j
        BY <1>2, <2>1, <3>1
      <3>2. CASE k # j
        BY <2>1, <3>2, OthersAt DEF IInv, HoldInv
      <3> QED BY <3>1, <3>2
    <2> QED BY <2>1, <2>3, <2>4
  <1> QED BY <1>1, <1>2

LEMMA ResultStep ==
    ASSUME IInv, NEW j \in Jobs, Others(j), Untouched(j),
           pc'[j] \in {"claimed", "scan", "findings"} => At(j)' \in again' \/ found'[At(j)'] = {},
           pc'[j] \in {"score", "finish"} => Told(result[j], At(j))',
           pc'[j] = "finish" => score'[At(j)'] = result'[j],
           pc'[j] = "alerts" => /\ At(j)' \in Targets /\ scan'[At(j)'] \in {"partial", "completed"}
                                /\ score'[At(j)'] = result'[j],
           \A t \in Targets :
               scan[t] \notin {"partial", "completed"} /\ scan'[t] \in {"partial", "completed"}
                   => Told(score[t], t)' /\ scan'[t] = StatusOf(score'[t]),
           alerted' \subseteq alerted \cup {<<At(j), result[j]>>},
           alerted' # alerted => pc[j] = "alerts"
    PROVE  ResultInv' /\ ScoresAreExplained'
  <1>1. \A t \in Targets : t \in Finished => /\ t \in Finished' /\ score'[t] = score[t]
                                             /\ scan'[t] = scan[t] /\ found'[t] = found[t]
                                             /\ t \in again' <=> t \in again
    BY DEF Untouched, Finished
  <1>2. ResultInv'
    <2> SUFFICES ASSUME NEW i \in Jobs
                 PROVE  /\ pc'[i] \in {"claimed", "scan", "findings"} =>
                              At(i)' \in again' \/ found'[At(i)'] = {}
                        /\ pc'[i] \in {"score", "finish"} => Told(result[i], At(i))'
                        /\ pc'[i] = "finish" => score'[At(i)'] = result'[i]
                        /\ pc'[i] = "alerts" =>
                              At(i)' \in Finished' /\ score'[At(i)'] = result'[i]
      BY DEF ResultInv
    <2>1. CASE i = j
      BY <2>1 DEF Finished
    <2>2. CASE i # j
      <3>1. pc'[i] = pc[i] /\ result'[i] = result[i] /\ At(i)' = At(i)
        BY <2>2, OthersAt
      <3>2. CASE pc[i] \in {"claimed", "scan", "findings", "score", "finish"}
        <4>1. todo[i] # <<>> /\ pc[i] \in Working
          BY <3>2 DEF IInv, JobInv, Working
        <4>2. At(i) \in Targets
          BY <4>1, AtFacts
        <4>3. /\ score'[At(i)] = score[At(i)] /\ found'[At(i)] = found[At(i)]
              /\ At(i) \in again' <=> At(i) \in again
          BY <2>2, <4>1, <4>2 DEF Untouched
        <4>4. Told(result[i], At(i))' <=> Told(result[i], At(i))
          BY <3>1, <4>3 DEF Told, Answered, Findings, Fingerprint
        <4> QED BY <3>1, <3>2, <4>2, <4>3, <4>4 DEF IInv, ResultInv
      <3>3. CASE pc[i] = "alerts"
        <4>1. At(i) \in Targets /\ At(i) \in Finished /\ score[At(i)] = result[i]
          BY <3>3 DEF IInv, ResultInv, Finished
        <4> QED BY <1>1, <3>1, <3>3, <4>1
      <3> QED BY <3>1, <3>2, <3>3
    <2> QED BY <2>1, <2>2
  <1>3. ScoresAreExplained'
    <2>1. ASSUME NEW t \in Finished'
          PROVE  Told(score[t], t)' /\ scan'[t] = StatusOf(score'[t])
      <3>1. t \in Targets /\ scan'[t] \in {"partial", "completed"}
        BY <2>1 DEF Finished
      <3>2. CASE scan[t] \in {"partial", "completed"}
        <4>1. t \in Finished /\ Told(score[t], t) /\ scan[t] = StatusOf(score[t])
          BY <3>1, <3>2 DEF Finished, IInv, ScoresAreExplained, Told
        <4> QED BY <1>1, <3>1, <4>1 DEF Told, Answered, Findings, Fingerprint
      <3> QED BY <3>1, <3>2
    <2>2. ASSUME NEW a \in alerted' PROVE a[1] \in Finished' /\ score'[a[1]] = a[2]
      <3>1. a[1] \in Finished /\ score[a[1]] = a[2]
        <4>1. CASE a \in alerted
          BY <4>1 DEF IInv, ScoresAreExplained
        <4>2. CASE a \notin alerted
          BY <2>2, <4>2 DEF IInv, ResultInv
        <4> QED BY <4>1, <4>2
      <3>2. a[1] \in Targets
        BY <3>1 DEF Finished
      <3> QED BY <1>1, <3>1, <3>2
    <2> QED BY <2>1, <2>2 DEF ScoresAreExplained, Told, Findings, StatusOf
  <1> QED BY <1>2, <1>3

\* What is seen to stays so when the step sees to what it leaves and changes.
LEMMA SeenKept ==
    ASSUME IInv, NEW j \in Jobs, Others(j), Untouched(j), lost \subseteq lost',
           \A t \in Targets : pc[j] \in Working /\ At(j) = t => Seen(t)',
           \A t \in Targets : scan'[t] = "failed" /\ Owes(j, t) => Seen(t)',
           \A t \in Targets : scan'[t] # scan[t] => Seen(t)'
    PROVE  \A t \in Targets : Seen(t) => Seen(t)'
  <1> SUFFICES ASSUME NEW t \in Targets, Seen(t), scan'[t] = scan[t] PROVE Seen(t)'
    OBVIOUS
  <1>1. CASE scan[t] \in {"partial", "completed"} \/ t \in lost
    BY <1>1 DEF Seen
  <1>2. CASE Held(t)
    <2>1. PICK k \in Jobs : pc[k] \in Working /\ At(k) = t
      BY <1>2 DEF Held
    <2>2. CASE k = j
      BY <2>1, <2>2
    <2>3. CASE k # j
      <3>1. Held(t)'
        BY <2>1, <2>3, OthersKeep
      <3> QED BY <3>1 DEF Seen
    <2> QED BY <2>2, <2>3
  <1>3. CASE scan[t] = "failed" /\ \E k \in Jobs : Owes(k, t)
    <2>1. PICK k \in Jobs : Owes(k, t)
      BY <1>3
    <2>2. CASE k = j
      BY <1>3, <2>1, <2>2
    <2>3. CASE k # j
      <3>1. Owes(k, t)'
        BY <2>1, <2>3, OthersKeep
      <3> QED BY <1>3, <3>1 DEF Seen
    <2> QED BY <2>2, <2>3
  <1> QED BY <1>1, <1>2, <1>3 DEF Seen

LEMMA RunningStep ==
    ASSUME IInv, NEW j \in Jobs, Others(j), lost \subseteq lost',
           \A t \in Targets : pc[j] \in Working /\ At(j) = t /\ scan'[t] = "running"
                              => Held(t)' \/ t \in lost',
           \A t \in Targets : scan'[t] = "running" /\ scan[t] # "running" => Held(t)'
    PROVE  \A t \in Targets : scan'[t] = "running" => Held(t)' \/ t \in lost'
  <1> SUFFICES ASSUME NEW t \in Targets, scan'[t] = "running", scan[t] = "running", t \notin lost
               PROVE  Held(t)' \/ t \in lost'
    OBVIOUS
  <1>1. PICK k \in Jobs : pc[k] \in Working /\ At(k) = t
    BY DEF IInv, SeenInv, Held
  <1>2. CASE k = j
    BY <1>1, <1>2
  <1>3. CASE k # j
    BY <1>1, <1>3, OthersKeep
  <1> QED BY <1>2, <1>3

LEMMA JobStep ==
    ASSUME IInv, NEW j \in Jobs, Others(j),
           job'[j] = "active" <=> pc'[j] # "idle",
           job'[j] \in {"waiting", "active"} => tries'[j] < Attempts,
           pc'[j] \notin {"idle", "load"} => todo'[j] # <<>>,
           \A t \in Targets : In(todo'[j], t) => Has(j, t),
           letters' \cup owed' \subseteq letters \cup owed \cup {j},
           j \in letters' \cup owed' => job'[j] = "failed"
    PROVE  JobInv'
  <1> SUFFICES ASSUME NEW i \in Jobs
               PROVE  /\ job'[i] = "active" <=> pc'[i] # "idle"
                      /\ job'[i] \in {"waiting", "active"} => tries'[i] < Attempts
                      /\ pc'[i] \notin {"idle", "load"} => todo'[i] # <<>>
                      /\ \A t \in Targets : In(todo'[i], t) => Has(i, t)
                      /\ i \in letters' \cup owed' => job'[i] = "failed"
    BY DEF JobInv, Has, In
  <1>1. CASE i = j
    BY <1>1
  <1>2. CASE i # j
    BY <1>2, OthersAt DEF IInv, JobInv
  <1> QED BY <1>1, <1>2

-------------------------------------------------------------------------------
(* One lemma per action.                                                   *)

LEMMA AtOf ==
    ASSUME IInv, NEW j \in Jobs
    PROVE  /\ job[j] = "active" <=> pc[j] # "idle"
           /\ job[j] \in {"waiting", "active"} => tries[j] < Attempts
           /\ pc[j] \notin {"idle", "load"} => /\ todo[j] # <<>> /\ At(j) \in Targets /\ Has(j, At(j))
                                              /\ In(todo[j], At(j))
           /\ pc[j] \in Working => /\ scan[At(j)] = "running"
                                   /\ \A k \in Jobs \ {j} : ~(pc[k] \in Working /\ At(k) = At(j))
           /\ \A t \in Targets : In(todo[j], t) => Has(j, t)
           /\ \A t \in Targets : job[j] = "active" /\ Has(j, t) => In(todo[j], t) \/ Seen(t)
           /\ j \in letters \cup owed => job[j] = "failed"
           /\ result[j] \in Results
  <1>1. todo[j] # <<>> => At(j) \in Targets /\ Has(j, At(j)) /\ In(todo[j], At(j))
    BY AtFacts
  <1> QED BY <1>1 DEF IInv, JobInv, HoldInv, SeenInv, TypeOK

\* The job goes on with its scan, and writes at most its own rows.
LEMMA WorkStep ==
    ASSUME IInv, NEW j \in Jobs, pc[j] \in Working, NEW where \in Working, Goto(j, where),
           TypeOK', UNCHANGED <<queue, canonical, scan, alerted, todo, lost, again>>,
           \A k \in Jobs \ {j} : result'[k] = result[k],
           \A t \in Targets \ {At(j)} : score'[t] = score[t] /\ found'[t] = found[t],
           where \in {"claimed", "scan", "findings"} => At(j) \in again \/ found'[At(j)] = {},
           where \in {"score", "finish"} => Told(result[j], At(j))',
           where = "finish" => score'[At(j)] = result'[j]
    PROVE  IInv'
  <1>1. pc'[j] = where /\ \A k \in Jobs \ {j} : pc'[k] = pc[k]
    BY DEF Goto, IInv, TypeOK
  <1>2. Others(j)
    BY <1>1 DEF Others, queue
  <1>3. At(j)' = At(j) /\ where \notin {"idle", "load", "alerts"} /\ job[j] = "active"
    BY AtOf DEF At, Working
  <1>4. Untouched(j)
    BY AtOf DEF Untouched
  <1>5. JobInv'
    BY <1>1, <1>2, <1>3, AtOf, JobStep DEF queue, Working
  <1>6. HoldInv'
    BY <1>1, <1>2, <1>3, <1>4, AtOf, HoldStep DEF Working
  <1>7. ResultInv' /\ ScoresAreExplained'
    BY <1>1, <1>2, <1>3, <1>4, ResultStep
  <1>8. \A t \in Targets : t = At(j) => Held(t)'
    BY <1>1, <1>3 DEF Held
  <1>9. \A t \in Targets : Owes(j, t) => Owes(j, t)'
    BY <1>3 DEF Owes, queue, Has
  <1>10. \A t \in Targets : Seen(t) => Seen(t)'
    BY <1>2, <1>4, <1>8, <1>9, SeenKept DEF Seen
  <1>11. \A t \in Targets : scan'[t] = "running" => Held(t)' \/ t \in lost'
    BY <1>2, <1>8, RunningStep
  <1>12. \A t \in Targets : Has(j, t) => In(todo[j], t)' \/ Seen(t)'
    BY <1>3, <1>10, AtOf DEF In
  <1>13. SeenInv'
    BY <1>2, <1>10, <1>11, <1>12, SeenStep DEF queue
  <1> QED BY <1>5, <1>6, <1>7, <1>13 DEF IInv

LEMMA BeginInv == ASSUME IInv, NEW j \in Jobs, Begin(j) PROVE IInv'
  <1>1. TypeOK'
    BY DEF Begin, Goto, IInv, TypeOK, QueueOK, queue, tables, Working
  <1> QED BY <1>1, WorkStep DEF Begin, Working, tables, IInv, ResultInv

LEMMA ScanInv == ASSUME IInv, NEW j \in Jobs, Scan(j) PROVE IInv'
  <1>1. TypeOK'
    BY DEF Scan, Goto, IInv, TypeOK, QueueOK, queue, tables, Working
  <1>2. \A k \in Jobs \ {j} : result'[k] = result[k]
    BY DEF Scan, IInv, TypeOK
  <1> QED BY <1>1, <1>2, WorkStep DEF Scan, Working, tables, IInv, ResultInv

LEMMA InsertFindingsInv == ASSUME IInv, NEW j \in Jobs, InsertFindings(j) PROVE IInv'
  <1>1. /\ pc[j] = "findings" /\ Goto(j, "score")
        /\ found' = [found EXCEPT ![At(j)] = @ \cup Fresh(result[j], @)]
        /\ UNCHANGED <<queue, canonical, scan, score, alerted, todo, result, lost, again, troubles>>
    BY DEF InsertFindings
  <1>2. At(j) \in Targets /\ result[j] \in Results /\ At(j)' = At(j)
    BY <1>1, AtOf DEF At
  <1>3. Fresh(result[j], found[At(j)]) \subseteq Rules \X Outcomes
    BY <1>2 DEF Fresh, Findings, Results
  <1>4. TypeOK'
    BY <1>1, <1>2, <1>3 DEF Goto, IInv, TypeOK, QueueOK, queue, Working
  <1>5. /\ \A t \in Targets \ {At(j)} : found'[t] = found[t]
        /\ found'[At(j)] = found[At(j)] \cup Fresh(result[j], found[At(j)])
    BY <1>1, <1>2 DEF IInv, TypeOK
  <1>6. Answered(result[j], found'[At(j)])
    BY <1>5 DEF Answered, Fresh
  <1>7. At(j) \notin again => found'[At(j)] = Findings(result[j])
    BY <1>1, <1>5 DEF IInv, ResultInv, Fresh
  <1>8. Told(result[j], At(j))'
    BY <1>1, <1>2, <1>6, <1>7 DEF Told, Answered, Findings, Fingerprint
  <1> QED BY <1>1, <1>4, <1>5, <1>8, WorkStep DEF Working

LEMMA InsertScoreInv == ASSUME IInv, NEW j \in Jobs, InsertScore(j) PROVE IInv'
  <1>1. /\ pc[j] = "score" /\ Goto(j, "finish")
        /\ score' = [score EXCEPT ![At(j)] = result[j]]
        /\ UNCHANGED <<queue, canonical, scan, found, alerted, todo, result, lost, again, troubles>>
    BY DEF InsertScore
  <1>2. At(j) \in Targets /\ result[j] \in Results /\ Told(result[j], At(j)) /\ At(j)' = At(j)
    BY <1>1, AtOf DEF IInv, ResultInv, At
  <1>3. TypeOK'
    BY <1>1, <1>2 DEF Goto, IInv, TypeOK, QueueOK, queue, Working
  <1>4. score'[At(j)] = result[j] /\ \A t \in Targets \ {At(j)} : score'[t] = score[t]
    BY <1>1, <1>2 DEF IInv, TypeOK
  <1>5. Told(result[j], At(j))'
    BY <1>1, <1>2 DEF Told, Answered, Findings, Fingerprint
  <1> QED BY <1>1, <1>3, <1>4, <1>5, WorkStep DEF Working

\* The run ends and the job goes back to the queue, for another attempt or for
\* good: it owes what it had before it.
LEMMA RestStep ==
    ASSUME IInv, NEW j \in Jobs, job[j] = "active", Rest(j), TypeOK',
           \A k \in Jobs \ {j} : job'[k] = job[k] /\ tries'[k] = tries[k],
           job'[j] \in {"waiting", "failed"}, job'[j] = "waiting" => tries'[j] < Attempts,
           letters' = letters, completed' = completed,
           owed' \subseteq owed \cup {j}, j \in owed' => job'[j] = "failed",
           UNCHANGED <<canonical, found, score, again>>, lost \subseteq lost',
           alerted' \subseteq alerted \cup {<<At(j), result[j]>>},
           alerted' # alerted => pc[j] = "alerts",
           \/ UNCHANGED scan /\ (pc[j] \in Working => At(j) \in lost')
           \/ pc[j] = "failing" /\ scan' = [scan EXCEPT ![At(j)] = "failed"]
    PROVE  IInv'
  <1>1. /\ pc'[j] = "idle" /\ todo'[j] = <<>>
        /\ \A k \in Jobs \ {j} : pc'[k] = pc[k] /\ todo'[k] = todo[k] /\ result'[k] = result[k]
    BY DEF Rest, Goto, IInv, TypeOK
  <1>2. Others(j)
    BY <1>1 DEF Others
  <1>3. /\ pc[j] \notin {"idle", "load"} => At(j) \in Targets /\ Has(j, At(j))
        /\ \A t \in Targets \ {At(j)} : scan'[t] = scan[t]
        /\ scan' # scan => pc[j] = "failing" /\ scan'[At(j)] = "failed"
    BY AtOf DEF IInv, TypeOK
  <1>4. Untouched(j)
    BY <1>3, AtOf DEF Untouched, Working
  <1>5. JobInv'
    <2>1. j \notin letters
      BY AtOf
    <2>2. \A t \in Targets : ~In(todo'[j], t)
      BY <1>1, NotInEmpty
    <2> QED BY <1>1, <1>2, <2>1, <2>2, JobStep
  <1>6. HoldInv'
    BY <1>1, <1>2, <1>4, HoldStep DEF Working
  <1>7. ResultInv' /\ ScoresAreExplained'
    <2>1. \A t \in Targets : scan'[t] \in {"partial", "completed"} => scan[t] \in {"partial", "completed"}
      BY <1>3
    <2> QED BY <1>1, <1>2, <1>4, <2>1, ResultStep
  <1>8. \A t \in Targets : Has(j, t) => Owes(j, t)'
    BY DEF Owes, Has
  <1>9. \A t \in Targets : scan'[t] = "failed" /\ Owes(j, t) => Seen(t)'
    BY <1>8 DEF Seen, Owes
  <1>10. \A t \in Targets : scan'[t] # scan[t] => Seen(t)'
    BY <1>3, <1>8 DEF Seen
  <1>11. \A t \in Targets : pc[j] \in Working /\ At(j) = t => Seen(t)' /\ (scan'[t] = "failed" \/ t \in lost')
    <2>1. CASE UNCHANGED scan /\ (pc[j] \in Working => At(j) \in lost')
      BY <2>1 DEF Seen, Working
    <2>2. CASE pc[j] = "failing" /\ scan' = [scan EXCEPT ![At(j)] = "failed"]
      <3>1. At(j) \in Targets /\ Has(j, At(j)) /\ scan'[At(j)] = "failed"
        BY <1>3, <2>2 DEF IInv, TypeOK
      <3> QED BY <1>8, <3>1 DEF Seen
    <2> QED BY <2>1, <2>2
  <1>12. \A t \in Targets : Seen(t) => Seen(t)'
    BY <1>2, <1>4, <1>9, <1>10, <1>11, SeenKept
  <1>13. \A t \in Targets : scan'[t] = "running" => Held(t)' \/ t \in lost'
    BY <1>2, <1>3, <1>11, RunningStep
  <1>14. SeenInv'
    BY <1>2, <1>12, <1>13, SeenStep
  <1> QED BY <1>5, <1>6, <1>7, <1>14 DEF IInv

\* What Throws does to the queue.
LEMMA ThrowsFacts ==
    ASSUME IInv, NEW j \in Jobs, job[j] = "active", Throws(j)
    PROVE  /\ QueueOK'
           /\ \A k \in Jobs \ {j} : job'[k] = job[k] /\ tries'[k] = tries[k]
           /\ job'[j] \in {"waiting", "failed"} /\ (job'[j] = "waiting" => tries'[j] < Attempts)
           /\ letters' = letters /\ completed' = completed
           /\ owed' \subseteq owed \cup {j} /\ (j \in owed' => job'[j] = "failed")
  <1>1. tries[j] < Attempts /\ j \notin owed
    BY AtOf
  <1>2. tries[j] \in Nat /\ Attempts \in Nat
    BY QueueAssumption DEF IInv, TypeOK, QueueOK
  <1>3. tries' = [tries EXCEPT ![j] = tries[j] + 1] /\ tries[j] + 1 \in 0 .. Attempts
    BY <1>1, <1>2 DEF Throws
  <1>4. CASE tries[j] + 1 < Attempts
    <2>1. job' = [job EXCEPT ![j] = "waiting"] /\ owed' = owed
      BY <1>4 DEF Throws
    <2> QED BY <1>1, <1>3, <1>4, <2>1 DEF Throws, IInv, TypeOK, QueueOK
  <1>5. CASE ~(tries[j] + 1 < Attempts)
    <2>1. job' = [job EXCEPT ![j] = "failed"] /\ owed' = owed \cup {j}
      BY <1>5 DEF Throws
    <2> QED BY <1>1, <1>3, <1>5, <2>1 DEF Throws, IInv, TypeOK, QueueOK
  <1> QED BY <1>4, <1>5

LEMMA RestFacts ==
    ASSUME IInv, NEW j \in Jobs, Rest(j)
    PROVE  /\ pc' \in [Jobs -> Working \cup {"idle", "load", "claim", "alerts"}]
           /\ todo' \in [Jobs -> Seq(Targets)]
           /\ result' \in [Jobs -> Results]
  <1>1. Nothing \in Results /\ <<>> \in Seq(Targets)
    BY DEF Nothing, Results, Outcomes
  <1> QED BY <1>1 DEF Rest, Goto, IInv, TypeOK

LEMMA TroubleType == ASSUME IInv, Trouble PROVE troubles' \in 0 .. MaxTroubles
  BY ScanAssumption DEF IInv, TypeOK, Trouble

LEMMA LoadInv == ASSUME IInv, NEW j \in Jobs, Load(j) PROVE IInv'
  <1>1. /\ pc[j] = "load" /\ todo[j] # <<>> /\ job[j] = "active"
        /\ UNCHANGED <<canonical, tables, alerted, lost, again, troubles>>
    BY AtOf DEF Load
  <1>2. CASE Rest(j) /\ Throws(j)
    <2>1. TypeOK'
      BY <1>1, <1>2, RestFacts, ThrowsFacts DEF IInv, TypeOK, tables
    <2>2. pc[j] \notin Working
      BY <1>1 DEF Working
    <2> QED BY <1>1, <1>2, <2>1, <2>2, ThrowsFacts, RestStep DEF tables
  <1>3. CASE Goto(j, "claim") /\ UNCHANGED <<queue, todo, result>>
    <2>1. TypeOK'
      BY <1>1, <1>3 DEF Goto, IInv, TypeOK, QueueOK, queue, tables
    <2>2. pc'[j] = "claim" /\ \A k \in Jobs \ {j} : pc'[k] = pc[k]
      BY <1>3 DEF Goto, IInv, TypeOK
    <2>3. Others(j)
      BY <1>3, <2>2 DEF Others, queue
    <2>4. Untouched(j)
      BY <1>1 DEF Untouched, tables
    <2>5. JobInv'
      BY <1>1, <1>3, <2>2, <2>3, AtOf, JobStep DEF queue
    <2>6. HoldInv'
      BY <2>2, <2>3, <2>4, HoldStep DEF Working
    <2>7. ResultInv' /\ ScoresAreExplained'
      BY <1>1, <2>2, <2>3, <2>4, ResultStep DEF tables
    <2>8. pc[j] \notin Working
      BY <1>1 DEF Working
    <2>9. \A t \in Targets : Owes(j, t) => Owes(j, t)'
      BY <1>3 DEF Owes, queue, Has
    <2>10. \A t \in Targets : Seen(t) => Seen(t)'
      BY <1>1, <2>3, <2>4, <2>8, <2>9, SeenKept DEF Seen, tables
    <2>11. \A t \in Targets : scan'[t] = "running" => Held(t)' \/ t \in lost'
      BY <1>1, <2>3, <2>8, RunningStep DEF tables
    <2>12. \A t \in Targets : Has(j, t) => In(todo[j], t)' \/ Seen(t)'
      BY <1>1, <1>3, <2>10, AtOf DEF In
    <2>13. SeenInv'
      BY <1>3, <2>3, <2>10, <2>11, <2>12, SeenStep DEF queue
    <2> QED BY <2>1, <2>5, <2>6, <2>7, <2>13 DEF IInv
  <1> QED BY <1>2, <1>3 DEF Load

LEMMA GiveUpInv == ASSUME IInv, NEW j \in Jobs, GiveUp(j) PROVE IInv'
  <1>1. /\ pc[j] = "failing" /\ job[j] = "active" /\ Rest(j) /\ Throws(j)
        /\ scan' = [scan EXCEPT ![At(j)] = "failed"]
        /\ UNCHANGED <<canonical, found, score, alerted, lost, again, troubles>>
    BY AtOf DEF GiveUp
  <1>2. TypeOK'
    BY <1>1, RestFacts, ThrowsFacts DEF IInv, TypeOK
  <1> QED BY <1>1, <1>2, ThrowsFacts, RestStep

LEMMA CrashInv == ASSUME IInv, NEW j \in Jobs, Crash(j) PROVE IInv'
  <1>1. /\ job[j] = "active" /\ Rest(j)
        /\ job' = [job EXCEPT ![j] = IF stalls[j] = 0 THEN "waiting" ELSE "failed"]
        /\ stalls' = [stalls EXCEPT ![j] = 1]
        /\ owed' \subseteq owed
        /\ UNCHANGED <<tries, letters, published, completed, canonical, tables, alerted, again>>
        /\ lost' = lost \cup (IF pc[j] \in Working THEN {At(j)} ELSE {})
        /\ troubles' \in 0 .. MaxTroubles
    BY TroubleType DEF Crash, Stalls
  <1>2. pc[j] \in Working => At(j) \in Targets /\ At(j) \in lost'
    BY <1>1, AtOf DEF Working
  <1>3. QueueOK'
    BY <1>1 DEF IInv, TypeOK, QueueOK
  <1>4. lost' \subseteq Targets /\ lost \subseteq lost'
    BY <1>1, <1>2 DEF IInv, TypeOK
  <1>5. TypeOK'
    BY <1>1, <1>3, <1>4, RestFacts DEF IInv, TypeOK, tables
  <1>6. /\ \A k \in Jobs \ {j} : job'[k] = job[k] /\ tries'[k] = tries[k]
        /\ job'[j] \in {"waiting", "failed"} /\ tries'[j] < Attempts
        /\ j \notin owed'
    BY <1>1, AtOf DEF IInv, TypeOK, QueueOK
  <1> QED BY <1>1, <1>2, <1>4, <1>5, <1>6, RestStep DEF tables

LEMMA StatementFailsInv == ASSUME IInv, NEW j \in Jobs, StatementFails(j) PROVE IInv'
  <1>1. troubles' \in 0 .. MaxTroubles /\ UNCHANGED <<canonical, tables, alerted, again>>
    BY TroubleType DEF StatementFails
  <1>2. CASE /\ pc[j] \in {"scan", "findings", "score", "finish"}
             /\ Goto(j, "failing")
             /\ UNCHANGED <<queue, todo, result, lost>>
    <2>1. TypeOK'
      BY <1>1, <1>2 DEF Goto, IInv, TypeOK, QueueOK, queue, tables, Working
    <2> QED BY <1>1, <1>2, <2>1, WorkStep DEF Working, tables
  <1>3. CASE /\ pc[j] \in {"claimed", "failing"}
             /\ lost' = lost \cup {At(j)}
             /\ Rest(j) /\ Throws(j)
    <2>1. At(j) \in Targets /\ job[j] = "active"
      BY <1>3, AtOf
    <2>2. TypeOK'
      BY <1>1, <1>3, <2>1, RestFacts, ThrowsFacts DEF IInv, TypeOK, tables
    <2> QED BY <1>1, <1>3, <2>1, <2>2, ThrowsFacts, RestStep DEF tables
  <1>4. CASE /\ pc[j] \in {"load", "claim", "alerts"}
             /\ Rest(j) /\ Throws(j) /\ UNCHANGED lost
    <2>1. job[j] = "active" /\ pc[j] \notin Working
      BY <1>4, AtOf DEF Working
    <2>2. TypeOK'
      BY <1>1, <1>4, <2>1, RestFacts, ThrowsFacts DEF IInv, TypeOK, tables
    <2> QED BY <1>1, <1>4, <2>1, <2>2, ThrowsFacts, RestStep DEF tables
  <1> QED BY <1>2, <1>3, <1>4 DEF StatementFails

\* The job turns to its next target: it leaves a scan that is seen to.
LEMMA NextTargetStep ==
    ASSUME IInv, NEW j \in Jobs, pc[j] \in {"claim", "alerts"}, NextTarget(j), Seen(At(j)),
           scan[At(j)] # "failed", TypeOK',
           UNCHANGED <<queue, canonical, tables, lost, again>>,
           alerted' \subseteq alerted \cup {<<At(j), result[j]>>},
           alerted' # alerted => pc[j] = "alerts"
    PROVE  IInv'
  <1>1. /\ pc'[j] = "load" /\ todo'[j] = Tail(todo[j])
        /\ \A k \in Jobs \ {j} : pc'[k] = pc[k] /\ todo'[k] = todo[k] /\ result'[k] = result[k]
    BY DEF NextTarget, Goto, IInv, TypeOK
  <1>2. /\ todo[j] # <<>> /\ job[j] = "active" /\ pc[j] \notin Working
        /\ \A t : In(todo[j], t) <=> t = At(j) \/ In(todo'[j], t)
    BY <1>1, AtOf, AtFacts DEF Working
  <1>3. Others(j)
    BY <1>1 DEF Others, queue
  <1>4. Untouched(j)
    BY DEF Untouched, tables
  <1>5. JobInv'
    BY <1>1, <1>2, <1>3, AtOf, JobStep DEF queue
  <1>6. HoldInv'
    BY <1>1, <1>3, <1>4, HoldStep DEF Working
  <1>7. ResultInv' /\ ScoresAreExplained'
    BY <1>1, <1>3, <1>4, ResultStep DEF tables
  <1>8. \A t \in Targets : scan'[t] = "failed" /\ Owes(j, t) => Seen(t)'
    <2> SUFFICES ASSUME NEW t \in Targets, scan'[t] = "failed", Owes(j, t) PROVE Seen(t)'
      OBVIOUS
    <2>1. t # At(j)
      BY DEF tables
    <2>2. In(todo'[j], t) /\ Has(j, t)
      BY <1>2, <2>1 DEF Owes
    <2>3. Owes(j, t)'
      BY <1>2, <2>2 DEF Owes, queue, In, Has
    <2> QED BY <2>3 DEF Seen
  <1>9. \A t \in Targets : Seen(t) => Seen(t)'
    BY <1>2, <1>3, <1>4, <1>8, SeenKept DEF tables
  <1>10. \A t \in Targets : scan'[t] = "running" => Held(t)' \/ t \in lost'
    BY <1>2, <1>3, RunningStep DEF tables
  <1>11. \A t \in Targets : Has(j, t) => In(todo[j], t)' \/ Seen(t)'
    <2> SUFFICES ASSUME NEW t \in Targets, Has(j, t) PROVE In(todo'[j], t) \/ Seen(t)'
      BY DEF In
    <2>1. In(todo[j], t) \/ Seen(t)
      BY <1>2, AtOf
    <2>2. t = At(j) => Seen(t)
      OBVIOUS
    <2> QED BY <1>2, <1>9, <2>1, <2>2
  <1>12. SeenInv'
    BY <1>3, <1>9, <1>10, <1>11, SeenStep DEF queue
  <1> QED BY <1>5, <1>6, <1>7, <1>12 DEF IInv

LEMMA NextTargetFacts ==
    ASSUME IInv, NEW j \in Jobs, todo[j] # <<>>, NextTarget(j)
    PROVE  /\ pc' \in [Jobs -> Working \cup {"idle", "load", "claim", "alerts"}]
           /\ todo' \in [Jobs -> Seq(Targets)]
           /\ result' \in [Jobs -> Results]
  <1>1. Nothing \in Results /\ Tail(todo[j]) \in Seq(Targets)
    BY AtFacts DEF Nothing, Results, Outcomes
  <1> QED BY <1>1 DEF NextTarget, Goto, IInv, TypeOK

LEMMA ClaimInv == ASSUME IInv, NEW j \in Jobs, Claim(j) PROVE IInv'
  <1>1. /\ pc[j] = "claim" /\ job[j] = "active" /\ todo[j] # <<>>
        /\ At(j) \in Targets /\ Has(j, At(j))
        /\ UNCHANGED <<queue, canonical, found, score, alerted, lost, troubles>>
    BY AtOf DEF Claim
  <1>2. CASE Claimable(At(j))
    <2>1. /\ scan' = [scan EXCEPT ![At(j)] = "running"]
          /\ again' = IF found[At(j)] = {} THEN again ELSE again \cup {At(j)}
          /\ Goto(j, "claimed") /\ UNCHANGED <<todo, result>>
      BY <1>2 DEF Claim
    <2>2. scan[At(j)] \in {"none", "failed"}
      BY <1>2 DEF Claimable
    <2>3. TypeOK'
      BY <1>1, <2>1 DEF Goto, IInv, TypeOK, QueueOK, queue, Working
    <2>4. /\ pc'[j] = "claimed" /\ At(j)' = At(j) /\ \A k \in Jobs \ {j} : pc'[k] = pc[k]
          /\ scan'[At(j)] = "running" /\ \A t \in Targets \ {At(j)} : scan'[t] = scan[t]
      BY <1>1, <2>1 DEF Goto, IInv, TypeOK, At
    <2>5. Others(j)
      BY <1>1, <2>1, <2>4 DEF Others, queue
    <2>6. \A k \in Jobs : ~(pc[k] \in Working /\ At(k) = At(j))
      BY <2>2, AtOf
    <2>7. Untouched(j)
      <3>1. \A t \in Targets \ {At(j)} : t \in again' <=> t \in again
        BY <2>1
      <3> QED BY <1>1, <2>2, <2>4, <2>6, <3>1 DEF Untouched
    <2>8. JobInv'
      BY <1>1, <2>1, <2>4, <2>5, AtOf, JobStep DEF queue
    <2>9. HoldInv'
      BY <1>1, <2>4, <2>5, <2>6, <2>7, HoldStep
    <2>10. ResultInv' /\ ScoresAreExplained'
      <3>1. At(j)' \in again' \/ found'[At(j)'] = {}
        BY <1>1, <2>1, <2>4
      <3>2. \A t \in Targets :
              scan'[t] \in {"partial", "completed"} => scan[t] \in {"partial", "completed"}
        BY <2>4
      <3> QED BY <1>1, <2>4, <2>5, <2>7, <3>1, <3>2, ResultStep
    <2>11. \A t \in Targets : t = At(j) => Held(t)'
      BY <2>4 DEF Held, Working
    <2>12. \A t \in Targets : Owes(j, t) => Owes(j, t)'
      BY <1>1, <2>1 DEF Owes, queue, Has
    <2>13. pc[j] \notin Working
      BY <1>1 DEF Working
    <2>14. \A t \in Targets : Seen(t) => Seen(t)'
      BY <1>1, <2>4, <2>5, <2>7, <2>11, <2>12, <2>13, SeenKept DEF Seen
    <2>15. \A t \in Targets : scan'[t] = "running" => Held(t)' \/ t \in lost'
      BY <1>1, <2>4, <2>5, <2>11, <2>13, RunningStep
    <2>16. \A t \in Targets : Has(j, t) => In(todo[j], t)' \/ Seen(t)'
      BY <1>1, <2>1, <2>14, AtOf DEF In
    <2>17. SeenInv'
      BY <1>1, <2>5, <2>14, <2>15, <2>16, SeenStep DEF queue
    <2> QED BY <2>3, <2>8, <2>9, <2>10, <2>17 DEF IInv
  <1>3. CASE ~Claimable(At(j))
    <2>1. NextTarget(j) /\ UNCHANGED <<scan, again>>
      BY <1>3 DEF Claim
    <2>2. scan[At(j)] \in {"running", "partial", "completed"}
      BY <1>1, <1>3 DEF Claimable, IInv, TypeOK
    <2>3. Seen(At(j))
      BY <1>1, <2>2 DEF Seen, IInv, SeenInv
    <2>4. TypeOK'
      BY <1>1, <2>1, NextTargetFacts DEF IInv, TypeOK, QueueOK, queue
    <2> QED BY <1>1, <2>1, <2>2, <2>3, <2>4, NextTargetStep DEF tables
  <1> QED BY <1>2, <1>3

LEMMA FinishInv == ASSUME IInv, NEW j \in Jobs, Finish(j) PROVE IInv'
  <1>1. /\ pc[j] = "finish" /\ job[j] = "active" /\ Goto(j, "alerts")
        /\ scan' = [scan EXCEPT ![At(j)] = StatusOf(result[j])]
        /\ UNCHANGED <<queue, canonical, found, score, alerted, todo, result, lost, again, troubles>>
    BY AtOf DEF Finish
  <1>2. /\ todo[j] # <<>> /\ At(j) \in Targets /\ scan[At(j)] = "running"
        /\ \A k \in Jobs \ {j} : ~(pc[k] \in Working /\ At(k) = At(j))
        /\ Told(result[j], At(j)) /\ score[At(j)] = result[j]
    BY <1>1, AtOf DEF IInv, ResultInv, Working
  <1>3. StatusOf(result[j]) \in {"partial", "completed"}
    BY DEF StatusOf
  <1>4. TypeOK'
    BY <1>1, <1>2, <1>3 DEF Goto, IInv, TypeOK, QueueOK, queue
  <1>5. /\ pc'[j] = "alerts" /\ At(j)' = At(j) /\ \A k \in Jobs \ {j} : pc'[k] = pc[k]
        /\ scan'[At(j)] = StatusOf(result[j]) /\ \A t \in Targets \ {At(j)} : scan'[t] = scan[t]
    BY <1>1, <1>2 DEF Goto, IInv, TypeOK, At
  <1>6. Others(j)
    BY <1>1, <1>5 DEF Others, queue
  <1>7. Untouched(j)
    BY <1>1, <1>2, <1>5 DEF Untouched
  <1>8. JobInv'
    BY <1>1, <1>2, <1>5, <1>6, AtOf, JobStep DEF queue
  <1>9. HoldInv'
    BY <1>5, <1>6, <1>7, HoldStep DEF Working
  <1>10. ResultInv' /\ ScoresAreExplained'
    <2>1. Told(score[At(j)], At(j))'
      BY <1>1, <1>2, <1>5 DEF Told, Answered, Findings, Fingerprint
    <2>2. \A t \in Targets :
            scan[t] \notin {"partial", "completed"} /\ scan'[t] \in {"partial", "completed"}
                => t = At(j)
      BY <1>5
    <2>3. \A t \in Targets :
            scan[t] \notin {"partial", "completed"} /\ scan'[t] \in {"partial", "completed"}
                => Told(score[t], t)' /\ scan'[t] = StatusOf(score'[t])
      <3>1. \A t : t = At(j) => Told(score[t], t)' /\ scan'[t] = StatusOf(score'[t])
        BY <1>1, <1>2, <1>5, <2>1 DEF Told, Answered, Findings, Fingerprint
      <3> QED BY <2>2, <3>1
    <2> QED BY <1>1, <1>2, <1>3, <1>5, <1>6, <1>7, <2>3, ResultStep
  <1>11. \A t \in Targets : t = At(j) => Seen(t)'
    BY <1>3, <1>5 DEF Seen
  <1>12. \A t \in Targets : Owes(j, t) => Owes(j, t)'
    BY <1>1 DEF Owes, queue, Has
  <1>13. \A t \in Targets : Seen(t) => Seen(t)'
    BY <1>1, <1>5, <1>6, <1>7, <1>11, <1>12, SeenKept DEF Seen
  <1>14. \A t \in Targets : scan'[t] = "running" => Held(t)' \/ t \in lost'
    BY <1>1, <1>3, <1>5, <1>6, RunningStep
  <1>15. \A t \in Targets : Has(j, t) => In(todo[j], t)' \/ Seen(t)'
    BY <1>1, <1>13, AtOf DEF In
  <1>16. SeenInv'
    BY <1>1, <1>6, <1>13, <1>14, <1>15, SeenStep DEF queue
  <1> QED BY <1>4, <1>8, <1>9, <1>10, <1>16 DEF IInv

LEMMA EvaluateInv == ASSUME IInv, NEW j \in Jobs, Evaluate(j) PROVE IInv'
  <1>1. /\ pc[j] = "alerts" /\ job[j] = "active" /\ UNCHANGED <<canonical, tables, lost, again, troubles>>
        /\ pc[j] \notin Working
    BY AtOf DEF Evaluate, Working
  <1>2. At(j) \in Targets /\ At(j) \in Finished /\ result[j] \in Results /\ todo[j] # <<>>
    BY <1>1, AtOf DEF IInv, ResultInv
  <1>3. Seen(At(j)) /\ scan[At(j)] # "failed"
    BY <1>2 DEF Finished, Seen
  <1>4. /\ alerted' \subseteq alerted \cup {<<At(j), result[j]>>}
        /\ alerted' \subseteq Targets \X Results
    BY <1>2 DEF Evaluate, IInv, TypeOK
  <1>5. CASE NextTarget(j) /\ UNCHANGED queue
    <2>1. TypeOK'
      BY <1>1, <1>2, <1>4, <1>5, NextTargetFacts DEF IInv, TypeOK, QueueOK, queue, tables
    <2> QED BY <1>1, <1>3, <1>4, <1>5, <2>1, NextTargetStep
  <1>6. CASE Rest(j) /\ Throws(j)
    <2>1. TypeOK'
      BY <1>1, <1>4, <1>6, RestFacts, ThrowsFacts DEF IInv, TypeOK, tables
    <2> QED BY <1>1, <1>4, <1>6, <2>1, ThrowsFacts, RestStep DEF tables
  <1> QED BY <1>5, <1>6 DEF Evaluate

LEMMA StartInv == ASSUME IInv, NEW j \in Jobs, Start(j) PROVE IInv'
  <1>1. /\ job[j] = "waiting" /\ pc[j] = "idle" /\ Goto(j, "load")
        /\ job' = [job EXCEPT ![j] = "active"]
        /\ todo' = [todo EXCEPT ![j] = TargetsOf[j]]
        /\ UNCHANGED <<tries, stalls, owed, letters, published, completed>>
        /\ UNCHANGED <<canonical, tables, alerted, result, lost, again, troubles>>
    BY AtOf DEF Start, Take, IInv, TypeOK
  <1>2. TargetsOf[j] \in Seq(Targets)
    BY ScanAssumption
  <1>3. TypeOK'
    BY <1>1, <1>2 DEF Goto, IInv, TypeOK, QueueOK, tables
  <1>4. /\ pc'[j] = "load" /\ job'[j] = "active" /\ todo'[j] = TargetsOf[j]
        /\ \A k \in Jobs \ {j} : pc'[k] = pc[k] /\ job'[k] = job[k] /\ todo'[k] = todo[k]
    BY <1>1 DEF Goto, IInv, TypeOK, QueueOK
  <1>5. Others(j)
    BY <1>1, <1>4 DEF Others
  <1>6. Untouched(j)
    BY <1>1 DEF Untouched, tables
  <1>7. \A t \in Targets : Has(j, t) <=> In(todo'[j], t)
    BY <1>4 DEF Has, In
  <1>8. JobInv'
    BY <1>1, <1>4, <1>5, <1>7, AtOf, JobStep
  <1>9. HoldInv'
    BY <1>4, <1>5, <1>6, HoldStep DEF Working
  <1>10. ResultInv' /\ ScoresAreExplained'
    BY <1>1, <1>4, <1>5, <1>6, ResultStep DEF tables
  <1>11. \A t \in Targets : Owes(j, t) => Owes(j, t)'
    BY <1>1, <1>4, <1>7 DEF Owes, Has, In
  <1>12. pc[j] \notin Working
    BY <1>1 DEF Working
  <1>13. \A t \in Targets : Seen(t) => Seen(t)'
    BY <1>1, <1>5, <1>6, <1>11, <1>12, SeenKept DEF Seen, tables
  <1>14. \A t \in Targets : scan'[t] = "running" => Held(t)' \/ t \in lost'
    BY <1>1, <1>5, <1>12, RunningStep DEF tables
  <1>15. \A t \in Targets : Has(j, t) => In(todo[j], t)' \/ Seen(t)'
    BY <1>7 DEF In
  <1>16. SeenInv'
    BY <1>1, <1>5, <1>13, <1>14, <1>15, SeenStep
  <1> QED BY <1>3, <1>8, <1>9, <1>10, <1>16 DEF IInv

LEMMA DoneInv == ASSUME IInv, NEW j \in Jobs, Done(j) PROVE IInv'
  <1>1. /\ pc[j] = "load" /\ todo[j] = <<>> /\ job[j] = "active" /\ Rest(j)
        /\ job' = [job EXCEPT ![j] = "absent"] /\ completed' = completed \cup {j}
        /\ UNCHANGED <<tries, stalls, owed, letters, published>>
        /\ UNCHANGED <<canonical, tables, alerted, lost, again, troubles>>
    BY AtOf DEF Done, Completes
  <1>2. TypeOK'
    BY <1>1, RestFacts DEF IInv, TypeOK, QueueOK, tables
  <1>3. /\ pc'[j] = "idle" /\ job'[j] = "absent" /\ todo'[j] = <<>>
        /\ \A k \in Jobs \ {j} : /\ pc'[k] = pc[k] /\ job'[k] = job[k]
                                 /\ todo'[k] = todo[k] /\ result'[k] = result[k]
    BY <1>1 DEF Rest, Goto, IInv, TypeOK, QueueOK
  <1>4. Others(j)
    BY <1>1, <1>3 DEF Others
  <1>5. Untouched(j)
    BY <1>1 DEF Untouched, tables
  <1>6. \A t \in Targets : ~In(todo[j], t) /\ ~In(todo'[j], t)
    BY <1>1, <1>3, NotInEmpty
  <1>7. JobInv'
    BY <1>1, <1>3, <1>4, <1>6, AtOf, JobStep
  <1>8. HoldInv'
    BY <1>3, <1>4, <1>5, HoldStep DEF Working
  <1>9. ResultInv' /\ ScoresAreExplained'
    BY <1>1, <1>3, <1>4, <1>5, ResultStep DEF tables
  <1>10. pc[j] \notin Working /\ \A t \in Targets : ~Owes(j, t)
    BY <1>1, <1>6 DEF Working, Owes
  <1>11. \A t \in Targets : Seen(t) => Seen(t)'
    BY <1>1, <1>4, <1>5, <1>10, SeenKept DEF tables
  <1>12. \A t \in Targets : scan'[t] = "running" => Held(t)' \/ t \in lost'
    BY <1>1, <1>4, <1>10, RunningStep DEF tables
  <1>13. \A t \in Targets : Has(j, t) => Seen(t)'
    BY <1>1, <1>6, <1>11, AtOf
  <1>14. SeenInv'
    BY <1>1, <1>3, <1>4, <1>11, <1>12, <1>13, SeenStep
  <1> QED BY <1>2, <1>7, <1>8, <1>9, <1>14 DEF IInv

\* The queue or the chain changes, and no run does.
LEMMA QuietStep ==
    ASSUME IInv, TypeOK', UNCHANGED <<tables, alerted, run, lost, again, completed>>,
           \A j \in Jobs : job'[j] = job[j] \/ (job[j] = "absent" /\ job'[j] = "waiting"),
           \A j \in Jobs : job'[j] \in {"waiting", "active"} => tries'[j] < Attempts,
           letters' \cup owed' \subseteq letters \cup owed
    PROVE  IInv'
  <1>1. ScoresAreExplained' /\ ResultInv'
    BY DEF IInv, ScoresAreExplained, ResultInv, Told, Answered, Fingerprint, Finished, Findings,
           StatusOf, At, run, tables
  <1>2. HoldInv'
    BY DEF IInv, HoldInv, At, run, tables
  <1>3. JobInv'
    BY DEF IInv, JobInv, In, Has, run
  <1>4. \A t \in Targets : Seen(t) => Seen(t)'
    BY DEF Seen, Held, Owes, Has, In, At, run, tables
  <1>5. SeenInv'
    BY <1>4 DEF IInv, SeenInv, Held, Has, In, At, run, tables
  <1> QED BY <1>1, <1>2, <1>3, <1>5 DEF IInv

LEMMA ReplayInv == ASSUME IInv, NEW j \in Jobs, Replay(j) PROVE IInv'
  <1>1. TypeOK'
    BY QueueAssumption DEF Replay, Publish, IInv, TypeOK, QueueOK, tables, run
  <1>2. 0 < Attempts
    BY QueueAssumption
  <1>3. /\ job[j] = "absent" /\ job'[j] = "waiting" /\ tries'[j] = 0
        /\ \A k \in Jobs \ {j} : job'[k] = job[k] /\ tries'[k] = tries[k]
    BY DEF Replay, Publish, IInv, TypeOK, QueueOK
  <1> QED BY <1>1, <1>2, <1>3, AtOf, QuietStep DEF Replay, Publish

LEMMA LetterInv ==
    ASSUME IInv, NEW j \in Jobs, Write(j) \/ WriteFails(j)
    PROVE  IInv'
  <1>1. /\ UNCHANGED <<job, tries, stalls, published, completed>>
        /\ UNCHANGED <<canonical, tables, alerted, run, lost, again>>
        /\ owed' = owed \ {j} /\ letters' \in {letters, letters \cup {j}}
        /\ j \in owed /\ troubles' \in 0 .. MaxTroubles
    BY TroubleType DEF Write, WriteFails, DeadLetter, DeadLetterFails, IInv, TypeOK
  <1>2. TypeOK'
    BY <1>1 DEF IInv, TypeOK, QueueOK, tables, run
  <1> QED BY <1>1, <1>2, AtOf, QuietStep

LEMMA OtherwiseInv == ASSUME IInv, Orphan \/ UNCHANGED vars PROVE IInv'
  <1>1. /\ UNCHANGED <<queue, tables, alerted, run, lost, again, troubles>>
        /\ canonical' \in {FALSE, canonical}
    BY DEF Orphan, vars
  <1>2. TypeOK'
    BY <1>1 DEF IInv, TypeOK, QueueOK, queue, tables, run
  <1> QED BY <1>1, <1>2, AtOf, QuietStep DEF queue

LEMMA InitInv == ASSUME Init PROVE IInv
  <1>1. Nothing \in Results /\ <<>> \in Seq(Targets)
    BY DEF Nothing, Results, Outcomes
  <1>2. TypeOK
    BY <1>1, QueueAssumption, ScanAssumption DEF Init, QueueInit, TypeOK, QueueOK
  <1>3. JobInv
    BY NotInEmpty DEF Init, QueueInit, JobInv
  <1>4. HoldInv /\ ResultInv
    BY DEF Init, HoldInv, ResultInv, Working
  <1>5. ScoresAreExplained /\ SeenInv
    BY DEF Init, QueueInit, ScoresAreExplained, SeenInv, Finished
  <1> QED BY <1>2, <1>3, <1>4, <1>5 DEF IInv

LEMMA Invariance == Spec => []IInv
  <1>1. Init => IInv
    BY InitInv
  <1>2. IInv /\ [Next]_vars => IInv'
    <2> SUFFICES ASSUME IInv, [Next]_vars PROVE IInv'
      OBVIOUS
    <2>1. ASSUME NEW j \in Jobs, Step(j) PROVE IInv'
      BY <2>1, StartInv, DoneInv, LoadInv, ClaimInv, BeginInv, ScanInv, InsertFindingsInv,
         InsertScoreInv, FinishInv, GiveUpInv, EvaluateInv DEF Step
    <2>2. ASSUME NEW j \in Jobs,
                 StatementFails(j) \/ Replay(j) \/ Crash(j) \/ Write(j) \/ WriteFails(j)
          PROVE  IInv'
      BY <2>2, StatementFailsInv, ReplayInv, CrashInv, LetterInv
    <2>3. CASE Orphan \/ UNCHANGED vars
      BY <2>3, OtherwiseInv
    <2> QED BY <2>1, <2>2, <2>3 DEF Next
  <1> QED BY <1>1, <1>2, PTL DEF Spec

-------------------------------------------------------------------------------
(* Scans are claimed work.                                                 *)

\* A step that leaves a job with the scan it had, or without one as before.
LEMMA KeepsWork ==
    ASSUME NEW j \in Jobs, Others(j), UNCHANGED Finished,
           pc'[j] \in Working <=> pc[j] \in Working,
           pc[j] \in Working => At(j)' = At(j)
    PROVE  [Work!Next]_(Work!vars)
  <1>1. \A k \in Jobs, t \in Targets :
          (pc'[k] \in Working /\ At(k)' = t) <=> (pc[k] \in Working /\ At(k) = t)
    BY OthersAt
  <1>2. Holders' = Holders
    BY <1>1 DEF Holders
  <1> QED BY <1>2 DEF Work!vars

\* A step by which a job leaves its scan.
LEMMA LeavesWork ==
    ASSUME IInv, NEW j \in Jobs, Others(j), pc[j] \in Working, pc'[j] \notin Working,
           Finished' = Finished \/ Finished' = Finished \cup {At(j)}
    PROVE  [Work!Next]_(Work!vars)
  <1>1. At(j) \in Targets /\ \A k \in Jobs \ {j} : ~(pc[k] \in Working /\ At(k) = At(j))
    BY AtOf DEF Working
  <1>2. \A k \in Jobs, t \in Targets :
          (pc'[k] \in Working /\ At(k)' = t) <=> (k # j /\ pc[k] \in Working /\ At(k) = t)
    BY OthersAt
  <1>3. Holders[At(j)] # {}
    BY <1>1 DEF Holders
  <1>4. \A t \in Targets : Holders'[t] = IF t = At(j) THEN {} ELSE Holders[t]
    BY <1>1, <1>2 DEF Holders
  <1>5. Holders' = [Holders EXCEPT ![At(j)] = {}]
    BY <1>4 DEF Holders
  <1>6. CASE Finished' = Finished
    <2>1. Work!Release(At(j))
      BY <1>3, <1>5, <1>6 DEF Work!Release
    <2> QED BY <1>1, <2>1 DEF Work!Next
  <1>7. CASE Finished' = Finished \cup {At(j)}
    <2>1. Work!Finish(At(j))
      BY <1>3, <1>5, <1>7 DEF Work!Finish
    <2> QED BY <1>1, <2>1 DEF Work!Next
  <1> QED BY <1>6, <1>7

LEMMA ClaimWork ==
    ASSUME IInv, NEW j \in Jobs, pc[j] = "claim", Goto(j, "claimed"), Claimable(At(j)),
           scan' = [scan EXCEPT ![At(j)] = "running"], UNCHANGED <<queue, todo, result>>
    PROVE  [Work!Next]_(Work!vars)
  <1>1. At(j) \in Targets /\ scan[At(j)] \in {"none", "failed"}
    BY AtOf DEF Claimable
  <1>2. \A k \in Jobs : ~(pc[k] \in Working /\ At(k) = At(j))
    BY <1>1, AtOf
  <1>3. pc'[j] = "claimed" /\ At(j)' = At(j) /\ \A k \in Jobs \ {j} : pc'[k] = pc[k]
    BY DEF Goto, IInv, TypeOK, At
  <1>4. Others(j)
    BY <1>3 DEF Others, queue
  <1>5. \A k \in Jobs, t \in Targets :
          (pc'[k] \in Working /\ At(k)' = t) <=> IF t = At(j) THEN k = j
                                                 ELSE pc[k] \in Working /\ At(k) = t
    BY <1>2, <1>3, <1>4, OthersAt DEF Working
  <1>6. Holders[At(j)] = {} /\ At(j) \notin Finished
    BY <1>1, <1>2 DEF Holders, Finished
  <1>7. \A t \in Targets : Holders'[t] = IF t = At(j) THEN {j} ELSE Holders[t]
    BY <1>5 DEF Holders
  <1>8. Holders' = [Holders EXCEPT ![At(j)] = {j}]
    BY <1>7 DEF Holders
  <1>9. Finished' = Finished
    BY <1>1 DEF Finished, IInv, TypeOK
  <1>10. Work!Claim(At(j), j)
    BY <1>6, <1>8, <1>9 DEF Work!Claim
  <1> QED BY <1>1, <1>10 DEF Work!Next

LEMMA RestWork ==
    ASSUME IInv, NEW j \in Jobs, Rest(j), Finished' = Finished,
           \A k \in Jobs \ {j} : job'[k] = job[k] /\ tries'[k] = tries[k]
    PROVE  [Work!Next]_(Work!vars)
  <1>1. pc'[j] \notin Working /\ Others(j)
    BY DEF Rest, Goto, IInv, TypeOK, Others, Working
  <1> QED BY <1>1, KeepsWork, LeavesWork

LEMMA GotoWork ==
    ASSUME IInv, NEW j \in Jobs, NEW where, Goto(j, where), Finished' = Finished, UNCHANGED queue,
           \A k \in Jobs \ {j} : todo'[k] = todo[k] /\ result'[k] = result[k],
           \/ pc[j] \in Working /\ where \in Working /\ todo'[j] = todo[j]
           \/ pc[j] \notin Working /\ where \notin Working
    PROVE  [Work!Next]_(Work!vars)
  <1>1. Others(j) /\ pc'[j] = where
    BY DEF Goto, IInv, TypeOK, Others, queue
  <1> QED BY <1>1, KeepsWork DEF At

LEMMA StepWork == ASSUME IInv, [Next]_vars PROVE [Work!Next]_(Work!vars)
  <1>1. ASSUME NEW j \in Jobs, Step(j) PROVE [Work!Next]_(Work!vars)
    <2> USE DEF Finished, Working
    <2>1. CASE Start(j)
      <3>1. job[j] = "waiting" /\ pc[j] = "idle"
        BY <2>1, AtOf DEF Start, Take, IInv, TypeOK
      <3>2. Others(j) /\ pc'[j] = "load"
        BY <2>1 DEF Start, Take, Goto, Others, IInv, TypeOK, QueueOK
      <3> QED BY <2>1, <3>1, <3>2, KeepsWork DEF Start, tables
    <2>2. CASE Done(j)
      <3>1. \A k \in Jobs \ {j} : job'[k] = job[k] /\ tries'[k] = tries[k]
        BY <2>2 DEF Done, Completes, IInv, TypeOK, QueueOK
      <3> QED BY <2>2, <3>1, RestWork DEF Done, tables
    <2>3. CASE Load(j)
      <3>1. job[j] = "active"
        BY <2>3, AtOf DEF Load
      <3> QED BY <2>3, <3>1, ThrowsFacts, RestWork, GotoWork DEF Load, tables
    <2>4. CASE Claim(j)
      <3>1. CASE Claimable(At(j))
        BY <2>4, <3>1, ClaimWork DEF Claim
      <3>2. CASE ~Claimable(At(j))
        BY <2>4, <3>2, GotoWork DEF Claim, NextTarget, IInv, TypeOK
      <3> QED BY <3>1, <3>2
    <2>5. CASE Begin(j)
      BY <2>5, GotoWork DEF Begin, tables
    <2>6. CASE Scan(j)
      BY <2>6, GotoWork DEF Scan, tables, IInv, TypeOK
    <2>7. CASE InsertFindings(j) \/ InsertScore(j)
      BY <2>7, GotoWork DEF InsertFindings, InsertScore
    <2>8. CASE Finish(j)
      <3>1. pc[j] = "finish" /\ At(j) \in Targets /\ scan[At(j)] = "running"
        BY <2>8, AtOf DEF Finish
      <3>2. pc'[j] = "alerts" /\ Others(j)
        BY <2>8 DEF Finish, Goto, Others, queue, IInv, TypeOK
      <3>3. scan' = [scan EXCEPT ![At(j)] = StatusOf(result[j])] /\
            StatusOf(result[j]) \in {"partial", "completed"}
        BY <2>8 DEF Finish, StatusOf
      <3>4. Finished' = Finished \cup {At(j)}
        BY <3>1, <3>3 DEF IInv, TypeOK
      <3> QED BY <3>1, <3>2, <3>4, LeavesWork
    <2>9. CASE GiveUp(j)
      <3>1. pc[j] = "failing" /\ job[j] = "active" /\ At(j) \in Targets /\ scan[At(j)] = "running"
        BY <2>9, AtOf DEF GiveUp
      <3>2. Finished' = Finished
        BY <2>9, <3>1 DEF GiveUp, IInv, TypeOK
      <3> QED BY <2>9, <3>1, <3>2, ThrowsFacts, RestWork DEF GiveUp
    <2>10. CASE Evaluate(j)
      <3>1. pc[j] = "alerts" /\ job[j] = "active" /\ Finished' = Finished
        BY <2>10, AtOf DEF Evaluate, tables
      <3>2. CASE NextTarget(j) /\ UNCHANGED queue
        BY <3>1, <3>2, GotoWork DEF NextTarget, IInv, TypeOK
      <3>3. CASE Rest(j) /\ Throws(j)
        BY <3>1, <3>3, ThrowsFacts, RestWork
      <3> QED BY <2>10, <3>2, <3>3 DEF Evaluate
    <2> QED BY <1>1, <2>1, <2>2, <2>3, <2>4, <2>5, <2>6, <2>7, <2>8, <2>9, <2>10 DEF Step
  <1>2. ASSUME NEW j \in Jobs, StatementFails(j) PROVE [Work!Next]_(Work!vars)
    <2>1. Finished' = Finished
      BY <1>2 DEF StatementFails, tables, Finished
    <2>2. CASE Goto(j, "failing") /\ pc[j] \in Working /\ UNCHANGED <<queue, todo, result>>
      BY <2>1, <2>2, GotoWork DEF Working
    <2>3. CASE Rest(j) /\ Throws(j) /\ pc[j] # "idle"
      BY <2>1, <2>3, AtOf, ThrowsFacts, RestWork
    <2> QED BY <1>2, <2>2, <2>3 DEF StatementFails, Working
  <1>3. ASSUME NEW j \in Jobs, Crash(j) PROVE [Work!Next]_(Work!vars)
    <2>1. \A k \in Jobs \ {j} : job'[k] = job[k] /\ tries'[k] = tries[k]
      BY <1>3 DEF Crash, Stalls, IInv, TypeOK, QueueOK
    <2> QED BY <1>3, <2>1, RestWork DEF Crash, tables, Finished
  <1>4. ASSUME UNCHANGED <<pc, todo, scan>> PROVE [Work!Next]_(Work!vars)
    <2>1. Holders' = Holders /\ Finished' = Finished
      BY <1>4 DEF Holders, At, Finished
    <2> QED BY <2>1 DEF Work!vars
  <1>5. ASSUME NEW j \in Jobs, Replay(j) \/ Write(j) \/ WriteFails(j) PROVE [Work!Next]_(Work!vars)
    BY <1>4, <1>5 DEF Replay, Write, WriteFails, run, tables
  <1>6. CASE Orphan \/ UNCHANGED vars
    BY <1>4, <1>6 DEF Orphan, vars, run, tables
  <1> QED BY <1>1, <1>2, <1>3, <1>5, <1>6 DEF Next

-------------------------------------------------------------------------------
(* Theorems.                                                               *)

\* The state keeps its types: no job is tried more often than it has attempts.
THEOREM TypeCorrect == Spec => []TypeOK
  BY Invariance, PTL DEF IInv

\* The findings of a finished scan are those its score was computed from; begun again
\* over findings of a failed attempt, it has one for each fingerprint of its score
\* (risk-scan.ts:191).  The status is the score's, and so is an alert.
THEOREM ScoresExplained == Spec => []ScoresAreExplained
  BY Invariance, PTL DEF IInv

\* A job that completed passed over no scan that failed (risk-scan.ts:157), unless
\* another one is to do it.
THEOREM NothingForgotten == Spec => []NoScanIsForgotten
  <1>1. IInv => NoScanIsForgotten
    <2> SUFFICES ASSUME IInv, NEW j \in completed, NEW t \in Targets, Has(j, t)
                 PROVE  \/ t \in Finished
                        \/ Holders[t] # {}
                        \/ t \in lost
                        \/ scan[t] = "failed" /\ \E k \in Jobs : Has(k, t) /\ job[k] # "absent"
      BY DEF NoScanIsForgotten
    <2>1. Seen(t)
      BY DEF IInv, SeenInv, TypeOK, QueueOK
    <2>2. Held(t) => Holders[t] # {}
      BY DEF Held, Holders
    <2> QED BY <2>1, <2>2 DEF Seen, Owes, Finished
  <1> QED BY <1>1, Invariance, PTL

\* One job at a time scans a target at a block (risk-repository.ts:348), and none
\* when it is scanned.
THEOREM ScansAreClaimed == Spec => ScansAreClaimedWork
  <1>1. Init => Work!Init
    BY DEF Init, Holders, Finished, Working, Work!Init
  <1>2. IInv /\ [Next]_vars => [Work!Next]_(Work!vars)
    BY StepWork
  <1> QED BY <1>1, <1>2, Invariance, PTL DEF Spec, ScansAreClaimedWork, Work!Spec
===============================================================================
