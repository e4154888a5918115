-------------------------- MODULE AlertDeliveryProofs --------------------------
(***************************************************************************)
(* Proofs about AlertDelivery, for every set of jobs, rules and deliveries *)
(* and every number of attempts, claims and troubles.                      *)
(***************************************************************************)
EXTENDS AlertDelivery, TLAPS

\* A job that is to run has an attempt left, its run starts from nothing, and
\* the endpoints come after the channels.
JobInv ==
    \A j \in Jobs :
        /\ job[j] \in {"waiting", "active"} => tries[j] < Attempts
        /\ pc[j] \in {"idle", "rules"} => todo[j] = {} /\ ~failures[j]
        /\ todo[j] \subseteq IF AmongChannels(j) THEN Deliveries \ Webhooks ELSE Webhooks

\* The inductive invariant.
IInv == TypeOK /\ JobInv /\ ClaimInv /\ DutyInv

\* The parts of DutyInv, for a job and for a delivery.
RaisedBy(j) ==
    /\ job[j] = "active" => on \subseteq raised \cup rules[j]
    /\ job[j] = "done" => on \subseteq raised

Cared(d) ==
    \/ RuleOf[d] \notin on
    \/ Settled(d)
    \/ \E k \in Jobs : d \in listed[k] /\ Owes(k, d)

LEMMA DutyParts ==
    DutyInv <=> (canonical => /\ \A j \in Jobs : RaisedBy(j)
                              /\ \A j \in Jobs : \A d \in listed[j] \cap linked : Cared(d))
  BY DEF DutyInv, RaisedBy, Cared

LEMMA DutyPartsNext ==
    DutyInv' <=> (canonical' => /\ \A j \in Jobs : RaisedBy(j)'
                                /\ \A j \in Jobs : \A d \in listed'[j] \cap linked' : Cared(d)')
  BY DEF DutyInv, RaisedBy, Cared

\* A step of one job: what was settled stays so or becomes its duty, the
\* others keep theirs, and it sheds none unless it is settled.
LEMMA CaredStep ==
    ASSUME IInv, canonical, NEW j \in Jobs,
           on' \subseteq on, linked' \subseteq linked,
           listed[j] \subseteq listed'[j],
           \A k \in Jobs \ {j} : listed'[k] = listed[k],
           \A k \in Jobs \ {j} : \A d \in Deliveries : Owes(k, d) => Owes(k, d)',
           \A d \in linked' : Settled(d) => Settled(d)' \/ (d \in listed'[j] /\ Owes(j, d)'),
           \A d \in listed'[j] \cap linked' :
               d \notin listed[j] \/ Owes(j, d)
                   => RuleOf[d] \notin on \/ Settled(d)' \/ Owes(j, d)'
    PROVE  \A i \in Jobs : \A d \in listed'[i] \cap linked' : Cared(d)'
  <1> SUFFICES ASSUME NEW i \in Jobs, NEW d \in listed'[i] \cap linked'
               PROVE  Cared(d)'
    OBVIOUS
  <1>1. d \in linked /\ d \in Deliveries
    BY DEF IInv, TypeOK
  <1>2. CASE \E m \in Jobs : d \in listed[m]
    <2>1. Cared(d)
      BY <1>1, <1>2, DutyParts DEF IInv
    <2>2. CASE RuleOf[d] \notin on \/ Settled(d)
      BY <2>2 DEF Cared
    <2>3. CASE \E k \in Jobs : d \in listed[k] /\ Owes(k, d)
      <3>1. PICK k \in Jobs : d \in listed[k] /\ Owes(k, d)
        BY <2>3
      <3>2. CASE k = j
        BY <3>1, <3>2 DEF Cared
      <3>3. CASE k # j
        BY <1>1, <3>1, <3>3 DEF Cared
      <3> QED BY <3>2, <3>3
    <2> QED BY <2>1, <2>2, <2>3 DEF Cared
  <1>3. CASE \A m \in Jobs : d \notin listed[m]
    <2>1. i = j
      BY <1>3
    <2> QED BY <1>3, <2>1 DEF Cared
  <1> QED BY <1>2, <1>3

\* A job that rests: everything of its run is forgotten.
LEMMA Rested ==
    ASSUME IInv, NEW j \in Jobs, Rest(j)
    PROVE  /\ pc' = [pc EXCEPT ![j] = "idle"]
           /\ pc'[j] = "idle" /\ at'[j] = None /\ rule'[j] = None
           /\ rules'[j] = {} /\ todo'[j] = {} /\ failures'[j] = FALSE
           /\ \A k \in Jobs \ {j} :
                 /\ pc'[k] = pc[k] /\ at'[k] = at[k] /\ rule'[k] = rule[k]
                 /\ rules'[k] = rules[k] /\ todo'[k] = todo[k] /\ failures'[k] = failures[k]
           /\ pc' \in [Jobs -> {"idle", "rules", "channels", "webhooks",
                                "sending", "accepted", "refused"}]
           /\ rules' \in [Jobs -> SUBSET Rules]
           /\ rule' \in [Jobs -> Rules \cup {None}]
           /\ todo' \in [Jobs -> SUBSET Deliveries]
           /\ at' \in [Jobs -> Deliveries \cup {None}]
           /\ failures' \in [Jobs -> BOOLEAN]
  BY DEF Rest, IInv, TypeOK

\* A job goes back to the queue, for the next attempt or for good; nothing is
\* lost, for it is waiting or dead.
LEMMA ReturnInv ==
    ASSUME IInv, NEW j \in Jobs, job[j] = "active", Rest(j),
           NEW to \in {"waiting", "dead"}, job' = [job EXCEPT ![j] = to],
           tries' \in [Jobs -> 0 .. Attempts], stalls' \in [Jobs -> 0 .. 1],
           \A k \in Jobs \ {j} : tries'[k] = tries[k], to = "waiting" => tries'[j] < Attempts,
           troubles' \in 0 .. MaxTroubles,
           UNCHANGED <<canonical, on, linked, raised, row, listed>>
    PROVE  IInv'
  <1>1. /\ pc'[j] = "idle" /\ at'[j] = None /\ rule'[j] = None
        /\ rules'[j] = {} /\ todo'[j] = {} /\ failures'[j] = FALSE
        /\ \A k \in Jobs \ {j} :
              /\ pc'[k] = pc[k] /\ at'[k] = at[k] /\ rule'[k] = rule[k]
              /\ rules'[k] = rules[k] /\ todo'[k] = todo[k] /\ failures'[k] = failures[k]
    BY Rested
  <1>2. job'[j] = to /\ \A k \in Jobs \ {j} : job'[k] = job[k]
    BY DEF IInv, TypeOK
  <1>3. TypeOK'
    BY Rested DEF IInv, TypeOK
  <1>4. ClaimInv'
    <2> SUFFICES ASSUME NEW k \in Jobs
                 PROVE  /\ job'[k] = "active" <=> pc'[k] # "idle"
                        /\ at'[k] # None <=> pc'[k] \in {"sending", "accepted", "refused"}
                        /\ at'[k] # None =>
                              /\ row'[at'[k]].status = "sent" /\ ~row'[at'[k]].stale
                              /\ at'[k] \in listed'[k]
                              /\ \A m \in Jobs : at'[m] = at'[k] => m = k
                        /\ todo'[k] \subseteq listed'[k]
                        /\ rule'[k] # None <=> pc'[k] \notin {"idle", "rules"}
      BY DEF ClaimInv
    <2> QED BY <1>1, <1>2 DEF IInv, ClaimInv
  <1>5. DutyInv'
    <2> SUFFICES ASSUME canonical PROVE /\ \A k \in Jobs : RaisedBy(k)'
                                        /\ \A k \in Jobs : \A d \in listed'[k] \cap linked' : Cared(d)'
      BY DutyPartsNext
    <2>1. \A k \in Jobs : RaisedBy(k)'
      BY <1>1, <1>2, DutyParts DEF IInv, RaisedBy
    <2>2. \A k \in Jobs \ {j} : \A d \in Deliveries : Owes(k, d) => Owes(k, d)'
      BY <1>1, <1>2 DEF Owes, AmongChannels
    <2>3. \A d \in Deliveries : Owes(j, d)'
      BY <1>2 DEF Owes
    <2>4. \A d \in linked' : Settled(d) => Settled(d)'
      BY DEF Settled
    <2> QED BY <2>1, <2>2, <2>3, <2>4, CaredStep DEF IInv, TypeOK
  <1>6. JobInv'
    BY <1>1, <1>2 DEF IInv, JobInv, AmongChannels
  <1> QED BY <1>3, <1>4, <1>5, <1>6 DEF IInv

LEMMA ThrowsInv ==
    ASSUME IInv, NEW j \in Jobs, job[j] = "active", Throws(j),
           troubles' \in 0 .. MaxTroubles,
           UNCHANGED <<canonical, on, linked, raised, row, listed>>
    PROVE  IInv'
  <1> DEFINE to == IF tries[j] + 1 < Attempts THEN "waiting" ELSE "dead"
  <1>1. job' = [job EXCEPT ![j] = to] /\ to \in {"waiting", "dead"} /\ Rest(j)
    BY DEF Throws
  <1>2. tries' \in [Jobs -> 0 .. Attempts] /\ stalls' \in [Jobs -> 0 .. 1]
    BY AlertAssumption DEF Throws, IInv, TypeOK, JobInv
  <1>3. /\ \A k \in Jobs \ {j} : tries'[k] = tries[k]
        /\ to = "waiting" => tries'[j] < Attempts
    BY DEF Throws, IInv, TypeOK
  <1> HIDE DEF to
  <1> QED BY <1>1, <1>2, <1>3, ReturnInv

\* A job that comes to its end owes nothing.
LEMMA CompletesInv ==
    ASSUME IInv, NEW j \in Jobs, Completes(j),
           canonical => /\ on \subseteq raised
                        /\ \A d \in Deliveries : ~Owes(j, d),
           UNCHANGED <<canonical, on, linked, raised, row, listed, troubles>>
    PROVE  IInv'
  <1>1. /\ pc'[j] = "idle" /\ at'[j] = None /\ rule'[j] = None
        /\ rules'[j] = {} /\ todo'[j] = {} /\ failures'[j] = FALSE
        /\ \A k \in Jobs \ {j} :
              /\ pc'[k] = pc[k] /\ at'[k] = at[k] /\ rule'[k] = rule[k]
              /\ rules'[k] = rules[k] /\ todo'[k] = todo[k] /\ failures'[k] = failures[k]
    BY Rested DEF Completes
  <1>2. job'[j] = "done" /\ \A k \in Jobs \ {j} : job'[k] = job[k]
    BY DEF Completes, IInv, TypeOK
  <1>3. TypeOK'
    BY Rested DEF Completes, IInv, TypeOK
  <1>4. ClaimInv'
    <2> SUFFICES ASSUME NEW k \in Jobs
                 PROVE  /\ job'[k] = "active" <=> pc'[k] # "idle"
                        /\ at'[k] # None <=> pc'[k] \in {"sending", "accepted", "refused"}
                        /\ at'[k] # None =>
                              /\ row'[at'[k]].status = "sent" /\ ~row'[at'[k]].stale
                              /\ at'[k] \in listed'[k]
                              /\ \A m \in Jobs : at'[m] = at'[k] => m = k
                        /\ todo'[k] \subseteq listed'[k]
                        /\ rule'[k] # None <=> pc'[k] \notin {"idle", "rules"}
      BY DEF ClaimInv
    <2> QED BY <1>1, <1>2 DEF IInv, ClaimInv
  <1>5. DutyInv'
    <2> SUFFICES ASSUME canonical PROVE /\ \A k \in Jobs : RaisedBy(k)'
                                        /\ \A k \in Jobs : \A d \in listed'[k] \cap linked' : Cared(d)'
      BY DutyPartsNext
    <2>1. \A k \in Jobs : RaisedBy(k)'
      BY <1>1, <1>2, DutyParts DEF IInv, RaisedBy
    <2>2. \A k \in Jobs \ {j} : \A d \in Deliveries : Owes(k, d) => Owes(k, d)'
      BY <1>1, <1>2 DEF Owes, AmongChannels
    <2>3. \A d \in linked' : Settled(d) => Settled(d)'
      BY DEF Settled
    <2> QED BY <2>1, <2>2, <2>3, CaredStep DEF IInv, TypeOK
  <1>6. JobInv'
    BY <1>1, <1>2 DEF IInv, JobInv, AmongChannels, Completes
  <1> QED BY <1>3, <1>4, <1>5, <1>6 DEF IInv

\* A step of a running job that changes its run and the row of what it is at.
LEMMA RunInv ==
    ASSUME IInv, NEW j \in Jobs, job[j] = "active",
           TypeOK', UNCHANGED <<canonical, on, linked, queue>>,
           \A k \in Jobs \ {j} :
               /\ pc'[k] = pc[k] /\ at'[k] = at[k] /\ rule'[k] = rule[k]
               /\ rules'[k] = rules[k] /\ todo'[k] = todo[k] /\ failures'[k] = failures[k]
               /\ listed'[k] = listed[k],
           pc'[j] \notin {"idle", "rules"},
           at'[j] # None <=> pc'[j] \in {"sending", "accepted", "refused"},
           at'[j] # None => /\ row'[at'[j]].status = "sent" /\ ~row'[at'[j]].stale
                            /\ at'[j] \in listed'[j]
                            /\ \A k \in Jobs \ {j} : at[k] # at'[j],
           \A k \in Jobs \ {j} : at[k] # None => row'[at[k]] = row[at[k]],
           listed[j] \subseteq listed'[j],
           todo'[j] \subseteq listed'[j],
           todo'[j] \subseteq IF AmongChannels(j)' THEN Deliveries \ Webhooks ELSE Webhooks,
           rule'[j] # None,
           canonical => on \subseteq raised' \cup rules'[j], raised \subseteq raised',
           \A d \in linked : Settled(d) => Settled(d)' \/ (d \in listed'[j] /\ Owes(j, d)'),
           \A d \in listed'[j] \cap linked :
               d \notin listed[j] \/ Owes(j, d)
                   => RuleOf[d] \notin on \/ Settled(d)' \/ Owes(j, d)'
    PROVE  IInv'
  <1>1. /\ job' = job /\ tries' = tries /\ canonical' = canonical
        /\ on' = on /\ linked' = linked
    BY DEF queue
  <1>2. JobInv'
    <2>1. \A k \in Jobs \ {j} : AmongChannels(k)' <=> AmongChannels(k)
      BY DEF AmongChannels
    <2> QED BY <1>1, <2>1 DEF IInv, JobInv
  <1>3. ClaimInv'
    <2> SUFFICES ASSUME NEW k \in Jobs
                 PROVE  /\ job'[k] = "active" <=> pc'[k] # "idle"
                        /\ at'[k] # None <=> pc'[k] \in {"sending", "accepted", "refused"}
                        /\ at'[k] # None =>
                              /\ row'[at'[k]].status = "sent" /\ ~row'[at'[k]].stale
                              /\ at'[k] \in listed'[k]
                              /\ \A m \in Jobs : at'[m] = at'[k] => m = k
                        /\ todo'[k] \subseteq listed'[k]
                        /\ rule'[k] # None <=> pc'[k] \notin {"idle", "rules"}
      BY DEF ClaimInv
    <2>1. CASE k = j
      BY <1>1, <2>1 DEF IInv, ClaimInv
    <2>2. CASE k # j
      BY <1>1, <2>2 DEF IInv, ClaimInv
    <2> QED BY <2>1, <2>2
  <1>4. DutyInv'
    <2> SUFFICES ASSUME canonical PROVE /\ \A k \in Jobs : RaisedBy(k)'
                                        /\ \A k \in Jobs : \A d \in listed'[k] \cap linked' : Cared(d)'
      BY <1>1, DutyPartsNext
    <2>1. \A k \in Jobs : RaisedBy(k)'
      BY <1>1, DutyParts DEF IInv, RaisedBy
    <2>2. \A k \in Jobs \ {j} : \A d \in Deliveries : Owes(k, d) => Owes(k, d)'
      BY <1>1 DEF Owes, AmongChannels
    <2> QED BY <1>1, <2>1, <2>2, CaredStep
  <1> QED BY <1>2, <1>3, <1>4 DEF IInv

-------------------------------------------------------------------------------
(* One lemma per action.                                                   *)

\* The facts about the run of an active job.
LEMMA RunOf ==
    ASSUME IInv, NEW j \in Jobs
    PROVE  /\ TypeOK
           /\ pc[j] # "idle" => job[j] = "active"
           /\ pc[j] = "idle" <=> job[j] # "active"
           /\ at[j] # None <=> pc[j] \in {"sending", "accepted", "refused"}
           /\ at[j] # None => /\ at[j] \in listed[j] /\ at[j] \in Deliveries
                              /\ row[at[j]].status = "sent" /\ ~row[at[j]].stale
                              /\ \A k \in Jobs \ {j} : at[k] # at[j]
           /\ todo[j] \subseteq listed[j]
           /\ rule[j] # None <=> pc[j] \notin {"idle", "rules"}
           /\ canonical /\ job[j] = "active" => on \subseteq raised \cup rules[j]
           /\ RuleOf \in [Deliveries -> Rules] /\ None \notin Rules /\ None \notin Deliveries
  BY AlertAssumption DEF IInv, ClaimInv, DutyInv, TypeOK

LEMMA StartInv == ASSUME IInv, NEW j \in Jobs, Start(j) PROVE IInv'
  <1>1. CASE ~canonical
    <2>1. Completes(j)
      BY <1>1 DEF Start
    <2>2. UNCHANGED <<canonical, on, linked, raised, row, listed, troubles>>
      BY DEF Start
    <2> QED BY <1>1, <2>1, <2>2, CompletesInv
  <1>2. CASE canonical
    <2>1. /\ job[j] = "waiting"
          /\ job' = [job EXCEPT ![j] = "active"]
          /\ pc' = [pc EXCEPT ![j] = "rules"]
          /\ rules' = [rules EXCEPT ![j] = on]
          /\ UNCHANGED <<rule, todo, at, failures, tries, stalls>>
          /\ UNCHANGED <<canonical, on, linked, raised, row, listed, troubles>>
      BY <1>2 DEF Start
    <2>2. TypeOK'
      BY <2>1 DEF IInv, TypeOK
    <2>3. /\ job'[j] = "active" /\ pc'[j] = "rules" /\ rules'[j] = on
          /\ \A k \in Jobs \ {j} : job'[k] = job[k] /\ pc'[k] = pc[k] /\ rules'[k] = rules[k]
      BY <2>1 DEF IInv, TypeOK
    <2>4. JobInv'
      <3>1. pc[j] = "idle"
        BY <2>1, RunOf
      <3> QED BY <2>1, <2>3, <3>1, RunOf DEF IInv, JobInv, AmongChannels
    <2>5. ClaimInv'
      <3> SUFFICES ASSUME NEW k \in Jobs
                   PROVE  /\ job'[k] = "active" <=> pc'[k] # "idle"
                          /\ at'[k] # None <=> pc'[k] \in {"sending", "accepted", "refused"}
                          /\ at'[k] # None =>
                                /\ row'[at'[k]].status = "sent" /\ ~row'[at'[k]].stale
                                /\ at'[k] \in listed'[k]
                                /\ \A m \in Jobs : at'[m] = at'[k] => m = k
                          /\ todo'[k] \subseteq listed'[k]
                          /\ rule'[k] # None <=> pc'[k] \notin {"idle", "rules"}
        BY DEF ClaimInv
      <3>1. CASE k = j
        BY <2>1, <2>3, <3>1, RunOf
      <3>2. CASE k # j
        BY <2>1, <2>3, <3>2 DEF IInv, ClaimInv
      <3> QED BY <3>1, <3>2
    <2>6. DutyInv'
      <3>1. \A k \in Jobs : RaisedBy(k)'
        BY <1>2, <2>1, <2>3, DutyParts DEF IInv, RaisedBy
      <3>2. \A k \in Jobs \ {j} : \A d \in Deliveries : Owes(k, d) => Owes(k, d)'
        BY <2>1, <2>3 DEF Owes, AmongChannels
      <3>3. \A d \in Deliveries : RuleOf[d] \notin on \/ Owes(j, d)'
        BY <2>1, <2>3 DEF Owes
      <3>4. \A d \in linked' : Settled(d) => Settled(d)'
        BY <2>1 DEF Settled
      <3> QED BY <1>2, <2>1, <3>1, <3>2, <3>3, <3>4, CaredStep, DutyPartsNext DEF IInv, TypeOK
    <2> QED BY <2>2, <2>4, <2>5, <2>6 DEF IInv
  <1> QED BY <1>1, <1>2

LEMMA DoneInv == ASSUME IInv, NEW j \in Jobs, Done(j) PROVE IInv'
  <1>1. /\ Completes(j) /\ rules[j] = {}
        /\ UNCHANGED <<canonical, on, linked, raised, row, listed, troubles>>
    BY DEF Done
  <1>2. /\ pc[j] \in {"rules", "webhooks"} /\ at[j] = None /\ job[j] = "active"
        /\ pc[j] = "rules" \/ (todo[j] = {} /\ ~failures[j])
    BY RunOf DEF Done, AtNextRule, Through
  <1>3. todo[j] = {} /\ ~failures[j]
    BY <1>2 DEF IInv, JobInv
  <1>4. canonical => on \subseteq raised
    BY <1>1, <1>2, RunOf
  <1>5. \A d \in Deliveries : ~Owes(j, d)
    <2>1. ~AmongChannels(j)
      BY <1>2 DEF AmongChannels
    <2> QED BY <1>1, <1>2, <1>3, <2>1, RunOf DEF Owes
  <1> QED BY <1>1, <1>4, <1>5, CompletesInv
LEMMA RethrowInv == ASSUME IInv, NEW j \in Jobs, Rethrow(j) PROVE IInv'
  <1>1. /\ Throws(j) /\ pc[j] = "webhooks"
        /\ UNCHANGED <<canonical, on, linked, raised, row, listed, troubles>>
    BY DEF Rethrow, Through
  <1>2. job[j] = "active" /\ troubles' \in 0 .. MaxTroubles
    BY <1>1, RunOf DEF TypeOK
  <1> QED BY <1>1, <1>2, ThrowsInv

LEMMA TroubleType == ASSUME IInv, Trouble PROVE troubles' \in 0 .. MaxTroubles
  BY AlertAssumption DEF IInv, TypeOK, Trouble

LEMMA CrashInv == ASSUME IInv, NEW j \in Jobs, Crash(j) PROVE IInv'
  <1> DEFINE to == IF stalls[j] = 0 THEN "waiting" ELSE "dead"
  <1>1. /\ job[j] = "active" /\ Rest(j) /\ job' = [job EXCEPT ![j] = to]
        /\ stalls' = [stalls EXCEPT ![j] = 1] /\ to \in {"waiting", "dead"}
        /\ UNCHANGED <<canonical, on, linked, raised, row, tries, listed>>
    BY DEF Crash
  <1>2. tries' \in [Jobs -> 0 .. Attempts] /\ stalls' \in [Jobs -> 0 .. 1]
    BY <1>1 DEF IInv, TypeOK
  <1>3. /\ \A k \in Jobs \ {j} : tries'[k] = tries[k]
        /\ to = "waiting" => tries'[j] < Attempts
    BY <1>1 DEF IInv, JobInv
  <1>4. troubles' \in 0 .. MaxTroubles
    BY TroubleType DEF Crash
  <1> HIDE DEF to
  <1> QED BY <1>1, <1>2, <1>3, <1>4, ReturnInv

LEMMA RaiseInv == ASSUME IInv, NEW j \in Jobs, Raise(j) PROVE IInv'
  <1>1. PICK r \in rules[j] :
          /\ raised' = raised \cup {r}
          /\ rules' = [rules EXCEPT ![j] = @ \ {r}]
          /\ rule' = [rule EXCEPT ![j] = r]
          /\ List(j, Listed(r) \ Webhooks)
    BY DEF Raise
  <1>2. /\ pc' = [pc EXCEPT ![j] = "channels"]
        /\ UNCHANGED <<canonical, on, linked, row, queue, at, failures, troubles>>
    BY DEF Raise
  <1>3. /\ pc[j] \in {"rules", "webhooks"} /\ todo[j] = {} /\ ~failures[j]
        /\ at[j] = None /\ job[j] = "active"
    BY RunOf DEF Raise, AtNextRule, Through, IInv, JobInv
  <1>4. /\ todo' = [todo EXCEPT ![j] = Listed(r) \ Webhooks]
        /\ listed' = [listed EXCEPT ![j] = @ \cup (Listed(r) \ Webhooks)]
        /\ Listed(r) \subseteq linked
        /\ \A d \in linked : RuleOf[d] = r => d \in Listed(r)
    BY <1>1 DEF List, Listed
  <1>5. r \in Rules
    BY <1>1 DEF IInv, TypeOK
  <1>6. TypeOK'
    BY <1>1, <1>2, <1>4, <1>5 DEF IInv, TypeOK, queue
  <1>7. /\ pc'[j] = "channels" /\ rule'[j] = r /\ rules'[j] = rules[j] \ {r} /\ at'[j] = None
        /\ todo'[j] = Listed(r) \ Webhooks
        /\ listed'[j] = listed[j] \cup (Listed(r) \ Webhooks)
        /\ \A k \in Jobs \ {j} :
              /\ pc'[k] = pc[k] /\ at'[k] = at[k] /\ rule'[k] = rule[k]
              /\ rules'[k] = rules[k] /\ todo'[k] = todo[k] /\ failures'[k] = failures[k]
              /\ listed'[k] = listed[k]
    BY <1>1, <1>2, <1>3, <1>4 DEF IInv, TypeOK
  <1>8. canonical => on \subseteq raised' \cup rules'[j]
    BY <1>1, <1>3, <1>7, RunOf
  <1>9. r # None
    BY <1>5, AlertAssumption
  <1>10. \A d \in Deliveries : Settled(d) => Settled(d)'
    BY <1>2 DEF Settled
  <1>11. job'[j] = "active" /\ AmongChannels(j)'
    BY <1>2, <1>3, <1>7 DEF queue, AmongChannels
  <1>12. ASSUME NEW d \in listed'[j] \cap linked, d \notin listed[j] \/ Owes(j, d)
         PROVE  Owes(j, d)'
    <2>1. d \in Deliveries
      BY DEF IInv, TypeOK
    <2>2. CASE d \notin listed[j]
      BY <1>7, <1>11, <2>2 DEF Owes
    <2>3. CASE Owes(j, d)
      <3>1. RuleOf[d] \in rules[j]
        <4>1. ~AmongChannels(j)
          BY <1>3 DEF AmongChannels
        <4>2. d # None
          BY <2>1, AlertAssumption
        <4> QED BY <1>3, <2>3, <4>1, <4>2 DEF Owes
      <3>2. CASE RuleOf[d] # r
        BY <1>7, <1>11, <3>1, <3>2 DEF Owes
      <3>3. CASE RuleOf[d] = r
        BY <1>4, <1>7, <1>11, <3>3 DEF Owes
      <3> QED BY <3>2, <3>3
    <2> QED BY <1>12, <2>2, <2>3
  <1>13. linked \subseteq Deliveries /\ todo'[j] \subseteq listed'[j] /\ listed[j] \subseteq listed'[j]
    BY <1>7 DEF IInv, TypeOK
  <1>14. todo'[j] \subseteq IF AmongChannels(j)' THEN Deliveries \ Webhooks ELSE Webhooks
    BY <1>4, <1>7, <1>11, <1>13
  <1> QED BY <1>1, <1>2, <1>3, <1>6, <1>7, <1>8, <1>9, <1>10, <1>12, <1>13, <1>14, RunInv

LEMMA EndpointsInv == ASSUME IInv, NEW j \in Jobs, Endpoints(j) PROVE IInv'
  <1> DEFINE ds == Listed(rule[j]) \cap Webhooks
  <1>1. /\ pc[j] = "channels" /\ todo[j] = {}
        /\ todo' = [todo EXCEPT ![j] = ds]
        /\ listed' = [listed EXCEPT ![j] = @ \cup ds]
        /\ pc' = [pc EXCEPT ![j] = "webhooks"]
        /\ UNCHANGED <<canonical, on, linked, raised, row, queue, rules, rule, at, failures, troubles>>
    BY DEF Endpoints, List
  <1>2. at[j] = None /\ job[j] = "active" /\ rule[j] # None
    BY <1>1, RunOf
  <1>3. /\ ds \subseteq linked /\ linked \subseteq Deliveries
        /\ \A d \in linked : RuleOf[d] = rule[j] /\ d \in Webhooks => d \in ds
    BY DEF Listed, IInv, TypeOK
  <1> HIDE DEF ds
  <1>4. TypeOK'
    BY <1>1, <1>3 DEF IInv, TypeOK, queue
  <1>5. /\ pc'[j] = "webhooks" /\ todo'[j] = ds /\ listed'[j] = listed[j] \cup ds
        /\ at'[j] = None /\ rule'[j] = rule[j] /\ rules'[j] = rules[j] /\ failures'[j] = failures[j]
        /\ \A k \in Jobs \ {j} :
              /\ pc'[k] = pc[k] /\ at'[k] = at[k] /\ rule'[k] = rule[k]
              /\ rules'[k] = rules[k] /\ todo'[k] = todo[k] /\ failures'[k] = failures[k]
              /\ listed'[k] = listed[k]
    BY <1>1, <1>2 DEF IInv, TypeOK
  <1>6. canonical => on \subseteq raised' \cup rules'[j]
    BY <1>1, <1>2, <1>5, RunOf
  <1>7. \A d \in Deliveries : Settled(d) => Settled(d)'
    BY <1>1 DEF Settled
  <1>8. job'[j] = "active"
    BY <1>1, <1>2 DEF queue
  <1>9. ASSUME NEW d \in listed'[j] \cap linked, d \notin listed[j] \/ Owes(j, d)
        PROVE  Owes(j, d)'
    <2>1. d # None
      BY <1>3, AlertAssumption
    <2>2. CASE d \notin listed[j]
      BY <1>5, <1>8, <2>2 DEF Owes
    <2>3. CASE Owes(j, d)
      BY <1>1, <1>2, <1>3, <1>5, <1>8, <2>1, <2>3 DEF Owes
    <2> QED BY <1>9, <2>2, <2>3
  <1>10. todo'[j] \subseteq IF AmongChannels(j)' THEN Deliveries \ Webhooks ELSE Webhooks
    <2>1. ~AmongChannels(j)'
      BY <1>5 DEF AmongChannels
    <2>2. ds \subseteq Webhooks
      BY DEF ds
    <2> QED BY <1>5, <2>1, <2>2
  <1> QED BY <1>1, <1>2, <1>3, <1>4, <1>5, <1>6, <1>7, <1>9, <1>10, RunInv
\* A run at its channels or endpoints turns to one it can claim or passes over
\* one it cannot.
LEMMA ClaimStepInv == ASSUME IInv, NEW j \in Jobs, Claim(j) PROVE IInv'
  <1>1. PICK d \in todo[j] \cap linked :
          /\ todo' = [todo EXCEPT ![j] = @ \ {d}]
          /\ IF Claimable(d)
             THEN /\ row' = [row EXCEPT ![d] = [status |-> "sent", claims |-> @.claims + 1,
                                                stale |-> FALSE]]
                  /\ pc' = [pc EXCEPT ![j] = "sending"]
                  /\ at' = [at EXCEPT ![j] = d]
             ELSE UNCHANGED <<row, pc, at>>
    BY DEF Claim, Skip
  <1>2. /\ pc[j] \in {"channels", "webhooks"}
        /\ UNCHANGED <<canonical, on, linked, raised, queue, rules, rule, failures, listed, troubles>>
    BY DEF Claim
  <1>3. /\ at[j] = None /\ job[j] = "active" /\ rule[j] # None /\ todo[j] \subseteq listed[j]
        /\ canonical => on \subseteq raised \cup rules[j]
    BY <1>2, RunOf
  <1>4. d \in Deliveries /\ d # None /\ d \in listed[j] /\ row[d] \in Rows
    BY <1>1, <1>3, AlertAssumption DEF IInv, TypeOK
  <1>5. job'[j] = "active" /\ rules'[j] = rules[j] /\ rule'[j] = rule[j] /\ failures'[j] = failures[j]
        /\ listed'[j] = listed[j] /\ todo'[j] = todo[j] \ {d}
        /\ \A k \in Jobs \ {j} : todo'[k] = todo[k]
    BY <1>1, <1>2, <1>3 DEF queue, IInv, TypeOK
  <1>6. CASE Claimable(d)
    <2>1. /\ row' = [row EXCEPT ![d] = [status |-> "sent", claims |-> @.claims + 1, stale |-> FALSE]]
          /\ pc' = [pc EXCEPT ![j] = "sending"]
          /\ at' = [at EXCEPT ![j] = d]
      BY <1>1, <1>6
    <2>2. row[d].claims + 1 \in 0 .. MaxClaims
      BY <1>4, <1>6, AlertAssumption DEF Claimable, Rows
    <2>3. /\ row'[d].status = "sent" /\ row'[d].stale = FALSE
          /\ \A e \in Deliveries \ {d} : row'[e] = row[e]
          /\ row' \in [Deliveries -> Rows]
      BY <1>4, <2>1, <2>2 DEF IInv, TypeOK, Rows
    <2>4. TypeOK'
      BY <1>1, <1>2, <1>4, <2>1, <2>3 DEF IInv, TypeOK, queue
    <2>5. /\ pc'[j] = "sending" /\ at'[j] = d
          /\ \A k \in Jobs \ {j} : pc'[k] = pc[k] /\ at'[k] = at[k]
      BY <2>1 DEF IInv, TypeOK
    <2>6. \A k \in Jobs : at[k] # d
      BY <1>4, <1>6, RunOf DEF Claimable
    <2>7. \A k \in Jobs \ {j} : at[k] # None => row'[at[k]] = row[at[k]]
      BY <2>3, <2>6, RunOf
    <2>8. \A e \in Deliveries : Settled(e) => Settled(e)' 
      BY <2>3 DEF Settled
    <2>9. ASSUME NEW e \in listed'[j] \cap linked, e \notin listed[j] \/ Owes(j, e)
          PROVE  Owes(j, e)'
      <3>1. e \in Deliveries /\ e # None /\ Owes(j, e)
        BY <1>5, <2>9, AlertAssumption DEF IInv, TypeOK
      <3>2. d \notin Webhooks => AmongChannels(j)'
        BY <1>4, <2>5 DEF AmongChannels
      <3>3. CASE e = d
        BY <1>5, <2>5, <3>3 DEF Owes
      <3>4. CASE e # d /\ (failures[j] \/ RuleOf[e] \in rules[j] \/ e \in todo[j])
        BY <1>5, <3>4 DEF Owes
      <3>5. CASE e \in Webhooks /\ rule[j] = RuleOf[e] /\ AmongChannels(j)
        <4>1. d \notin Webhooks
          BY <1>1, <3>5 DEF IInv, JobInv
        <4> QED BY <1>5, <3>2, <3>5, <4>1 DEF Owes
      <3> QED BY <1>3, <3>1, <3>3, <3>4, <3>5 DEF Owes
    <2>10. todo'[j] \subseteq IF AmongChannels(j)' THEN Deliveries \ Webhooks ELSE Webhooks
      <3>1. d \in Webhooks => ~AmongChannels(j)
        BY <1>1 DEF IInv, JobInv
      <3>2. d \notin Webhooks => AmongChannels(j)
        BY <1>1 DEF IInv, JobInv
      <3>3. AmongChannels(j)' <=> d \notin Webhooks
        BY <1>2, <1>4, <2>5 DEF AmongChannels
      <3> QED BY <1>5, <3>1, <3>2, <3>3 DEF IInv, JobInv
    <2>11. linked \subseteq Deliveries
      BY DEF IInv, TypeOK
    <2> QED BY <1>2, <1>3, <1>4, <1>5, <2>3, <2>4, <2>5, <2>6, <2>7, <2>8, <2>9, <2>10, <2>11, RunInv
  <1>7. CASE ~Claimable(d)
    <2>1. UNCHANGED <<row, pc, at>>
      BY <1>1, <1>7
    <2>2. TypeOK'
      BY <1>1, <1>2, <2>1 DEF IInv, TypeOK, queue
    <2>3. \A e \in Deliveries : Settled(e) <=> Settled(e)'
      BY <2>1 DEF Settled
    <2>4. Settled(d)
      BY <1>4, <1>7, AlertAssumption DEF Claimable, Settled, Rows
    <2>5. AmongChannels(j)' <=> AmongChannels(j)
      BY <2>1 DEF AmongChannels
    <2>6. linked \subseteq Deliveries
      BY DEF IInv, TypeOK
    <2>7. ASSUME NEW e \in listed'[j] \cap linked, e \notin listed[j] \/ Owes(j, e)
          PROVE  Settled(e)' \/ Owes(j, e)'
      <3>1. e \in Deliveries /\ Owes(j, e)
        BY <1>5, <2>7 DEF IInv, TypeOK
      <3>2. CASE e = d
        BY <2>3, <2>4, <3>1, <3>2
      <3>3. CASE e # d
        BY <1>3, <1>5, <2>1, <2>5, <3>1, <3>3 DEF Owes
      <3> QED BY <3>2, <3>3
    <2>8. todo'[j] \subseteq IF AmongChannels(j)' THEN Deliveries \ Webhooks ELSE Webhooks
      BY <1>5, <2>5 DEF IInv, JobInv
    <2>9. \A k \in Jobs \ {j} :
              /\ pc'[k] = pc[k] /\ at'[k] = at[k] /\ rule'[k] = rule[k]
              /\ rules'[k] = rules[k] /\ todo'[k] = todo[k] /\ failures'[k] = failures[k]
              /\ listed'[k] = listed[k]
      BY <1>2, <1>5, <2>1
    <2>10. /\ pc'[j] \notin {"idle", "rules"} /\ pc'[j] \notin {"sending", "accepted", "refused"}
           /\ at'[j] = None /\ rule'[j] # None
           /\ todo'[j] \subseteq listed'[j] /\ listed[j] \subseteq listed'[j]
           /\ canonical => on \subseteq raised' \cup rules'[j]
           /\ raised \subseteq raised'
           /\ \A k \in Jobs : row'[at[k]] = row[at[k]]
      BY <1>2, <1>3, <1>5, <2>1
    <2> QED BY <1>2, <1>3, <2>2, <2>3, <2>6, <2>7, <2>8, <2>9, <2>10, RunInv
  <1> QED BY <1>6, <1>7

LEMMA SendInv == ASSUME IInv, NEW j \in Jobs, Send(j) PROVE IInv'
  <1>1. PICK answer \in {"accepted", "refused"} : pc' = [pc EXCEPT ![j] = answer]
    BY DEF Send
  <1>2. /\ pc[j] = "sending"
        /\ UNCHANGED <<canonical, on, linked, raised, row, queue, rules, rule, todo, at, failures,
                       listed, troubles>>
    BY DEF Send
  <1>3. /\ at[j] # None /\ job[j] = "active" /\ rule[j] # None /\ todo[j] \subseteq listed[j]
        /\ canonical => on \subseteq raised \cup rules[j]
    BY <1>2, RunOf
  <1>4. pc'[j] = answer /\ \A k \in Jobs \ {j} : pc'[k] = pc[k]
    BY <1>1 DEF IInv, TypeOK
  <1>5. TypeOK'
    BY <1>1, <1>2 DEF IInv, TypeOK, queue
  <1>6. AmongChannels(j)' <=> AmongChannels(j)
    BY <1>2, <1>3, <1>4 DEF AmongChannels
  <1>7. \A d \in Deliveries : Settled(d) => Settled(d)'
    BY <1>2 DEF Settled
  <1>8. \A d \in Deliveries : Owes(j, d) => Owes(j, d)'
    BY <1>2, <1>3, <1>6 DEF Owes, queue
  <1>9. linked \subseteq Deliveries
    BY DEF IInv, TypeOK
  <1>10. todo'[j] \subseteq IF AmongChannels(j)' THEN Deliveries \ Webhooks ELSE Webhooks
    BY <1>2, <1>6 DEF IInv, JobInv
  <1>11. /\ row'[at'[j]].status = "sent" /\ ~row'[at'[j]].stale /\ at'[j] \in listed'[j]
         /\ \A k \in Jobs \ {j} : at[k] # at'[j]
    BY <1>2, <1>3, RunOf
  <1> QED BY <1>2, <1>3, <1>4, <1>5, <1>7, <1>8, <1>9, <1>10, <1>11, RunInv

\* The row of a delivery is recorded, by the job that holds its claim.
LEMMA RecordInv ==
    ASSUME IInv, NEW j \in Jobs, pc[j] \in {"accepted", "refused"},
           NEW status \in {"delivered", "failed"}, Record(j, status),
           failures' \in [Jobs -> BOOLEAN], failures[j] => failures'[j],
           status = "failed" => failures'[j],
           \A k \in Jobs \ {j} : failures'[k] = failures[k],
           UNCHANGED <<canonical, on, linked, raised, queue, rules, rule, todo, listed, troubles>>
    PROVE  IInv'
  <1> PICK d \in Deliveries : d = at[j]
    BY RunOf
  <1> PICK s \in {status, row[d].status} : s = IF d \in linked THEN status ELSE row[d].status
    OBVIOUS
  <1>1. /\ d \in Deliveries /\ d # None /\ row[d] \in Rows /\ row[d].status = "sent"
        /\ job[j] = "active" /\ rule[j] # None /\ todo[j] \subseteq listed[j]
        /\ \A k \in Jobs \ {j} : at[k] # d
        /\ canonical => on \subseteq raised \cup rules[j]
    BY RunOf DEF TypeOK
  <1>2. /\ row' = [row EXCEPT ![d] = [row[d] EXCEPT !.status = s]]
        /\ pc' = [pc EXCEPT ![j] = Phase(d)]
        /\ at' = [at EXCEPT ![j] = None]
    BY <1>1 DEF Record, IInv, TypeOK
  <1>3. Phase(d) \in {"channels", "webhooks"} /\ (Phase(d) = "channels" <=> d \notin Webhooks)
    BY DEF Phase
  <1>4. /\ pc'[j] = Phase(d) /\ at'[j] = None
        /\ \A k \in Jobs \ {j} : pc'[k] = pc[k] /\ at'[k] = at[k]
    BY <1>2 DEF IInv, TypeOK
  <1>5. /\ row'[d] = [row[d] EXCEPT !.status = s]
        /\ \A e \in Deliveries \ {d} : row'[e] = row[e]
    BY <1>1, <1>2 DEF IInv, TypeOK
  <1>6. row'[d].status = s /\ row'[d].claims = row[d].claims /\ row'[d] \in Rows
    BY <1>1, <1>5 DEF Rows
  <1>7. row' \in [Deliveries -> Rows]
    BY <1>1, <1>2, <1>5, <1>6 DEF IInv, TypeOK
  <1>8. TypeOK'
    BY <1>2, <1>3, <1>7 DEF IInv, TypeOK, queue
  <1>9. AmongChannels(j)' <=> AmongChannels(j)
    BY <1>1, <1>3, <1>4 DEF AmongChannels
  <1>10. \A e \in Deliveries \ {d} : Settled(e) => Settled(e)'
    BY <1>5 DEF Settled
  <1>11. d \in linked => Settled(d)' \/ Owes(j, d)'
    BY <1>1, <1>6 DEF Settled, Owes, queue
  <1>12. \A e \in Deliveries \ {d} : Owes(j, e) => Owes(j, e)'
    BY <1>1, <1>4, <1>9 DEF Owes, queue
  <1>13. linked \subseteq Deliveries /\ d \in listed[j]
    BY RunOf DEF IInv, TypeOK
  <1>14. todo'[j] \subseteq IF AmongChannels(j)' THEN Deliveries \ Webhooks ELSE Webhooks
    BY <1>9 DEF IInv, JobInv
  <1>15. \A k \in Jobs \ {j} : at[k] # None => row'[at[k]] = row[at[k]]
    <2> SUFFICES ASSUME NEW k \in Jobs \ {j}, at[k] # None PROVE row'[at[k]] = row[at[k]]
      OBVIOUS
    <2>1. at[k] \in Deliveries \ {d}
      BY <1>1 DEF IInv, TypeOK
    <2> QED BY <1>5, <2>1
  <1>16. \A e \in linked : Settled(e) => Settled(e)' \/ (e \in listed'[j] /\ Owes(j, e)')
    BY <1>10, <1>11, <1>13
  <1>17. \A e \in listed'[j] \cap linked :
             e \notin listed[j] \/ Owes(j, e) => RuleOf[e] \notin on \/ Settled(e)' \/ Owes(j, e)'
    <2> SUFFICES ASSUME NEW e \in listed[j] \cap linked, Owes(j, e)
                 PROVE  Settled(e)' \/ Owes(j, e)'
      OBVIOUS
    <2>1. CASE e = d
      BY <1>11, <2>1
    <2>2. CASE e # d
      BY <1>12, <1>13, <2>2
    <2> QED BY <2>1, <2>2
  <1> QED BY <1>1, <1>3, <1>4, <1>8, <1>13, <1>14, <1>15, <1>16, <1>17, RunInv

LEMMA SucceedInv == ASSUME IInv, NEW j \in Jobs, Succeed(j) PROVE IInv'
  BY RecordInv DEF Succeed, IInv, TypeOK

LEMMA FailInv == ASSUME IInv, NEW j \in Jobs, Fail(j) PROVE IInv'
  <1>1. failures' \in [Jobs -> BOOLEAN] /\ failures'[j]
        /\ \A k \in Jobs \ {j} : failures'[k] = failures[k]
    BY DEF Fail, IInv, TypeOK
  <1> QED BY <1>1, RecordInv DEF Fail

LEMMA ClaimGoneInv == ASSUME IInv, NEW j \in Jobs, ClaimGone(j) PROVE IInv'
  <1>1. PICK d \in todo[j] \ linked :
          \/ Throws(j)
          \/ /\ todo' = [todo EXCEPT ![j] = @ \ {d}]
             /\ UNCHANGED <<pc, rules, rule, at, failures, queue>>
    BY DEF ClaimGone
  <1>2. /\ pc[j] \in {"channels", "webhooks"}
        /\ UNCHANGED <<canonical, on, linked, raised, row, listed, troubles>>
    BY DEF ClaimGone
  <1>3. /\ at[j] = None /\ job[j] = "active" /\ rule[j] # None /\ todo[j] \subseteq listed[j]
        /\ canonical => on \subseteq raised \cup rules[j]
    BY <1>2, RunOf
  <1>4. CASE Throws(j)
    <2>1. troubles' \in 0 .. MaxTroubles
      BY <1>2 DEF IInv, TypeOK
    <2> QED BY <1>2, <1>3, <1>4, <2>1, ThrowsInv
  <1>5. CASE /\ todo' = [todo EXCEPT ![j] = @ \ {d}]
             /\ UNCHANGED <<pc, rules, rule, at, failures, queue>>
    <2>1. TypeOK'
      BY <1>2, <1>5 DEF IInv, TypeOK, queue
    <2>2. todo'[j] = todo[j] \ {d} /\ \A k \in Jobs \ {j} : todo'[k] = todo[k]
      BY <1>5 DEF IInv, TypeOK
    <2>3. AmongChannels(j)' <=> AmongChannels(j)
      BY <1>5 DEF AmongChannels
    <2>4. \A e \in linked : Settled(e) => Settled(e)'
      BY <1>2 DEF Settled
    <2>5. \A e \in linked : Owes(j, e) => Owes(j, e)'
      BY <1>1, <1>2, <1>5, <2>2, <2>3 DEF Owes, queue
    <2>6. todo'[j] \subseteq IF AmongChannels(j)' THEN Deliveries \ Webhooks ELSE Webhooks
      BY <2>2, <2>3 DEF IInv, JobInv
    <2> QED BY <1>2, <1>3, <1>5, <2>1, <2>2, <2>4, <2>5, <2>6, RunInv
  <1> QED BY <1>1, <1>4, <1>5

LEMMA StatementFailsInv == ASSUME IInv, NEW j \in Jobs, StatementFails(j) PROVE IInv'
  <1>1. troubles' \in 0 .. MaxTroubles
    BY TroubleType DEF StatementFails
  <1>2. UNCHANGED <<canonical, on, linked, raised, row, listed>>
    BY DEF StatementFails
  <1>3. CASE pc[j] \in {"rules", "channels", "webhooks", "refused"} /\ Throws(j)
    BY <1>1, <1>2, <1>3, RunOf, ThrowsInv
  <1>4. CASE /\ pc[j] = "accepted"
             /\ pc' = [pc EXCEPT ![j] = "refused"]
             /\ UNCHANGED <<rules, rule, todo, at, failures, queue>>
    <2>1. /\ at[j] # None /\ job[j] = "active" /\ rule[j] # None /\ todo[j] \subseteq listed[j]
          /\ canonical => on \subseteq raised \cup rules[j]
      BY <1>4, RunOf
    <2>2. pc'[j] = "refused" /\ \A k \in Jobs \ {j} : pc'[k] = pc[k]
      BY <1>4 DEF IInv, TypeOK
    <2>3. TypeOK'
      BY <1>1, <1>2, <1>4 DEF IInv, TypeOK, queue
    <2>4. AmongChannels(j)' <=> AmongChannels(j)
      BY <1>4, <2>1, <2>2 DEF AmongChannels
    <2>5. \A e \in linked : Settled(e) => Settled(e)'
      BY <1>2 DEF Settled
    <2>6. \A e \in linked : Owes(j, e) => Owes(j, e)'
      BY <1>4, <2>4 DEF Owes, queue
    <2>7. todo'[j] \subseteq IF AmongChannels(j)' THEN Deliveries \ Webhooks ELSE Webhooks
      BY <1>4, <2>4 DEF IInv, JobInv
    <2>8. /\ row'[at'[j]].status = "sent" /\ ~row'[at'[j]].stale /\ at'[j] \in listed'[j]
          /\ \A k \in Jobs \ {j} : at[k] # at'[j]
      BY <1>2, <1>4, <2>1, RunOf
    <2> QED BY <1>2, <1>4, <2>1, <2>2, <2>3, <2>5, <2>6, <2>7, <2>8, RunInv
  <1> QED BY <1>3, <1>4 DEF StatementFails

\* A run that no longer waits for an answer has claimed nothing: the claim of
\* nobody only becomes claimable.
LEMMA GoStaleInv == ASSUME IInv, NEW d \in Deliveries, GoStale(d) PROVE IInv'
  <1>1. /\ \A k \in Jobs : at[k] # d
        /\ row[d].status = "sent"
        /\ row' = [row EXCEPT ![d] = [row[d] EXCEPT !.stale = TRUE]]
        /\ UNCHANGED <<canonical, on, linked, raised, queue, run, listed, troubles>>
    BY DEF GoStale, IInv, TypeOK
  <1>2. row'[d] = [row[d] EXCEPT !.stale = TRUE] /\ \A e \in Deliveries \ {d} : row'[e] = row[e]
    BY <1>1 DEF IInv, TypeOK
  <1>3. row'[d].status = "sent" /\ row'[d].claims = row[d].claims /\ row'[d] \in Rows
    <2>1. row[d] \in Rows
      BY DEF IInv, TypeOK
    <2>2. row'[d].status = "sent" /\ row'[d].claims = row[d].claims
      BY <1>1, <1>2, <2>1 DEF Rows
    <2>3. [row[d] EXCEPT !.stale = TRUE] \in Rows
      BY <2>1 DEF Rows
    <2> QED BY <1>2, <2>2, <2>3
  <1>4. row' \in [Deliveries -> Rows]
    BY <1>1, <1>2, <1>3 DEF IInv, TypeOK
  <1>5. TypeOK'
    BY <1>1, <1>4 DEF IInv, TypeOK, queue, run
  <1>6. JobInv'
    BY <1>1 DEF IInv, JobInv, AmongChannels, queue, run
  <1>7. \A k \in Jobs : at[k] # None => row'[at[k]] = row[at[k]]
    BY <1>1, <1>2, RunOf
  <1>8. ClaimInv'
    BY <1>1, <1>7 DEF IInv, ClaimInv, queue, run
  <1>9. \A e \in Deliveries : Settled(e) => Settled(e)'
    BY <1>2, <1>3 DEF Settled
  <1>10. \A k \in Jobs, e \in Deliveries : Owes(k, e) <=> Owes(k, e)'
    BY <1>1 DEF Owes, AmongChannels, queue, run
  <1>11. DutyInv'
    <2>1. SUFFICES ASSUME canonical PROVE /\ \A k \in Jobs : RaisedBy(k)'
                                          /\ \A k \in Jobs : \A e \in listed'[k] \cap linked' : Cared(e)'
      BY <1>1, DutyPartsNext
    <2>2. \A k \in Jobs : RaisedBy(k)'
      BY <1>1, <2>1, DutyParts DEF IInv, RaisedBy, queue, run
    <2>3. \A k \in Jobs : \A e \in listed[k] \cap linked : Cared(e)
      BY <2>1, DutyParts DEF IInv
    <2>4. \A e \in linked : Cared(e) => Cared(e)'
      <3>1. linked \subseteq Deliveries
        BY DEF IInv, TypeOK
      <3> QED BY <1>1, <1>9, <1>10, <3>1 DEF Cared
    <2> QED BY <1>1, <2>2, <2>3, <2>4
  <1> QED BY <1>5, <1>6, <1>8, <1>11 DEF IInv

\* What users change: a rule goes, a delivery goes, or one comes that nobody
\* has come upon.
LEMMA EditInv == ASSUME IInv, Edit PROVE IInv'
  <1>1. /\ UNCHANGED <<canonical, raised, row, queue, run, listed>>
        /\ troubles' \in 0 .. MaxTroubles
    BY TroubleType DEF Edit
  <1>2. on' \subseteq on /\ linked' \subseteq Deliveries
        /\ \A j \in Jobs : listed[j] \cap linked' \subseteq linked
    BY DEF Edit, IInv, TypeOK
  <1>3. TypeOK'
    BY <1>1, <1>2 DEF IInv, TypeOK, queue, run
  <1>4. JobInv'
    BY <1>1 DEF IInv, JobInv, AmongChannels, queue, run
  <1>5. ClaimInv'
    BY <1>1 DEF IInv, ClaimInv, queue, run
  <1>6. DutyInv'
    <2>1. SUFFICES ASSUME canonical PROVE /\ \A k \in Jobs : RaisedBy(k)'
                                          /\ \A k \in Jobs : \A e \in listed'[k] \cap linked' : Cared(e)'
      BY <1>1, DutyPartsNext
    <2>2. \A k \in Jobs : RaisedBy(k)'
      BY <1>1, <1>2, <2>1, DutyParts DEF IInv, RaisedBy, queue, run
    <2>3. \A k \in Jobs : \A e \in listed[k] \cap linked : Cared(e)
      BY <2>1, DutyParts DEF IInv
    <2>4. \A e : Cared(e) => Cared(e)'
      <3>1. \A e : Settled(e) => Settled(e)'
        BY <1>1 DEF Settled
      <3>2. \A e : \A k \in Jobs : Owes(k, e) => Owes(k, e)'
        BY <1>1 DEF Owes, AmongChannels, queue, run
      <3> QED BY <1>1, <1>2, <3>1, <3>2 DEF Cared
    <2> QED BY <1>1, <1>2, <2>2, <2>3, <2>4
  <1> QED BY <1>3, <1>4, <1>5, <1>6 DEF IInv

LEMMA OrphanInv == ASSUME IInv, Orphan PROVE IInv'
  <1>1. canonical' = FALSE /\ UNCHANGED <<on, linked, raised, row, queue, run, listed, troubles>>
    BY DEF Orphan
  <1>2. TypeOK'
    BY <1>1 DEF IInv, TypeOK, queue, run
  <1>3. JobInv' /\ ClaimInv'
    BY <1>1 DEF IInv, JobInv, ClaimInv, AmongChannels, queue, run
  <1>4. DutyInv'
    BY <1>1 DEF DutyInv
  <1> QED BY <1>2, <1>3, <1>4 DEF IInv

LEMMA StutterInv == ASSUME IInv, UNCHANGED vars PROVE IInv'
  <1>1. TypeOK' /\ JobInv' /\ ClaimInv'
    BY DEF IInv, TypeOK, JobInv, ClaimInv, AmongChannels, vars, queue, run
  <1>2. DutyInv'
    <2>1. DutyInv
      BY DEF IInv
    <2>2. \A k \in Jobs : \A d : Owes(k, d)' <=> Owes(k, d)
      BY DEF vars, queue, run, Owes, AmongChannels
    <2>3. \A d : Settled(d)' <=> Settled(d)
      BY DEF vars, Settled
    <2> QED BY <2>1, <2>2, <2>3 DEF DutyInv, vars, queue, run
  <1> QED BY <1>1, <1>2 DEF IInv

LEMMA InitInv == Init => IInv
  BY AlertAssumption
  DEF Init, IInv, TypeOK, Rows, JobInv, ClaimInv, DutyInv, AmongChannels

LEMMA Invariance == Spec => []IInv
  <1>1. IInv /\ [Next]_vars => IInv'
    <2> SUFFICES ASSUME IInv, [Next]_vars PROVE IInv'
      OBVIOUS
    <2>1. ASSUME NEW j \in Jobs, Step(j) PROVE IInv'
      BY <2>1, StartInv, RaiseInv, EndpointsInv, RethrowInv, DoneInv, ClaimStepInv,
         ClaimGoneInv, SendInv, SucceedInv, FailInv DEF Step
    <2>2. ASSUME NEW j \in Jobs, Crash(j) \/ StatementFails(j) PROVE IInv'
      BY <2>2, CrashInv, StatementFailsInv
    <2>3. CASE \E d \in Deliveries : GoStale(d)
      BY <2>3, GoStaleInv
    <2>4. CASE Edit \/ Orphan
      BY <2>4, EditInv, OrphanInv
    <2>5. CASE UNCHANGED vars
      BY <2>5, StutterInv
    <2> QED BY <2>1, <2>2, <2>3, <2>4, <2>5 DEF Next
  <1> QED BY <1>1, InitInv, PTL DEF Spec

-------------------------------------------------------------------------------
(* A delivery is claimed work: who is at it holds it.                      *)

LEMMA SameWork ==
    ASSUME IInv, at' = at, \A d \in Deliveries : row'[d].status = row[d].status
    PROVE  UNCHANGED Work!vars
  BY DEF Work!vars, Holders, Finished

\* A run lets go of what it was at.
LEMMA LetGo ==
    ASSUME IInv, NEW j \in Jobs, at' = [at EXCEPT ![j] = None]
    PROVE  /\ at[j] = None => Holders' = Holders
           /\ at[j] # None => /\ at[j] \in Deliveries
                              /\ Holders[at[j]] = {j}
                              /\ Holders' = [Holders EXCEPT ![at[j]] = {}]
  <1>1. at'[j] = None /\ \A k \in Jobs \ {j} : at'[k] = at[k]
    BY DEF IInv, TypeOK
  <1>2. CASE at[j] = None
    <2>1. at' = at
      BY <1>2 DEF IInv, TypeOK
    <2> QED BY <1>2, <2>1 DEF Holders
  <1>3. CASE at[j] # None
    <2>1. at[j] \in Deliveries /\ \A k \in Jobs \ {j} : at[k] # at[j]
      BY <1>3, RunOf
    <2>2. \A d \in Deliveries : {k \in Jobs : at'[k] = d} =
                                   IF d = at[j] THEN {} ELSE {k \in Jobs : at[k] = d}
      <3> SUFFICES ASSUME NEW d \in Deliveries, NEW k \in Jobs
                   PROVE  at'[k] = d <=> d # at[j] /\ at[k] = d
        OBVIOUS
      <3>1. d # None
        BY AlertAssumption
      <3> QED BY <1>1, <2>1, <3>1
    <2>3. Holders[at[j]] = {j}
      BY <2>1 DEF Holders
    <2> QED BY <1>3, <2>1, <2>2, <2>3 DEF Holders
  <1> QED BY <1>2, <1>3

LEMMA RestWork ==
    ASSUME IInv, NEW j \in Jobs, Rest(j), row' = row
    PROVE  [Work!Next]_(Work!vars)
  <1>1. at' = [at EXCEPT ![j] = None]
    BY DEF Rest
  <1>2. Finished' = Finished
    BY DEF Finished
  <1>3. CASE at[j] = None
    BY <1>1, <1>2, <1>3, LetGo DEF Work!vars
  <1>4. CASE at[j] # None
    <2>1. Work!Release(at[j]) /\ at[j] \in Deliveries
      BY <1>1, <1>2, <1>4, LetGo DEF Work!Release
    <2> QED BY <2>1 DEF Work!Next
  <1> QED BY <1>3, <1>4

LEMMA RecordWork ==
    ASSUME IInv, NEW j \in Jobs, pc[j] \in {"accepted", "refused"},
           NEW status \in {"delivered", "failed"}, Record(j, status)
    PROVE  [Work!Next]_(Work!vars)
  <1> PICK d \in Deliveries : d = at[j] /\ d # None /\ row[d].status = "sent"
    BY RunOf
  <1>1. /\ row' = [row EXCEPT ![d].status = IF d \in linked THEN status ELSE @]
        /\ at' = [at EXCEPT ![j] = None]
    BY DEF Record
  <1>2. row'[d].status = (IF d \in linked THEN status ELSE "sent")
        /\ \A e \in Deliveries \ {d} : row'[e] = row[e]
    <2>1. row[d] \in Rows
      BY DEF IInv, TypeOK
    <2> QED BY <1>1, <2>1 DEF Rows, IInv, TypeOK
  <1>3. /\ Holders[d] = {j}
        /\ Holders' = [Holders EXCEPT ![d] = {}]
    BY <1>1, LetGo
  <1>4. CASE d \in linked /\ status = "delivered"
    <2>1. Finished' = Finished \cup {d}
      BY <1>2, <1>4 DEF Finished
    <2>2. Work!Finish(d)
      BY <1>3, <2>1 DEF Work!Finish
    <2> QED BY <2>2 DEF Work!Next
  <1>5. CASE ~(d \in linked /\ status = "delivered")
    <2>1. Finished' = Finished
      BY <1>2, <1>5 DEF Finished
    <2>2. Work!Release(d)
      BY <1>3, <2>1 DEF Work!Release
    <2> QED BY <2>2 DEF Work!Next
  <1> QED BY <1>4, <1>5

LEMMA ClaimWork == ASSUME IInv, NEW j \in Jobs, Claim(j) PROVE [Work!Next]_(Work!vars)
  <1>1. PICK d \in todo[j] \cap linked :
          IF Claimable(d)
          THEN /\ row' = [row EXCEPT ![d] = [status |-> "sent", claims |-> @.claims + 1,
                                             stale |-> FALSE]]
               /\ at' = [at EXCEPT ![j] = d]
          ELSE UNCHANGED <<row, pc, at>>
    BY DEF Claim, Skip
  <1>2. d \in Deliveries /\ at[j] = None
    BY RunOf DEF Claim, TypeOK
  <1>3. CASE Claimable(d)
    <2>1. row[d].status # "delivered" /\ \A k \in Jobs : at[k] # d
      BY <1>2, <1>3, RunOf DEF Claimable
    <2>2. row'[d].status = "sent" /\ \A e \in Deliveries \ {d} : row'[e] = row[e]
      BY <1>1, <1>2, <1>3 DEF IInv, TypeOK
    <2>3. Finished' = Finished
      BY <1>2, <2>1, <2>2 DEF Finished
    <2>4. d \notin Finished /\ Holders[d] = {}
      BY <1>2, <2>1 DEF Finished, Holders
    <2>5. \A e \in Deliveries : {k \in Jobs : at'[k] = e} =
                                   IF e = d THEN {j} ELSE {k \in Jobs : at[k] = e}
      <3> SUFFICES ASSUME NEW e \in Deliveries, NEW k \in Jobs
                   PROVE  at'[k] = e <=> IF e = d THEN k = j ELSE at[k] = e
        OBVIOUS
      <3>1. at'[j] = d /\ \A m \in Jobs \ {j} : at'[m] = at[m]
        BY <1>1, <1>3 DEF IInv, TypeOK
      <3>2. e # None
        BY AlertAssumption
      <3> QED BY <1>2, <2>1, <3>1, <3>2
    <2>6. Holders' = [Holders EXCEPT ![d] = {j}]
      BY <1>2, <2>5 DEF Holders
    <2>7. Work!Claim(d, j)
      BY <2>3, <2>4, <2>6 DEF Work!Claim
    <2> QED BY <1>2, <2>7 DEF Work!Next
  <1>4. CASE ~Claimable(d)
    BY <1>1, <1>4, SameWork
  <1> QED BY <1>3, <1>4

LEMMA StepWork == ASSUME IInv, [Next]_vars PROVE [Work!Next]_(Work!vars)
  <1>1. ASSUME NEW j \in Jobs, Step(j) PROVE [Work!Next]_(Work!vars)
    <2>1. CASE Start(j)
      <3>1. CASE canonical
        BY <2>1, <3>1, SameWork DEF Start
      <3>2. CASE ~canonical
        BY <2>1, <3>2, RestWork DEF Start, Completes
      <3> QED BY <3>1, <3>2
    <2>2. CASE Raise(j) \/ Endpoints(j) \/ Send(j)
      BY <2>2, SameWork DEF Raise, Endpoints, Send
    <2>3. CASE Rethrow(j) \/ Done(j)
      BY <2>3, RestWork DEF Rethrow, Done, Throws, Completes
    <2>4. CASE ClaimGone(j)
      <3>1. row' = row /\ (at' = at \/ Throws(j))
        BY <2>4 DEF ClaimGone
      <3> QED BY <3>1, SameWork, RestWork DEF Throws
    <2>5. CASE Claim(j)
      BY <2>5, ClaimWork
    <2>6. CASE Succeed(j) \/ Fail(j)
      BY <2>6, RecordWork DEF Succeed, Fail
    <2> QED BY <1>1, <2>1, <2>2, <2>3, <2>4, <2>5, <2>6 DEF Step
  <1>2. ASSUME NEW j \in Jobs, Crash(j) PROVE [Work!Next]_(Work!vars)
    BY <1>2, RestWork DEF Crash
  <1>3. ASSUME NEW j \in Jobs, StatementFails(j) PROVE [Work!Next]_(Work!vars)
    <2>1. row' = row /\ (at' = at \/ Throws(j))
      BY <1>3 DEF StatementFails
    <2> QED BY <2>1, SameWork, RestWork DEF Throws
  <1>4. ASSUME NEW d \in Deliveries, GoStale(d) PROVE [Work!Next]_(Work!vars)
    <2>1. at' = at /\ row' = [row EXCEPT ![d].stale = TRUE]
      BY <1>4 DEF GoStale, run
    <2>2. row[d] \in Rows
      BY DEF IInv, TypeOK
    <2>3. \A e \in Deliveries : row'[e].status = row[e].status
      BY <2>1, <2>2 DEF IInv, TypeOK, Rows
    <2> QED BY <2>1, <2>3, SameWork
  <1>5. CASE Edit \/ Orphan \/ UNCHANGED vars
    BY <1>5, SameWork DEF Edit, Orphan, vars, run
  <1> QED BY <1>1, <1>2, <1>3, <1>4, <1>5 DEF Next

-------------------------------------------------------------------------------
(* Theorems.                                                               *)

\* The state keeps its types: no row is claimed more often than the limit, and
\* no job is tried more often than it has attempts.
THEOREM TypeCorrect == Spec => []TypeOK
  BY Invariance, PTL DEF IInv

\* One run at a time sends a message, and none one that is delivered
\* (alert-delivery.ts:191), whatever crashes, fails or is changed by users.
THEOREM DeliveriesAreClaimed == Spec => DeliveriesAreClaimedWork
  <1>1. Init => Work!Init
    <2> SUFFICES ASSUME Init PROVE Work!Init
      OBVIOUS
    <2>1. Holders = [d \in Deliveries |-> {}]
      BY AlertAssumption DEF Init, Holders
    <2>2. Finished = {}
      BY DEF Init, Finished
    <2> QED BY <2>1, <2>2 DEF Work!Init
  <1>2. IInv /\ [Next]_vars => [Work!Next]_(Work!vars)
    BY StepWork
  <1> QED BY <1>1, <1>2, Invariance, PTL DEF Spec, DeliveriesAreClaimedWork, Work!Spec

\* A job that completes leaves nothing it came upon undone
\* (alert-delivery.ts:104): it is settled, or another job sees to it.
THEOREM NothingIsForgotten == Spec => []NobodyForgotten
  <1>1. IInv => NobodyForgotten
    <2> SUFFICES ASSUME IInv, canonical, NEW j \in Jobs, job[j] = "done"
                 PROVE  /\ on \subseteq raised
                        /\ \A d \in listed[j] \cap linked :
                              \/ RuleOf[d] \notin on
                              \/ Settled(d)
                              \/ \E k \in Jobs : d \in listed[k] /\ job[k] # "done"
      BY DEF NobodyForgotten
    <2>1. on \subseteq raised /\ \A d \in listed[j] \cap linked : Cared(d)
      BY DutyParts DEF IInv, RaisedBy
    <2>2. \A k \in Jobs, d \in Deliveries : Owes(k, d) => job[k] # "done"
      BY DEF Owes
    <2> QED BY <2>1, <2>2 DEF Cared, IInv, TypeOK
  <1> QED BY <1>1, Invariance, PTL
===============================================================================
