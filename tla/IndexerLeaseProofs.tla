--------------------------- MODULE IndexerLeaseProofs -------------------------
(***************************************************************************)
(* Proofs about IndexerLease, for every set of workers, lease duration and *)
(* clock.                                                                  *)
(***************************************************************************)
EXTENDS IndexerLease, TLAPS

\* A worker's next line is one of the code's.
LEMMA GotoType ==
    ASSUME TypeOK, NEW w \in Workers, NEW line \in Lines, Goto(w, line)
    PROVE  pc' \in [Workers -> Lines]
  BY DEF Goto, TypeOK

\* A write counts as late only for a worker without the lease.
LEMMA WriteCheckpointInv ==
    ASSUME LateInv, NEW w \in Workers, pc[w] \in {"create", "save"},
           NEW next \in 0 .. MaxBlock + 1, WriteCheckpoint(w, next),
           UNCHANGED <<now, lease, at, running, timely, contested, bounds>>
    PROVE  LateInv'
  <1>1. late[w] = 0 /\ late' = [late EXCEPT ![w] = IF Holds(w) THEN 0 ELSE 1]
    <2>1. late[w] = 0
      BY DEF LateInv
    <2> QED BY <2>1 DEF WriteCheckpoint, LateInv, TypeOK
  <1>2. pc' = [pc EXCEPT ![w] = "top"]
    BY DEF WriteCheckpoint, Goto
  <1>3. TypeOK'
    BY <1>1, <1>2, LeaseAssumption DEF LateInv, TypeOK, WriteCheckpoint, bounds, Lines
  <1>4. ASSUME NEW v \in Workers
        PROVE  /\ late'[v] <= 1
               /\ pc'[v] \notin {"top", "release", "gone"} => late'[v] = 0
               /\ pc'[v] = "save" => pos'[v] <= MaxBlock
    <2>1. CASE v = w
      BY <1>1, <1>2, <2>1 DEF LateInv, TypeOK
    <2>2. CASE v # w
      <3>1. late'[v] = late[v] /\ pc'[v] = pc[v] /\ pos'[v] = pos[v]
        BY <1>1, <1>2, <2>2 DEF WriteCheckpoint, LateInv, TypeOK
      <3> QED BY <3>1 DEF LateInv, AtMostOneLateWrite
    <2> QED BY <2>1, <2>2
  <1> QED BY <1>3, <1>4 DEF LateInv, AtMostOneLateWrite

\* acquireLease writes no checkpoint, and a worker in it has written none.
LEMMA AcquireInv ==
    ASSUME LateInv, NEW w \in Workers, Acquire(w)
    PROVE  LateInv'
  <1> USE LeaseAssumption
  <1>1. PICK line \in Lines : Goto(w, line)
    BY DEF Acquire, Begin, Insert, InsertFails, CheckOwn, RenewOwn, CheckOther, TakeOver, Lines
  <1>2. late' = late /\ pc[w] \notin {"top", "release", "gone"}
    BY DEF Acquire, Begin, Insert, InsertFails, CheckOwn, RenewOwn, CheckOther, TakeOver,
           history
  <1>3. lease' \in [worker : Workers \cup {NoWorker}, expires : Nat] /\ at' \in [Workers -> Nat]
    <2>1. OwnLease(w) \in [worker : Workers \cup {NoWorker}, expires : Nat]
      BY DEF OwnLease, LateInv, TypeOK
    <2>2. NoLease \in [worker : Workers \cup {NoWorker}, expires : Nat]
      BY DEF NoLease
    <2>3. [lease EXCEPT !.expires = now + LeaseDuration]
              \in [worker : Workers \cup {NoWorker}, expires : Nat]
      BY DEF LateInv, TypeOK
    <2>4. lease' \in {lease, OwnLease(w), NoLease, [lease EXCEPT !.expires = now + LeaseDuration]}
      BY DEF Acquire, Begin, Insert, InsertFails, CheckOwn, RenewOwn, CheckOther, TakeOver, tables
    <2>5. at' = at \/ at' = [at EXCEPT ![w] = now]
      BY DEF Acquire, Begin, Insert, InsertFails, CheckOwn, RenewOwn, CheckOther, TakeOver
    <2>6. now \in Nat /\ at \in [Workers -> Nat]
          /\ lease \in [worker : Workers \cup {NoWorker}, expires : Nat]
      BY DEF LateInv, TypeOK
    <2> QED BY <2>1, <2>2, <2>3, <2>4, <2>5, <2>6
  <1>4. failures' \in 0 .. MaxFailures /\ UNCHANGED <<now, checkpoint, pos, running, timely, stops>>
    BY DEF Acquire, Begin, Insert, InsertFails, CheckOwn, RenewOwn, CheckOther, TakeOver,
           LateInv, TypeOK, tables, bounds, history
  <1>0. contested' \in BOOLEAN
    <2>1. contested' = contested
            \/ contested' = (contested \/ \E v \in Workers \ {w} : pc[v] = "takeover")
      BY DEF Acquire, Begin, Insert, InsertFails, CheckOwn, RenewOwn, CheckOther, TakeOver, history
    <2>2. contested \in BOOLEAN
      BY DEF LateInv, TypeOK
    <2> QED BY <2>1, <2>2, Zenon
  <1>5. TypeOK'
    BY <1>1, <1>2, <1>3, <1>4, <1>0, GotoType DEF LateInv, TypeOK
  <1>6. pc'[w] # "save" /\ \A v \in Workers : v # w => pc'[v] = pc[v]
    BY <1>1 DEF Acquire, Begin, Insert, InsertFails, CheckOwn, RenewOwn, CheckOther, TakeOver,
           Goto, LateInv, TypeOK
  <1>7. pos' = pos /\ late[w] = 0
    BY <1>2, <1>4 DEF LateInv
  <1> QED BY <1>2, <1>5, <1>6, <1>7 DEF LateInv, AtMostOneLateWrite

\* The loop: only a successful renewal leads back into its body.
LEMMA LiveInv ==
    ASSUME LateInv, NEW w \in Workers, Live(w)
    PROVE  LateInv'
  <1> USE LeaseAssumption
  <1>1. CASE Create(w)
    BY <1>1, WriteCheckpointInv DEF Create
  <1>2. CASE Save(w)
    <2>1. pos[w] + 1 \in 0 .. MaxBlock + 1
      BY <1>2 DEF Save, LateInv, TypeOK
    <2> QED BY <1>2, <2>1, WriteCheckpointInv DEF Save
  <1>3. CASE Renew(w)
    <2>1. CASE Holds(w)
      BY <1>3, <2>1 DEF Renew, Goto, LateInv, AtMostOneLateWrite, TypeOK, bounds, Lines
    <2>2. CASE ~Holds(w)
      BY <1>3, <2>2 DEF Renew, Goto, LateInv, AtMostOneLateWrite, TypeOK, bounds, Lines
    <2> QED BY <2>1, <2>2
  <1>4. CASE Load(w)
    <2>1. checkpoint # -1 => checkpoint \in 0 .. MaxBlock + 1
      BY DEF LateInv, TypeOK
    <2> QED BY <1>4, <2>1 DEF Load, Goto, LateInv, AtMostOneLateWrite, TypeOK, tables, bounds, history,
                            Lines
  <1>5. CASE Leave(w) \/ IndexBlock(w) \/ Idle(w) \/ Release(w)
    <2>1. late' = late /\ (\E line \in Lines : Goto(w, line))
          /\ (pc'[w] = "save" => pos[w] <= MaxBlock)
      BY <1>5 DEF Leave, IndexBlock, Idle, Release, Lines, Goto, LateInv, TypeOK, history
    <2>2. pc[w] \in {"body", "top", "release"} /\ (pc[w] = "top" => pc'[w] = "release")
          /\ (pc[w] = "release" => pc'[w] = "gone")
      BY <1>5 DEF Leave, IndexBlock, Idle, Release, Goto, LateInv, TypeOK
    <2>3. lease' \in [worker : Workers \cup {NoWorker}, expires : Nat]
          /\ UNCHANGED <<now, checkpoint, at, pos, running, timely, contested, bounds>>
      BY <1>5 DEF Leave, IndexBlock, Idle, Release, ReleaseOwn, NoLease, tables, history, LateInv,
                  TypeOK
    <2>4. TypeOK'
      BY <2>1, <2>3, GotoType DEF LateInv, TypeOK, bounds
    <2>5. late[w] = 0 \/ pc'[w] \in {"top", "release", "gone"}
      BY <2>2 DEF LateInv
    <2>6. (\A v \in Workers : v # w => pc'[v] = pc[v]) /\ pos' = pos
      BY <2>1, <2>3 DEF Goto, LateInv, TypeOK
    <2> QED BY <2>1, <2>4, <2>5, <2>6 DEF LateInv, AtMostOneLateWrite
  <1> QED BY <1>1, <1>2, <1>3, <1>4, <1>5 DEF Live

\* Time, stop() and a crash write no checkpoint.
LEMMA OutsideInv ==
    ASSUME LateInv, Tick \/ (\E w \in Workers : Stop(w) \/ Crash(w))
    PROVE  LateInv'
  <1> USE LeaseAssumption
  <1>1. CASE Tick
    BY <1>1 DEF Tick, LateInv, AtMostOneLateWrite, TypeOK, tables, bounds
  <1>2. ASSUME NEW w \in Workers, Stop(w) PROVE LateInv'
    BY <1>2 DEF Stop, ReleaseOwn, NoLease, LateInv, AtMostOneLateWrite, TypeOK, history
  <1>3. ASSUME NEW w \in Workers, Crash(w) PROVE LateInv'
    BY <1>3 DEF Crash, Goto, LateInv, AtMostOneLateWrite, TypeOK, tables, bounds, history,
                Lines
  <1> QED BY <1>1, <1>2, <1>3

\* Nothing is written before anything happens.
LEMMA LateInit == Init => LateInv
  <1> SUFFICES ASSUME Init PROVE LateInv
    OBVIOUS
  <1>1. lease \in [worker : Workers \cup {NoWorker}, expires : Nat]
    BY DEF Init, NoLease
  <1>2. /\ now \in 0 .. MaxTime /\ checkpoint \in -1 .. MaxBlock + 1
        /\ stops \in 0 .. MaxStops /\ failures \in 0 .. MaxFailures
    BY LeaseAssumption DEF Init
  <1>3. pc \in [Workers -> Lines] /\ at \in [Workers -> Nat] /\ late \in [Workers -> Nat]
        /\ pos \in [Workers -> 0 .. MaxBlock + 1]
    BY LeaseAssumption DEF Init, Lines
  <1>4. running \in [Workers -> BOOLEAN] /\ timely \in BOOLEAN /\ contested \in BOOLEAN
    BY Zenon DEF Init
  <1>5. TypeOK
    BY <1>1, <1>2, <1>3, <1>4 DEF TypeOK
  <1> QED BY <1>5 DEF Init, LateInv, AtMostOneLateWrite

\* Every step of every process keeps LateInv.
LEMMA LateStep == LateInv /\ [Next]_vars => LateInv'
  <1>1. CASE UNCHANGED vars
    BY <1>1 DEF vars, tables, bounds, history, LateInv, AtMostOneLateWrite, TypeOK
  <1> QED BY <1>1, AcquireInv, LiveInv, OutsideInv DEF Next

\* The variables keep their types: among others the checkpoint is never more
\* than one beyond the chain's last block.
THEOREM TypeCorrect == Spec => []TypeOK
  <1>1. LateInv => TypeOK
    BY DEF LateInv
  <1> QED BY <1>1, LateInit, LateStep, PTL DEF Spec

\* A worker that lost its lease, by expiry, takeover or stop(), writes the
\* checkpoint at most once more before renewLease ends it.
THEOREM LateWritesBounded == Spec => []AtMostOneLateWrite
  <1>1. LateInv => AtMostOneLateWrite
    BY DEF LateInv
  <1> QED BY <1>1, LateInit, LateStep, PTL DEF Spec

-------------------------------------------------------------------------------
(* Mutual exclusion.                                                       *)

\* What disturbs is not undone.
LEMMA UndisturbedBefore ==
    ASSUME TypeOK, [Next]_vars, Undisturbed'
    PROVE  Undisturbed
  <1>1. timely' => timely
    BY DEF Next, Tick, Acquire, Begin, Insert, InsertFails, CheckOwn, RenewOwn, CheckOther,
           TakeOver, Live, Load, Create, Renew, Leave, IndexBlock, Idle, Save, Release, Stop,
           Crash, WriteCheckpoint, history, vars
  <1>2. contested => contested'
    BY DEF Next, Tick, Acquire, Begin, Insert, InsertFails, CheckOwn, RenewOwn, CheckOther,
           TakeOver, Live, Load, Create, Renew, Leave, IndexBlock, Idle, Save, Release, Stop,
           Crash, WriteCheckpoint, history, vars
  <1>3. stops' = stops \/ stops' = stops + 1
    BY DEF Next, Tick, Acquire, Begin, Insert, InsertFails, CheckOwn, RenewOwn, CheckOther,
           TakeOver, Live, Load, Create, Renew, Leave, IndexBlock, Idle, Save, Release, Stop,
           Crash, WriteCheckpoint, bounds, vars
  <1>4. stops \in Nat
    BY LeaseAssumption DEF TypeOK
  <1> QED BY <1>1, <1>2, <1>3, <1>4 DEF Undisturbed

\* A row names a worker or is not there.
LEMMA LeaseRowStep ==
    ASSUME TypeOK, LeaseRowInv, [Next]_vars
    PROVE  LeaseRowInv'
  <1>1. CASE UNCHANGED lease
    BY <1>1 DEF LeaseRowInv
  <1>2. ASSUME NEW w \in Workers, lease' \in {NoLease, OwnLease(w)}
        PROVE  LeaseRowInv'
    BY <1>2 DEF LeaseRowInv, OwnLease
  <1>3. ASSUME NEW w \in Workers, Holds(w), NEW e, lease' = [lease EXCEPT !.expires = e]
        PROVE  LeaseRowInv'
    BY <1>3 DEF LeaseRowInv, Holds, TypeOK
  <1>4. CASE Tick \/ UNCHANGED vars
    BY <1>1, <1>4 DEF Tick, tables, vars
  <1>5. ASSUME NEW w \in Workers, Acquire(w)
        PROVE  LeaseRowInv'
    BY <1>1, <1>2, <1>3, <1>5 DEF Acquire, Begin, Insert, InsertFails, CheckOwn, RenewOwn,
       CheckOther, TakeOver, tables
  <1>6. ASSUME NEW w \in Workers, Live(w) \/ Stop(w) \/ Crash(w)
        PROVE  LeaseRowInv'
    BY <1>1, <1>2, <1>3, <1>6 DEF Live, Load, Create, Renew, Leave, IndexBlock, Idle, Save,
       Release, ReleaseOwn, Stop, Crash, tables
  <1> QED BY <1>4, <1>5, <1>6 DEF Next

\* Only one is past acquireLease.
LEMMA OneSettled ==
    ASSUME HolderInv, NEW v \in Workers, NEW w \in Workers,
           pc[v] \in Settled, pc[w] \in Settled
    PROVE  v = w
  BY DEF HolderInv, Holds

\* While a holder lives nobody is about to take over.
LEMMA NobodyTakesOver ==
    ASSUME HolderInv, lease = NoLease \/ (\E w \in Workers : Holds(w) /\ pc[w] # "gone"),
           NEW v \in Workers
    PROVE  pc[v] # "takeover"
  BY LeaseAssumption DEF HolderInv, Holds, NoLease

\* acquireLease.
LEMMA AcquireHolds ==
    ASSUME TypeOK, LeaseRowInv, HolderInv, ReadInv, NEW w \in Workers, Acquire(w), Undisturbed'
    PROVE  HolderInv' /\ ReadInv'
  <1> USE LeaseAssumption
  <1>0. /\ now \in Nat /\ lease.expires \in Nat /\ at \in [Workers -> Nat]
        /\ pc \in [Workers -> Lines]
    BY DEF TypeOK
  <1>1. CASE Begin(w)
    BY <1>0, <1>1 DEF Begin, Goto, HolderInv, ReadInv, Holds, Settled, Acquiring, tables
  <1>2. CASE Insert(w) /\ lease # NoLease
    BY <1>0, <1>2 DEF Insert, Goto, HolderInv, ReadInv, Holds, Settled, Acquiring
  <1>3. CASE (Insert(w) \/ InsertFails(w)) /\ lease = NoLease
    <2>1. \A v \in Workers : pc[v] # "takeover" /\ pc[v] \notin Settled
      BY <1>3, NobodyTakesOver DEF HolderInv, Holds, NoLease
    <2>2. at[w] <= now /\ now <= at[w] + LeaseDuration
      BY <1>3 DEF HolderInv, Insert, InsertFails, Acquiring
    <2>3. UNCHANGED <<now, checkpoint, at, pos>>
      BY <1>3 DEF Insert, InsertFails
    <2>4. \/ lease' = OwnLease(w) /\ Goto(w, "load")
          \/ lease' \in {NoLease, OwnLease(w)} /\ Goto(w, "own")
      BY <1>3 DEF Insert, InsertFails
    <2>5. lease'.worker = w \/ lease'.worker = NoWorker
      BY <2>4 DEF OwnLease, NoLease
    <2>6. lease'.worker = w => lease'.expires = at[w] + LeaseDuration
      BY <2>4 DEF OwnLease, NoLease
    <2>7. pc'[w] \in {"load", "own"} /\ (pc'[w] = "load" => lease'.worker = w)
          /\ \A v \in Workers : v # w => pc'[v] = pc[v]
      BY <1>0, <2>4 DEF Goto, OwnLease
    <2>8. HolderInv'
      BY <1>0, <2>1, <2>2, <2>3, <2>5, <2>6, <2>7 DEF HolderInv, Holds, Settled, Acquiring
    <2>9. ReadInv'
      BY <2>1, <2>3, <2>7 DEF ReadInv, Settled
    <2> QED BY <2>8, <2>9
  <1>4. CASE CheckOwn(w)
    BY <1>0, <1>4 DEF CheckOwn, Goto, HolderInv, ReadInv, Holds, Settled, Acquiring, tables
  <1>5. CASE RenewOwn(w) /\ Holds(w)
    <2>1. \A v \in Workers : pc[v] # "takeover" /\ (pc[v] \in Settled => v = w)
      BY <1>5, NobodyTakesOver DEF HolderInv, Holds, RenewOwn
    <2>2. lease'.worker = w /\ lease'.expires = now + LeaseDuration /\ pc[w] = "renewOwn"
          /\ Goto(w, "load") /\ UNCHANGED <<now, checkpoint, at, pos>>
      BY <1>5 DEF RenewOwn, Holds, TypeOK
    <2> QED BY <1>0, <2>1, <2>2 DEF Goto, HolderInv, ReadInv, Holds, Settled, Acquiring
  <1>6. CASE RenewOwn(w) /\ ~Holds(w)
    BY <1>0, <1>6 DEF RenewOwn, Goto, HolderInv, ReadInv, Holds, Settled, Acquiring
  <1>7. CASE CheckOther(w)
    <2>1. Expired(w) => lease.worker \in Workers /\ pc[lease.worker] = "gone"
      <3>1. at[w] <= now
        BY <1>7 DEF CheckOther, HolderInv, Acquiring
      <3> QED BY <1>0, <3>1 DEF Expired, LeaseRowInv, HolderInv, Holds
    <2> QED BY <1>0, <1>7, <2>1 DEF CheckOther, Goto, HolderInv, ReadInv, Holds, Settled,
               Acquiring, tables
  <1>8. CASE TakeOver(w)
    <2>1. \A v \in Workers : v # w => pc[v] # "takeover"
      BY <1>8 DEF TakeOver, Undisturbed
    <2>2. \A v \in Workers : pc[v] \notin Settled
      BY <1>8 DEF TakeOver, HolderInv, Holds, Settled
    <2>3. lease'.worker = NoWorker /\ at' = [at EXCEPT ![w] = now] /\ Goto(w, "insert")
          /\ UNCHANGED <<now, checkpoint, pos>>
      BY <1>8 DEF TakeOver, NoLease
    <2> QED BY <1>0, <2>1, <2>2, <2>3 DEF Goto, HolderInv, ReadInv, Holds, Settled, Acquiring
  <1> QED BY <1>1, <1>2, <1>3, <1>4, <1>5, <1>6, <1>7, <1>8 DEF Acquire, Insert, InsertFails,
             RenewOwn

\* The loop of the holder.
LEMMA LiveHolds ==
    ASSUME TypeOK, LeaseRowInv, HolderInv, ReadInv, NEW w \in Workers, Live(w)
    PROVE  HolderInv' /\ ReadInv'
  <1> USE LeaseAssumption
  <1>0. /\ now \in Nat /\ lease.expires \in Nat /\ pc \in [Workers -> Lines]
        /\ pos \in [Workers -> 0 .. MaxBlock + 1]
    BY DEF TypeOK
  <1>1. pc[w] \in Settled
    BY DEF Live, Load, Create, Renew, Leave, IndexBlock, Idle, Save, Release, Settled
  <1>2. Holds(w) /\ \A v \in Workers : pc[v] # "takeover" /\ (pc[v] \in Settled => v = w)
    <2>1. Holds(w) /\ pc[w] # "gone"
      BY <1>1 DEF HolderInv, Settled
    <2> QED BY <1>1, <2>1, NobodyTakesOver, OneSettled
  <1>3. now' = now /\ at' = at
    BY DEF Live, Load, Create, Renew, Leave, IndexBlock, Idle, Save, Release
  <1>4. PICK line \in Settled \cup {"gone"} : pc' = [pc EXCEPT ![w] = line]
    BY <1>2 DEF Live, Load, Create, Renew, Leave, IndexBlock, Idle, Save, Release,
            WriteCheckpoint, Goto, Settled
  <1>5. \/ lease' = lease
        \/ lease'.worker = w /\ lease'.expires = now + LeaseDuration
        \/ lease'.worker = NoWorker /\ line = "gone"
    <2>1. CASE Release(w)
      BY <1>0, <1>2, <1>4, <2>1 DEF Release, ReleaseOwn, NoLease, Goto
    <2>2. CASE Renew(w)
      BY <1>2, <2>2 DEF Renew, Holds, TypeOK
    <2> QED BY <2>1, <2>2 DEF Live, Load, Create, Leave, IndexBlock, Idle, Save, WriteCheckpoint,
               tables
  <1>6. HolderInv'
    <2>1. pc'[w] = line /\ \A v \in Workers : v # w => pc'[v] = pc[v]
      BY <1>0, <1>4
    <2>2. line # "gone" => lease'.worker = w
      BY <1>2, <1>5 DEF Holds
    <2>3. lease'.worker \in {w, NoWorker} /\ (lease'.worker = w => now <= lease'.expires)
      BY <1>0, <1>1, <1>2, <1>5 DEF HolderInv, Holds, Settled
    <2>4. \A v \in Workers : pc'[v] \in Settled => lease'.worker = v
      BY <1>2, <2>1, <2>2 DEF Settled
    <2>5. \A v \in Workers : pc'[v] # "takeover"
      BY <1>2, <2>1 DEF Settled
    <2>6. line \notin {"new", "other"} \cup Acquiring
      BY <1>4 DEF Settled, Acquiring
    <2> QED BY <1>2, <1>3, <2>1, <2>3, <2>4, <2>5, <2>6 DEF HolderInv, Holds
  <1>7. ReadInv'
    <2>1. ASSUME NEW v \in Workers, pc'[v] \in Settled
          PROVE  v = w
      BY <1>0, <1>2, <1>4, <2>1
    <2>2. /\ line = "create" => checkpoint' = -1
          /\ line \in {"top", "body", "save"} => pos'[w] = checkpoint'
      BY <1>0, <1>4 DEF Live, Load, Create, Renew, Leave, IndexBlock, Idle, Save, Release,
              WriteCheckpoint, Goto, ReadInv, tables
    <2>3. pc'[w] = line
      BY <1>0, <1>4
    <2> QED BY <2>1, <2>2, <2>3 DEF ReadInv, Settled
  <1> QED BY <1>6, <1>7

\* Time and crashes.
LEMMA OutsideHolds ==
    ASSUME TypeOK, HolderInv, ReadInv, Undisturbed',
           Tick \/ (\E w \in Workers : Stop(w) \/ Crash(w)) \/ UNCHANGED vars
    PROVE  HolderInv' /\ ReadInv'
  <1> USE LeaseAssumption
  <1>0. /\ now \in Nat /\ lease.expires \in Nat /\ at \in [Workers -> Nat]
        /\ pc \in [Workers -> Lines] /\ stops \in Nat
    BY DEF TypeOK
  <1>1. CASE Tick
    <2>1. \A w \in Workers : InTime(w)
      BY <1>1 DEF Tick, Undisturbed
    <2>2. now' = now + 1 /\ UNCHANGED <<lease, checkpoint, pc, at, pos>>
      BY <1>1 DEF Tick, tables
    <2> QED BY <1>0, <2>1, <2>2 DEF InTime, HolderInv, ReadInv, Holds, Acquiring
  <1>2. ASSUME NEW w \in Workers, Stop(w)
        PROVE  FALSE
    BY <1>0, <1>2 DEF Stop, Undisturbed
  <1>3. ASSUME NEW w \in Workers, Crash(w)
        PROVE  HolderInv' /\ ReadInv'
    BY <1>0, <1>3 DEF Crash, Goto, HolderInv, ReadInv, Holds, Settled, Acquiring, tables
  <1>4. CASE UNCHANGED vars
    BY <1>4 DEF vars, tables, HolderInv, ReadInv, Holds
  <1> QED BY <1>1, <1>2, <1>3, <1>4

\* Every step keeps the holder's place.
LEMMA ExclusionStep == TypeOK /\ ExclusionInv /\ [Next]_vars => ExclusionInv'
  <1> SUFFICES ASSUME TypeOK, ExclusionInv, [Next]_vars
               PROVE  ExclusionInv'
    OBVIOUS
  <1>1. LeaseRowInv'
    BY LeaseRowStep DEF ExclusionInv
  <1>2. ASSUME Undisturbed'
        PROVE  HolderInv' /\ ReadInv'
    <2>1. LeaseRowInv /\ HolderInv /\ ReadInv
      BY <1>2, UndisturbedBefore DEF ExclusionInv
    <2> QED BY <1>2, <2>1, AcquireHolds, LiveHolds, OutsideHolds DEF Next
  <1> QED BY <1>1, <1>2 DEF ExclusionInv

LEMMA ExclusionInit == Init => ExclusionInv
  BY LeaseAssumption DEF Init, ExclusionInv, LeaseRowInv, HolderInv, ReadInv, Holds, NoLease,
     Settled, Acquiring

LEMMA Exclusion == Spec => [](TypeOK /\ ExclusionInv)
  BY TypeCorrect, ExclusionInit, ExclusionStep, PTL DEF Spec

\* One indexer at a time is inside the loop, for any number of processes that
\* crash, start and take over, one at a time ("the lease is the indexer's
\* mutual-exclusion token", chain-facts.ts).
THEOREM IndexersExclude == Spec => []MutualExclusion
  <1>1. TypeOK /\ ExclusionInv => MutualExclusion
    BY OneSettled DEF ExclusionInv, MutualExclusion, OneInside, Inside, Settled
  <1> QED BY <1>1, Exclusion, PTL

\* The holder writes the checkpoint it read, or one beyond it: the overwrite of
\* createOrUpdateCheckpoint never takes it back.
THEOREM CheckpointKeeps == Spec => CheckpointNeverBack
  <1>1. ASSUME TypeOK, ExclusionInv, [Next]_vars, Undisturbed
        PROVE  checkpoint' >= checkpoint
    <2> USE LeaseAssumption
    <2>1. ReadInv /\ checkpoint \in Int
      BY <1>1 DEF ExclusionInv, TypeOK
    <2>2. \/ checkpoint' = checkpoint
          \/ \E w \in Workers : \/ pc[w] = "create" /\ checkpoint' = 0
                                \/ pc[w] = "save" /\ checkpoint' = pos[w] + 1
      BY <1>1 DEF Next, Tick, Acquire, Begin, Insert, InsertFails, CheckOwn, RenewOwn, CheckOther,
           TakeOver, Live, Load, Create, Renew, Leave, IndexBlock, Idle, Save, Release, Stop,
           Crash, WriteCheckpoint, tables, vars
    <2> QED BY <2>1, <2>2 DEF ReadInv
  <1>2. TypeOK /\ ExclusionInv /\ [Next]_vars => (Undisturbed => checkpoint' >= checkpoint)
    BY <1>1
  <1> QED BY <1>2, Exclusion, PTL DEF Spec, CheckpointNeverBack
===============================================================================
