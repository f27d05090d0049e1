-------------------------- MODULE BillingRestartProofs --------------------------
(***************************************************************************)
(* What survives of the service when Redis comes back with the keys of an  *)
(* earlier moment.  TInv does, and so does the agreement of the reaper's   *)
(* index with the records, for every id no reaper had in hand: RestartInv  *)
(* is an invariant of LossySpec, for every value of the constants, however *)
(* often Redis restarts and wherever the tasks are when it does.           *)
(***************************************************************************)
EXTENDS BillingRestart, BillingProofs

\* The keys on disk have the types of those in memory.
DiskTyped ==
  /\ disk.bal \in [Users -> Snapshots \cup {Nil}]
  /\ disk.gen \in [RequestIds -> Records \cup {Nil}]
  /\ disk.topup \subseteq OperationIds
  /\ disk.dirty \subseteq Users
  /\ disk.inflight \subseteq RequestIds
  /\ disk.lock \in [Users -> Tasks \cup {Nil}]

\* On disk, records and index are of one moment.
DiskListed ==
  \A id \in RequestIds \ interrupted :
    id \in disk.inflight <=> disk.gen[id] # Nil /\ disk.gen[id].status = "running"

\* What a reaper decides on an id it has taken since the restart is right when it
\* acts on it.
StillKnows(r) ==
  /\ Where(task[r]) \in ReaperPcs =>
       \A id \in task[r].work \ interrupted : gen[id] # Nil
  /\ (At(r, "forget") /\ task[r].id \notin interrupted) =>
       gen[task[r].id] # Nil /\ gen[task[r].id].status # "running"

RestartInv ==
  /\ TInv
  /\ losses \in Nat
  /\ DiskTyped
  /\ IndexSurvives
  /\ DiskListed
  /\ \A r \in Reapers : StillKnows(r)

-----------------------------------------------------------------------------
(***************************************************************************)
(* A step of the service.                                                  *)
(***************************************************************************)
LEMMA ListedSurvive ==
  IndexSurvives <=> \A id \in RequestIds \ interrupted : Listed(id)
BY DEF IndexSurvives, Listed

LEMMA ServiceKeepsIndex ==
  ASSUME RestartInv, [Next]_vars, UNCHANGED interrupted
  PROVE  IndexSurvives'
<1>1. TInv /\ KeysTyped
  BY TInvParts DEF RestartInv, TypedParts
<1>2. ASSUME NEW id \in RequestIds \ interrupted, Listed(id)
      PROVE  Listed(id)'
  <2>1. CASE UNCHANGED <<gen, inflight>>
    BY <1>2, <2>1 DEF Listed
  <2>2. ASSUME NEW inv \in Invocations, Execute(inv)
        PROVE  Listed(id)'
    BY <1>1, <1>2, <2>2, ScriptIndexes
  <2>3. ASSUME NEW r \in Reapers, Forget(r)
        PROVE  Listed(id)'
    <3>1. /\ At(r, "forget") /\ gen' = gen
          /\ inflight' = inflight \ {task[r].id}
      BY <2>3 DEF Forget, ForgetInflight, Unindex
    <3>2. task[r].id = id => gen[id].status # "running"
      BY <1>2, <3>1 DEF RestartInv, StillKnows
    <3>3. QED
      BY <1>2, <3>1, <3>2 DEF Listed
  <2>4. QED
    BY <1>1, <2>1, <2>2, <2>3, NextMovesRecords DEF RecordsMove
<1>3. QED
  BY <1>2 DEF RestartInv, IndexSurvives, Listed

LEMMA ServiceKeepsHands ==
  ASSUME RestartInv, [Next]_vars, UNCHANGED interrupted, NEW r \in Reapers
  PROVE  StillKnows(r)'
<1> DEFINE t == task[r]
           u == task'[r]
<1>1. TInv /\ KeysTyped /\ Kept
  BY TInvParts, NextMovesRecords, MovedRecordsKept DEF RestartInv, TypedParts
<1>2. /\ Where(t) \in ReaperPcs =>
           /\ t.work \subseteq RequestIds
           /\ \A id \in t.work \ interrupted : gen[id] # Nil
      /\ t.pc = "forget" => t.id \in RequestIds
      /\ (t.pc = "forget" /\ t.id \notin interrupted) =>
           gen[t.id] # Nil /\ gen[t.id].status # "running"
  <2>1. t.pc = "forget" => Where(t) = "forget"
    BY DEF Where, LoaderPcs
  <2>2. QED
    BY <1>1, <2>1, ReaperHas DEF RestartInv, ReaperShape, StillKnows, At
<1>3. inflight \subseteq RequestIds /\ \A id \in inflight \ interrupted : gen[id] # Nil
  BY <1>1 DEF KeysTyped, RestartInv, IndexSurvives
<1>4. u.pc = "forget" => Where(u) \in ReaperPcs
  BY DEF Where, LoaderPcs, ReaperPcs
<1>5. SUFFICES
        /\ Where(u) \in ReaperPcs => \A id \in u.work \ interrupted : gen'[id] # Nil
        /\ (u.pc = "forget" /\ u.id \notin interrupted) =>
             gen'[u.id] # Nil /\ gen'[u.id].status # "running"
  BY DEF StillKnows, At
<1>6. CASE u = t
  BY <1>1, <1>2, <1>4, <1>6 DEF Kept
<1>7. CASE Rests(r)
  BY <1>4, <1>7 DEF Rests
<1>8. CASE Carries(r)
  BY <1>1, <1>2, <1>8 DEF Carries, Kept
<1>9. CASE Scans(r)
  BY <1>1, <1>3, <1>9 DEF Scans, Kept
<1>10. CASE Inspects(r)
  <2>1. Where(t) \in ReaperPcs
    BY <1>1, <1>10, ReaperHas DEF Inspects, ReaperPcs
  <2>2. QED
    BY <1>2, <1>10, <2>1 DEF Inspects
<1>11. QED
  BY <1>1, <1>6, <1>7, <1>8, <1>9, <1>10, OneMoves, ReaperReaps DEF Reaps

LEMMA ServiceOK ==
  ASSUME RestartInv, [Next]_vars, UNCHANGED <<disk, losses, interrupted>>
  PROVE  RestartInv'
<1>1. TInv'
  BY NextKeeps DEF RestartInv, Keeps
<1>2. losses' \in Nat /\ DiskTyped' /\ DiskListed'
  BY DEF RestartInv, DiskTyped, DiskListed
<1>3. QED
  BY <1>1, <1>2, ServiceKeepsIndex, ServiceKeepsHands DEF RestartInv

-----------------------------------------------------------------------------
(***************************************************************************)
(* A step of Redis.                                                        *)
(***************************************************************************)
LEMMA FsyncOK ==
  ASSUME RestartInv, Fsync, UNCHANGED <<provider_calls, interrupted>>
  PROVE  RestartInv'
<1>1. UNCHANGED vars /\ losses' = losses
  BY DEF Fsync, vars
<1>2. TInv'
  BY <1>1, NextKeeps DEF RestartInv, Keeps
<1>3. TypedParts
  BY TInvParts DEF RestartInv
<1>4. /\ disk'.bal = bal /\ disk'.gen = gen /\ disk'.topup = topup
      /\ disk'.dirty = dirty /\ disk'.inflight = inflight /\ disk'.lock = lock
  BY DEF Fsync, Memory
<1>5. DiskTyped'
  BY <1>3, <1>4 DEF TypedParts, KeysTyped, TypedOthers, DiskTyped
<1>6. DiskListed'
  BY <1>4 DEF RestartInv, IndexSurvives, DiskListed
<1>7. IndexSurvives' /\ \A r \in Reapers : StillKnows(r)'
  BY <1>1 DEF RestartInv, IndexSurvives, StillKnows, At, vars, redis
<1>8. QED
  BY <1>1, <1>2, <1>5, <1>6, <1>7 DEF RestartInv

\* Whatever was in hand is known to be out of date.
LEMMA RestartOK ==
  ASSUME RestartInv, RestartUnderReapers
  PROVE  RestartInv'
<1>1. /\ bal' = disk.bal /\ gen' = disk.gen /\ topup' = disk.topup
      /\ dirty' = disk.dirty /\ inflight' = disk.inflight /\ lock' = disk.lock
      /\ losses' = losses + 1
      /\ UNCHANGED <<row, network, task, disk, provider_calls>>
      /\ interrupted' = interrupted \cup UNION {InHand(r) : r \in Reapers}
  BY DEF RestartUnderReapers, Restart
<1>2. TypedParts /\ DiskTyped /\ losses \in Nat
  BY TInvParts DEF RestartInv
<1>3. TInv'
  <2>1. KeysTyped'
    BY <1>1, <1>2 DEF KeysTyped, DiskTyped
  <2>2. TypedOthers'
    BY <1>1, <1>2 DEF TypedParts, TypedOthers, DiskTyped, network
  <2>3. \A a \in Tasks : RoleOK(a, task'[a]) /\ LoaderShape(task'[a])
    BY <1>1, <1>2 DEF TypedParts
  <2>4. TypedParts'
    BY <2>1, <2>2, <2>3 DEF TypedParts
  <2>5. QED
    BY <2>4, TInvParts, PTL
<1>4. losses' \in Nat /\ DiskTyped'
  BY <1>1, <1>2 DEF DiskTyped
<1>5. IndexSurvives' /\ DiskListed'
  BY <1>1 DEF RestartInv, DiskListed, IndexSurvives
<1>6. ASSUME NEW r \in Reapers PROVE StillKnows(r)'
  <2>1. InHand(r) \subseteq interrupted'
    BY <1>1
  <2>2. Where(task[r]) \in ReaperPcs => task[r].work \subseteq interrupted'
    <3>1. Where(task[r]) \in ReaperPcs => ~At(r, "idle") /\ ~At(r, "done")
      BY DEF Where, At, LoaderPcs, ReaperPcs
    <3>2. QED
      BY <2>1, <3>1 DEF InHand
  <2>3. At(r, "forget") => task[r].id \in interrupted'
    BY <2>1 DEF InHand
  <2>4. QED
    BY <1>1, <2>2, <2>3 DEF StillKnows, At
<1>7. QED
  BY <1>3, <1>4, <1>5, <1>6 DEF RestartInv

-----------------------------------------------------------------------------
(***************************************************************************)
(* The theorems.                                                           *)
(***************************************************************************)
LEMMA LossyInitOK == LossyInit => RestartInv
<1> SUFFICES ASSUME LossyInit PROVE RestartInv
  OBVIOUS
<1>1. TInv
  BY InitOK, IInvTyped DEF LossyInit
<1>2. TypedParts
  BY <1>1, TInvParts
<1>3. disk = Memory /\ losses = 0 /\ interrupted = {}
  BY DEF LossyInit, ServerInit
<1>4. gen = [id \in RequestIds |-> Nil] /\ inflight = {}
  BY DEF LossyInit, Init, StoreInit
<1>5. DiskTyped
  BY <1>2, <1>3 DEF TypedParts, KeysTyped, TypedOthers, DiskTyped, Memory
<1>6. IndexSurvives /\ DiskListed
  BY <1>3, <1>4 DEF IndexSurvives, DiskListed, Memory
<1>7. ASSUME NEW r \in Reapers PROVE StillKnows(r)
  <2>1. task[r] = Blank
    BY RolesAssumption DEF LossyInit, Init
  <2>2. Blank.pc = "idle"
    BY DEF Blank
  <2>3. QED
    BY <2>1, <2>2 DEF StillKnows, At, Where, LoaderPcs, ReaperPcs
<1>8. QED
  BY <1>1, <1>3, <1>5, <1>6, <1>7 DEF RestartInv

LEMMA LossyNextOK == RestartInv /\ [LossyNext]_lossyVars => RestartInv'
<1> SUFFICES ASSUME RestartInv, [LossyNext]_lossyVars PROVE RestartInv'
  OBVIOUS
<1>1. CASE UNCHANGED lossyVars
  BY <1>1, ServiceOK DEF lossyVars
<1>2. CASE Next /\ UNCHANGED <<disk, losses, interrupted>>
  BY <1>2, ServiceOK
<1>3. QED
  BY <1>1, <1>2, FsyncOK, RestartOK DEF LossyNext

\* RestartInv holds in every reachable state of the service on a Redis that
\* restarts (Next, with the disk and the process of Redis).
THEOREM RestartInvariant == LossySpec => []RestartInv
BY LossyInitOK, LossyNextOK, PTL DEF LossySpec

\* Records and index come back together, and no late call, retry or reaper parts
\* them for an id no reaper had in hand: a reservation that survives a restart is
\* one the reaper finds (inflight_ids, reap_once).
THEOREM ReservationsStayListed == LossySpec => []IndexSurvives
<1>1. RestartInv => IndexSurvives
  BY DEF RestartInv
<1>2. QED
  BY <1>1, RestartInvariant, PTL

\* However many calls a restart cuts off, none of the records that survived it goes
\* away until the next: one that has ended stays as it ended, and one that is running
\* keeps its owner, token and plan and is written again only to end it (SETTLE and
\* REFUND look at the status before they write, RESERVE at the record).
THEOREM SurvivorsEndThemselvesOnce == LossySpec => SurvivorsEndOnce
<1> DEFINE EndsOnce ==
             losses' = losses =>
               \A id \in RequestIds : gen[id] # Nil =>
                 /\ gen'[id] # Nil
                 /\ gen'[id].user_id = gen[id].user_id
                 /\ gen'[id].reservation_token = gen[id].reservation_token
                 /\ gen'[id].plan = gen[id].plan
                 /\ gen'[id] = gen[id] \/ /\ gen[id].status = "running"
                                          /\ gen'[id].status # "running"
<1>1. RestartInv /\ [LossyNext]_lossyVars => [EndsOnce]_lossyVars
  <2> SUFFICES ASSUME RestartInv, [LossyNext]_lossyVars, losses' = losses
               PROVE  Kept
    BY DEF Kept
  <2>1. CASE UNCHANGED lossyVars
    BY <2>1 DEF lossyVars, vars, redis, Kept
  <2>2. CASE Next
    BY <2>2, NextMovesRecords, MovedRecordsKept DEF RestartInv
  <2>3. CASE Fsync
    BY <2>3 DEF Fsync, redis, Kept
  <2>4. ~Restart
    BY DEF Restart, RestartInv
  <2>5. QED
    BY <2>1, <2>2, <2>3, <2>4 DEF LossyNext, RestartUnderReapers
<1>2. QED
  BY <1>1, RestartInvariant, PTL DEF LossySpec, SurvivorsEndOnce
=============================================================================
