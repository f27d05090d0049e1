----------------------------- MODULE BillingProofs -----------------------------
(***************************************************************************)
(* IInv is an invariant of Spec, and with it TypeOK and NonNegative, for   *)
(* every catalogue, every set of users, requests, commands and bills, any  *)
(* number of tasks of each kind and any bound on faults.  Each step is     *)
(* shown to keep TInv, from TInv alone, and Vouched with it, if it held: what *)
(* TInv says does not depend on Redis keeping its data.                    *)
(***************************************************************************)
EXTENDS BillingInvariant, DebitPolicyProofs

-----------------------------------------------------------------------------
(***************************************************************************)
(* The scripts: what they make of the keys, whoever sends them.            *)
(***************************************************************************)

\* What a balance does in a step: stay, or move to a higher version.
Monotone ==
  \A u \in Users : bal[u] # Nil =>
    /\ bal'[u] # Nil
    /\ bal'[u] = bal[u] \/ bal[u].version < bal'[u].version

KeysTyped ==
  /\ bal \in [Users -> Snapshots \cup {Nil}]
  /\ gen \in [RequestIds -> Records \cup {Nil}]
  /\ topup \subseteq OperationIds
  /\ dirty \subseteq Users
  /\ inflight \subseteq RequestIds

KeysOK ==
  /\ bal \in [Users -> Snapshots \cup {Nil}]
  /\ gen \in [RequestIds -> Records \cup {Nil}]
  /\ topup \subseteq OperationIds
  /\ dirty \subseteq Users
  /\ inflight \subseteq RequestIds
  /\ NonNegative

LEMMA KeysParts == KeysOK <=> KeysTyped /\ NonNegative
BY DEF KeysOK, KeysTyped

LEMMA CreditedTyped ==
  ASSUME NEW balance \in Snapshots, NEW amounts \in DebitPlans
  PROVE  /\ Credited(balance, amounts) \in Snapshots
         /\ Debited(balance, amounts) \in Snapshots
         /\ balance.version < Credited(balance, amounts).version
         /\ balance.version < Debited(balance, amounts).version
BY DEF Credited, Debited, Negated, Snapshots, DebitPlans

LEMMA CreditedSolvent ==
  ASSUME NEW balance \in Snapshots, Solvent(balance), NEW amounts \in DebitPlans
  PROVE  /\ Solvent(Credited(balance, amounts))
         /\ Covers(balance, amounts) => Solvent(Debited(balance, amounts))
BY DEF Credited, Debited, Negated, Snapshots, DebitPlans, Solvent, Covers, Buckets

\* One balance changes: the shape of every script that moves money.
LEMMA MoveBalance ==
  ASSUME KeysTyped, NEW u \in Users, bal[u] # Nil,
         NEW balance \in Snapshots,
         bal[u].version < balance.version,
         bal' = [bal EXCEPT ![u] = balance]
  PROVE  /\ bal' \in [Users -> Snapshots \cup {Nil}]
         /\ NonNegative /\ Solvent(balance) => NonNegative'
         /\ Monotone
<1>1. bal' \in [Users -> Snapshots \cup {Nil}] /\ Monotone
  BY NilAssumption DEF KeysTyped, Monotone
<1>2. ASSUME NonNegative, Solvent(balance) PROVE NonNegative'
  BY <1>2 DEF KeysTyped, NonNegative
<1>3. QED
  BY <1>1, <1>2

\* Nothing changes.
LEMMA KeepTyped ==
  ASSUME KeysTyped, UNCHANGED redis
  PROVE  KeysTyped' /\ Monotone /\ (NonNegative => NonNegative')
BY DEF KeysTyped, redis, NonNegative, Solvent, Monotone

LEMMA KeepKeys ==
  ASSUME KeysOK, UNCHANGED redis
  PROVE  KeysOK' /\ Monotone
<1>1. KeysOK' <=> KeysTyped' /\ NonNegative'
  BY DEF KeysOK, KeysTyped
<1>2. QED
  BY <1>1, KeysParts, KeepTyped

LEMMA ReserveStep ==
  ASSUME KeysTyped, NEW inv \in ReserveInvocations, RESERVE(inv)
  PROVE  /\ KeysTyped' /\ Monotone
         /\ NonNegative /\ Applicable(inv) => NonNegative'
<1>1. CASE ReserveReply(inv) = "OK"
  <2>1. /\ inv.user_id \in Users /\ inv.id \in RequestIds
        /\ inv.plan \in DebitPlans
        /\ NewRecord(inv) \in Records
    BY DEF ReserveInvocations, NewRecord, Records, Statuses
  <2>2. bal[inv.user_id] # Nil /\ bal[inv.user_id].version = inv.version
    BY <1>1 DEF ReserveReply
  <2>3. /\ bal[inv.user_id] \in Snapshots
        /\ NonNegative => Solvent(bal[inv.user_id])
    BY <2>1, <2>2 DEF KeysTyped, NonNegative
  <2>4. Applicable(inv) => Covers(bal[inv.user_id], inv.plan)
    BY <2>2 DEF Applicable
  <2>5. /\ bal' = [bal EXCEPT ![inv.user_id] = Debited(bal[inv.user_id], inv.plan)]
        /\ gen' = [gen EXCEPT ![inv.id] = NewRecord(inv)]
        /\ inflight' = inflight \cup {inv.id}
        /\ dirty' = dirty \cup {inv.user_id}
        /\ topup' = topup
    BY <1>1 DEF RESERVE, Index
  <2> DEFINE less == Debited(bal[inv.user_id], inv.plan)
  <2>6. /\ less \in Snapshots
        /\ bal[inv.user_id].version < less.version
        /\ NonNegative /\ Applicable(inv) => Solvent(less)
    BY <2>1, <2>3, <2>4, CreditedTyped, CreditedSolvent
  <2> HIDE DEF less
  <2>7. /\ bal' \in [Users -> Snapshots \cup {Nil}]
        /\ NonNegative /\ Solvent(less) => NonNegative'
        /\ Monotone
    BY <2>1, <2>2, <2>5, <2>6, MoveBalance DEF less
  <2>8. KeysTyped'
    BY <2>1, <2>5, <2>7 DEF KeysTyped
  <2>9. QED
    BY <2>6, <2>7, <2>8
<1>2. CASE ReserveReply(inv) # "OK"
  BY <1>2, KeepTyped DEF RESERVE
<1>3. QED
  BY <1>1, <1>2

LEMMA SettleStep ==
  ASSUME KeysTyped, NEW inv \in SettleInvocations, SETTLE(inv)
  PROVE  /\ KeysTyped' /\ Monotone
         /\ NonNegative => NonNegative'
<1>1. CASE SettleReply(inv) = "OK"
  <2>1. /\ inv.user_id \in Users /\ inv.id \in RequestIds
        /\ inv.refund \in DebitPlans
        /\ inv.billed_cost_usd \in Nat
        /\ total_usd(inv.refund) \in Nat
    BY DEF SettleInvocations, total_usd, DebitPlans
  <2>2. gen[inv.id] # Nil /\ (HasRefund(inv) => bal[inv.user_id] # Nil)
    <3>1. gen[inv.id] # Nil
      BY <1>1, Zenon DEF SettleReply
    <3>2. gen[inv.id].status \in Statuses
      BY <2>1, <3>1 DEF KeysTyped, Records
    <3>3. gen[inv.id].status = "running"
      <4>1. gen[inv.id].status # "done"
        BY <1>1, <3>1, SMT DEF SettleReply
      <4>2. gen[inv.id].status # "failed"
        BY <1>1, <3>1, SMT DEF SettleReply
      <4>3. QED
        BY <3>2, <4>1, <4>2 DEF Statuses
    <3>4. QED
      BY <1>1, <3>1, <3>3, SMT DEF SettleReply
  <2>3. SettledRecord(gen[inv.id], inv) \in Records
    BY <2>1, <2>2 DEF KeysTyped, SettledRecord, Records, Statuses
  <2>4. /\ gen' = [gen EXCEPT ![inv.id] = SettledRecord(gen[inv.id], inv)]
        /\ inflight' = inflight \ {inv.id}
        /\ topup' = topup
    BY <1>1 DEF SETTLE, Unindex
  <2>5. /\ bal' \in [Users -> Snapshots \cup {Nil}]
        /\ NonNegative => NonNegative'
        /\ Monotone
        /\ dirty' \subseteq Users
    <3>1. CASE HasRefund(inv)
      <4>1. /\ bal[inv.user_id] \in Snapshots
            /\ NonNegative => Solvent(bal[inv.user_id])
        BY <2>1, <2>2, <3>1 DEF KeysTyped, NonNegative
      <4>2. /\ bal' = [bal EXCEPT ![inv.user_id] = Credited(bal[inv.user_id], inv.refund)]
            /\ dirty' = dirty \cup {inv.user_id}
        BY <1>1, <3>1 DEF SETTLE
      <4> DEFINE more == Credited(bal[inv.user_id], inv.refund)
      <4>3. /\ more \in Snapshots
            /\ bal[inv.user_id].version < more.version
            /\ NonNegative => Solvent(more)
        BY <2>1, <4>1, CreditedTyped, CreditedSolvent
      <4> HIDE DEF more
      <4>4. /\ bal' \in [Users -> Snapshots \cup {Nil}]
            /\ NonNegative /\ Solvent(more) => NonNegative'
            /\ Monotone
        BY <2>1, <2>2, <3>1, <4>2, <4>3, MoveBalance DEF more
      <4>5. QED
        BY <2>1, <4>2, <4>3, <4>4 DEF KeysTyped
    <3>2. CASE ~HasRefund(inv)
      BY <1>1, <3>2 DEF SETTLE, KeysTyped, NonNegative, Monotone
    <3>3. QED
      BY <3>1, <3>2
  <2>6. KeysTyped'
    BY <2>1, <2>3, <2>4, <2>5 DEF KeysTyped
  <2>7. QED
    BY <2>5, <2>6
<1>2. CASE SettleReply(inv) # "OK"
  BY <1>2, KeepTyped DEF SETTLE
<1>3. QED
  BY <1>1, <1>2

LEMMA RefundStep ==
  ASSUME KeysTyped, NEW inv \in RefundInvocations, REFUND(inv)
  PROVE  /\ KeysTyped' /\ Monotone
         /\ NonNegative => NonNegative'
<1>1. CASE RefundReply(inv) = "OK"
  <2>1. inv.user_id \in Users /\ inv.id \in RequestIds /\ inv.plan \in DebitPlans
    BY DEF RefundInvocations
  <2>2. gen[inv.id] # Nil /\ bal[inv.user_id] # Nil
    BY <1>1 DEF RefundReply
  <2>3. /\ bal[inv.user_id] \in Snapshots
        /\ NonNegative => Solvent(bal[inv.user_id])
        /\ [gen[inv.id] EXCEPT !.status = "failed"] \in Records
    BY <2>1, <2>2 DEF KeysTyped, NonNegative, Records, Statuses
  <2>4. /\ bal' = [bal EXCEPT ![inv.user_id] = Credited(bal[inv.user_id], inv.plan)]
        /\ gen' = [gen EXCEPT ![inv.id].status = "failed"]
        /\ inflight' = inflight \ {inv.id}
        /\ dirty' = dirty \cup {inv.user_id}
        /\ topup' = topup
    BY <1>1 DEF REFUND, Unindex
  <2> DEFINE more == Credited(bal[inv.user_id], inv.plan)
  <2>5. /\ more \in Snapshots
        /\ bal[inv.user_id].version < more.version
        /\ NonNegative => Solvent(more)
    BY <2>1, <2>3, CreditedTyped, CreditedSolvent
  <2> HIDE DEF more
  <2>6. /\ bal' \in [Users -> Snapshots \cup {Nil}]
        /\ NonNegative /\ Solvent(more) => NonNegative'
        /\ Monotone
    BY <2>1, <2>2, <2>4, <2>5, MoveBalance DEF more
  <2>7. KeysTyped'
    BY <2>1, <2>3, <2>4, <2>6 DEF KeysTyped
  <2>8. QED
    BY <2>5, <2>6, <2>7
<1>2. CASE RefundReply(inv) # "OK"
  BY <1>2, KeepTyped DEF REFUND
<1>3. QED
  BY <1>1, <1>2

LEMMA TopUpScriptStep ==
  ASSUME KeysTyped, NEW inv \in TopUpInvocations, TOP_UP(inv)
  PROVE  /\ KeysTyped' /\ Monotone
         /\ NonNegative => NonNegative'
<1>1. CASE TopUpReply(inv) = "OK"
  <2>1. inv.user_id \in Users /\ inv.id \in OperationIds /\ inv.amounts \in DebitPlans
    BY DEF TopUpInvocations
  <2>2. bal[inv.user_id] # Nil
    BY <1>1 DEF TopUpReply
  <2>3. /\ bal[inv.user_id] \in Snapshots
        /\ NonNegative => Solvent(bal[inv.user_id])
    BY <2>1, <2>2 DEF KeysTyped, NonNegative
  <2>4. /\ bal' = [bal EXCEPT ![inv.user_id] = Credited(bal[inv.user_id], inv.amounts)]
        /\ topup' = topup \cup {inv.id}
        /\ dirty' = dirty \cup {inv.user_id}
        /\ gen' = gen /\ inflight' = inflight
    BY <1>1 DEF TOP_UP
  <2> DEFINE more == Credited(bal[inv.user_id], inv.amounts)
  <2>5. /\ more \in Snapshots
        /\ bal[inv.user_id].version < more.version
        /\ NonNegative => Solvent(more)
    BY <2>1, <2>3, CreditedTyped, CreditedSolvent
  <2> HIDE DEF more
  <2>6. /\ bal' \in [Users -> Snapshots \cup {Nil}]
        /\ NonNegative /\ Solvent(more) => NonNegative'
        /\ Monotone
    BY <2>1, <2>2, <2>4, <2>5, MoveBalance DEF more
  <2>7. KeysTyped'
    BY <2>1, <2>4, <2>6 DEF KeysTyped
  <2>8. QED
    BY <2>5, <2>6, <2>7
<1>2. CASE TopUpReply(inv) # "OK"
  BY <1>2, KeepTyped DEF TOP_UP
<1>3. QED
  BY <1>1, <1>2

LEMMA ExecuteTyped ==
  ASSUME KeysTyped, NEW inv \in Invocations, Execute(inv)
  PROVE  /\ KeysTyped' /\ Monotone
         /\ NonNegative /\ (inv.script = "RESERVE" => Applicable(inv))
              => NonNegative'
<1>1. CASE inv \in ReserveInvocations
  <2>1. inv.script = "RESERVE"
    BY <1>1 DEF ReserveInvocations
  <2>2. QED
    BY <1>1, <2>1, ReserveStep DEF Execute
<1>2. CASE inv \in SettleInvocations
  <2>1. inv.script = "SETTLE"
    BY <1>2 DEF SettleInvocations
  <2>2. QED
    BY <1>2, <2>1, SettleStep DEF Execute
<1>3. CASE inv \in RefundInvocations
  <2>1. inv.script = "REFUND"
    BY <1>3 DEF RefundInvocations
  <2>2. QED
    BY <1>3, <2>1, RefundStep DEF Execute
<1>4. CASE inv \in TopUpInvocations
  <2>1. inv.script = "TOP_UP"
    BY <1>4 DEF TopUpInvocations
  <2>2. QED
    BY <1>4, <2>1, TopUpScriptStep DEF Execute
<1>5. QED
  BY <1>1, <1>2, <1>3, <1>4 DEF Invocations

LEMMA ExecuteStep ==
  ASSUME KeysOK, NEW inv \in Invocations, Execute(inv),
         inv.script = "RESERVE" => Applicable(inv)
  PROVE  KeysOK' /\ Monotone
<1>1. KeysOK' <=> KeysTyped' /\ NonNegative'
  BY DEF KeysOK, KeysTyped
<1>2. QED
  BY <1>1, KeysParts, ExecuteTyped

-----------------------------------------------------------------------------
(***************************************************************************)
(* What a script leaves of the records.                                    *)
(***************************************************************************)

\* A record keeps who and what it is for, its plan and its token; all that may
\* happen to it is that it ends, once.
Kept ==
  \A id \in RequestIds : gen[id] # Nil =>
    /\ gen'[id] # Nil
    /\ gen'[id].user_id = gen[id].user_id
    /\ gen'[id].dialog_id = gen[id].dialog_id
    /\ gen'[id].model_name = gen[id].model_name
    /\ gen'[id].plan = gen[id].plan
    /\ gen'[id].reservation_token = gen[id].reservation_token
    /\ gen[id].status # "running" => gen'[id] = gen[id]
    /\ gen'[id] = gen[id] \/ gen'[id].status # "running"

\* A new record is the one a RESERVE writes.
Born(inv) ==
  \A id \in RequestIds : (gen[id] = Nil /\ gen'[id] # Nil) =>
    /\ inv.script = "RESERVE"
    /\ id = inv.id
    /\ gen'[id] = NewRecord(inv)

LEMMA ReserveKeeps ==
  ASSUME KeysTyped, NEW inv \in ReserveInvocations, RESERVE(inv)
  PROVE  Kept /\ Born(inv)
<1>1. inv.id \in RequestIds /\ inv.script = "RESERVE"
  BY DEF ReserveInvocations
<1>2. CASE ReserveReply(inv) = "OK"
  <2>1. gen' = [gen EXCEPT ![inv.id] = NewRecord(inv)]
    BY <1>2 DEF RESERVE
  <2>2. gen[inv.id] = Nil
    BY <1>2, Zenon DEF ReserveReply
  <2>3. QED
    BY <1>1, <2>1, <2>2 DEF Kept, Born, KeysTyped
<1>3. CASE ReserveReply(inv) # "OK"
  BY <1>3 DEF RESERVE, redis, Kept, Born
<1>4. QED
  BY <1>2, <1>3

\* The replies that let a script end a record.
LEMMA EndsRunning ==
  ASSUME KeysTyped, NEW inv, inv.id \in RequestIds
  PROVE  /\ SettleReply(inv) = "OK" =>
              /\ gen[inv.id] # Nil /\ gen[inv.id].status = "running"
              /\ HasRefund(inv) => bal[inv.user_id] # Nil
         /\ RefundReply(inv) = "OK" =>
              /\ gen[inv.id] # Nil /\ gen[inv.id].status = "running"
              /\ bal[inv.user_id] # Nil
<1>1. gen[inv.id] # Nil => gen[inv.id].status \in Statuses
  BY DEF KeysTyped, Records
<1>2. ASSUME SettleReply(inv) = "OK"
      PROVE  /\ gen[inv.id] # Nil /\ gen[inv.id].status = "running"
             /\ HasRefund(inv) => bal[inv.user_id] # Nil
  <2>1. gen[inv.id] # Nil
    BY <1>2, Zenon DEF SettleReply
  <2>2. gen[inv.id].status # "done" /\ gen[inv.id].status # "failed"
    BY <1>2, <2>1, SMT DEF SettleReply
  <2>3. gen[inv.id].status = "running"
    BY <1>1, <2>1, <2>2 DEF Statuses
  <2>4. QED
    BY <1>2, <2>1, <2>3, SMT DEF SettleReply
<1>3. ASSUME RefundReply(inv) = "OK"
      PROVE  /\ gen[inv.id] # Nil /\ gen[inv.id].status = "running"
             /\ bal[inv.user_id] # Nil
  <2>1. gen[inv.id] # Nil
    BY <1>3, Zenon DEF RefundReply
  <2>2. gen[inv.id].status = "running"
    BY <1>3, <2>1, SMT DEF RefundReply
  <2>3. QED
    BY <1>3, <2>1, <2>2, SMT DEF RefundReply
<1>4. QED
  BY <1>2, <1>3

LEMMA SettleKeeps ==
  ASSUME KeysTyped, NEW inv \in SettleInvocations, SETTLE(inv)
  PROVE  Kept /\ Born(inv)
<1>1. inv.id \in RequestIds
  BY DEF SettleInvocations
<1>2. CASE SettleReply(inv) = "OK"
  <2>1. gen' = [gen EXCEPT ![inv.id] = SettledRecord(gen[inv.id], inv)]
    BY <1>2 DEF SETTLE
  <2>2. gen[inv.id] # Nil /\ gen[inv.id].status = "running"
    BY <1>1, <1>2, EndsRunning
  <2>3. gen[inv.id] \in Records
    BY <1>1, <2>2 DEF KeysTyped
  <2>4. /\ SettledRecord(gen[inv.id], inv).user_id = gen[inv.id].user_id
        /\ SettledRecord(gen[inv.id], inv).dialog_id = gen[inv.id].dialog_id
        /\ SettledRecord(gen[inv.id], inv).model_name = gen[inv.id].model_name
        /\ SettledRecord(gen[inv.id], inv).plan = gen[inv.id].plan
        /\ SettledRecord(gen[inv.id], inv).reservation_token
             = gen[inv.id].reservation_token
        /\ SettledRecord(gen[inv.id], inv).status = "done"
    BY <2>3 DEF SettledRecord, Records
  <2>5. Nil \notin Records
    BY NilAssumption
  <2>6. SettledRecord(gen[inv.id], inv) # Nil
    <3>1. inv.billed_cost_usd \in Nat /\ total_usd(inv.refund) \in Nat
      BY DEF SettleInvocations, total_usd, DebitPlans
    <3>2. SettledRecord(gen[inv.id], inv) \in Records
      BY <2>3, <3>1 DEF SettledRecord, Records, Statuses
    <3>3. QED
      BY <2>5, <3>2
  <2>7. QED
    BY <1>1, <2>1, <2>2, <2>4, <2>6 DEF Kept, Born, KeysTyped
<1>3. CASE SettleReply(inv) # "OK"
  BY <1>3 DEF SETTLE, redis, Kept, Born
<1>4. QED
  BY <1>2, <1>3

LEMMA RefundKeeps ==
  ASSUME KeysTyped, NEW inv \in RefundInvocations, REFUND(inv)
  PROVE  Kept /\ Born(inv)
<1>1. inv.id \in RequestIds
  BY DEF RefundInvocations
<1>2. CASE RefundReply(inv) = "OK"
  <2> DEFINE failed == [gen[inv.id] EXCEPT !.status = "failed"]
  <2>1. gen' = [gen EXCEPT ![inv.id] = failed]
    BY <1>2 DEF REFUND
  <2>2. gen[inv.id] # Nil /\ gen[inv.id].status = "running"
    BY <1>1, <1>2, EndsRunning
  <2>3. gen[inv.id] \in Records
    BY <1>1, <2>2 DEF KeysTyped
  <2>4. /\ failed.user_id = gen[inv.id].user_id
        /\ failed.dialog_id = gen[inv.id].dialog_id
        /\ failed.model_name = gen[inv.id].model_name
        /\ failed.plan = gen[inv.id].plan
        /\ failed.reservation_token = gen[inv.id].reservation_token
        /\ failed.status = "failed"
        /\ failed \in Records
    BY <2>3 DEF Records, Statuses
  <2>5. failed # Nil
    BY <2>4, NilAssumption
  <2> HIDE DEF failed
  <2>6. QED
    BY <1>1, <2>1, <2>2, <2>4, <2>5 DEF Kept, Born, KeysTyped
<1>3. CASE RefundReply(inv) # "OK"
  BY <1>3 DEF REFUND, redis, Kept, Born
<1>4. QED
  BY <1>2, <1>3

LEMMA ExecuteKeeps ==
  ASSUME KeysTyped, NEW inv \in Invocations, Execute(inv)
  PROVE  Kept /\ Born(inv)
<1>1. CASE inv \in ReserveInvocations
  <2>1. inv.script = "RESERVE"
    BY <1>1 DEF ReserveInvocations
  <2>2. QED
    BY <1>1, <2>1, ReserveKeeps DEF Execute
<1>2. CASE inv \in SettleInvocations
  <2>1. inv.script = "SETTLE"
    BY <1>2 DEF SettleInvocations
  <2>2. QED
    BY <1>2, <2>1, SettleKeeps DEF Execute
<1>3. CASE inv \in RefundInvocations
  <2>1. inv.script = "REFUND"
    BY <1>3 DEF RefundInvocations
  <2>2. QED
    BY <1>3, <2>1, RefundKeeps DEF Execute
<1>4. CASE inv \in TopUpInvocations
  <2>1. inv.script = "TOP_UP"
    BY <1>4 DEF TopUpInvocations
  <2>2. gen' = gen
    BY <2>1 DEF Execute, TOP_UP, redis
  <2>3. QED
    BY <2>2 DEF Kept, Born
<1>5. QED
  BY <1>1, <1>2, <1>3, <1>4 DEF Invocations

LEMMA NewRecordHas ==
  ASSUME NEW inv
  PROVE  /\ NewRecord(inv).status = "running" /\ NewRecord(inv).user_id = inv.user_id
         /\ NewRecord(inv).dialog_id = inv.dialog_id
         /\ NewRecord(inv).model_name = inv.model_name
         /\ NewRecord(inv).reservation_token = inv.token
BY DEF NewRecord

\* The index is right about an id: the scripts put in it what they start and take
\* out what they end.
Listed(id) == id \in inflight <=> gen[id] # Nil /\ gen[id].status = "running"

LEMMA ScriptIndexes ==
  ASSUME KeysTyped, NEW inv \in Invocations, Execute(inv),
         NEW i \in RequestIds, Listed(i)
  PROVE  Listed(i)'
<1>1. gen \in [RequestIds -> Records \cup {Nil}]
  BY DEF KeysTyped
<1>2. ASSUME UNCHANGED <<gen, inflight>> PROVE Listed(i)'
  BY <1>2 DEF Listed
<1>3. ASSUME NEW id \in RequestIds, NEW r, gen' = [gen EXCEPT ![id] = r],
             \/ r # Nil /\ r.status = "running" /\ inflight' = inflight \cup {id}
             \/ r.status # "running" /\ inflight' = inflight \ {id}
      PROVE  Listed(i)'
  <2>1. gen'[i] = IF i = id THEN r ELSE gen[i]
    BY <1>1, <1>3
  <2>2. QED
    BY <1>3, <2>1 DEF Listed
<1>4. CASE inv \in ReserveInvocations
  <2>1. inv.script = "RESERVE" /\ inv.id \in RequestIds
    BY <1>4 DEF ReserveInvocations
  <2>2. RESERVE(inv)
    BY <2>1 DEF Execute
  <2>3. CASE ReserveReply(inv) = "OK"
    <3>1. /\ gen' = [gen EXCEPT ![inv.id] = NewRecord(inv)]
          /\ inflight' = inflight \cup {inv.id}
      BY <2>2, <2>3 DEF RESERVE, Index
    <3>2. NewRecord(inv) # Nil
      BY <1>4, NilAssumption DEF NewRecord, Records, Statuses, ReserveInvocations
    <3>3. QED
      BY <1>3, <2>1, <3>1, <3>2, NewRecordHas
  <2>4. CASE ReserveReply(inv) # "OK"
    BY <1>2, <2>2, <2>4 DEF RESERVE, redis
  <2>5. QED
    BY <2>3, <2>4
<1>5. CASE inv \in SettleInvocations
  <2>1. inv.script = "SETTLE" /\ inv.id \in RequestIds
    BY <1>5 DEF SettleInvocations
  <2>2. SETTLE(inv)
    BY <2>1 DEF Execute
  <2>3. CASE SettleReply(inv) = "OK"
    <3> DEFINE r == SettledRecord(gen[inv.id], inv)
    <3>1. gen' = [gen EXCEPT ![inv.id] = r] /\ inflight' = inflight \ {inv.id}
      BY <2>2, <2>3 DEF SETTLE, Unindex
    <3>2. gen[inv.id] \in Records
      BY <1>1, <2>1, <2>3, EndsRunning DEF KeysTyped
    <3>3. r.status = "done"
      BY <3>2 DEF SettledRecord, Records
    <3> HIDE DEF r
    <3>4. QED
      BY <1>3, <2>1, <3>1, <3>3
  <2>4. CASE SettleReply(inv) # "OK"
    BY <1>2, <2>2, <2>4 DEF SETTLE, redis
  <2>5. QED
    BY <2>3, <2>4
<1>6. CASE inv \in RefundInvocations
  <2>1. inv.script = "REFUND" /\ inv.id \in RequestIds
    BY <1>6 DEF RefundInvocations
  <2>2. REFUND(inv)
    BY <2>1 DEF Execute
  <2>3. CASE RefundReply(inv) = "OK"
    <3> DEFINE r == [gen[inv.id] EXCEPT !.status = "failed"]
    <3>1. gen' = [gen EXCEPT ![inv.id] = r] /\ inflight' = inflight \ {inv.id}
      BY <2>2, <2>3 DEF REFUND, Unindex
    <3>2. gen[inv.id] \in Records
      BY <1>1, <2>1, <2>3, EndsRunning DEF KeysTyped
    <3>3. r.status = "failed"
      BY <3>2 DEF Records
    <3> HIDE DEF r
    <3>4. QED
      BY <1>3, <2>1, <3>1, <3>3
  <2>4. CASE RefundReply(inv) # "OK"
    BY <1>2, <2>2, <2>4 DEF REFUND, redis
  <2>5. QED
    BY <2>3, <2>4
<1>7. CASE inv \in TopUpInvocations
  <2>1. inv.script = "TOP_UP"
    BY <1>7 DEF TopUpInvocations
  <2>2. QED
    BY <1>2, <2>1 DEF Execute, TOP_UP, redis
<1>8. QED
  BY <1>4, <1>5, <1>6, <1>7 DEF Invocations

-----------------------------------------------------------------------------
(***************************************************************************)
(* The tasks: what each may carry, and that nobody else's step spoils it.  *)
(***************************************************************************)

\* The locals and the shape of one task, by its role.
RoleOK(a, t) ==
  /\ a \in Calls   => t \in TaskRecords(CallPcs, Requests) /\ CallShape(t)
  /\ a \in TopUps  => t \in TaskRecords({"top_up"}, Commands) /\ TopUpShape(t)
  /\ a \in Readers => t \in TaskRecords({"balance"}, Snapshots) /\ ReaderShape(t)
  /\ a \in Reapers =>
       t \in TaskRecords(ReaperPcs, SUBSET RequestIds) /\ ReaperShape(t)

\* TInv and IInv again, by who is responsible for what.
TypedOthers ==
  /\ row \in [Users -> Balances \cup {Nil}]
  /\ late \subseteq Invocations
  /\ faults \in 0 .. MaxFaults
  /\ DOMAIN task = Tasks
  /\ lock \in [Users -> Tasks \cup {Nil}]
  /\ provider_calls \in [RequestIds -> Nat]

Others == TypedOthers /\ LateSound

TypedParts ==
  /\ KeysTyped
  /\ TypedOthers
  /\ \A a \in Tasks : RoleOK(a, task[a]) /\ LoaderShape(task[a])

LoaderSound(t, balances) == LoaderShape(t) /\ Fresh(t, balances)

Parts ==
  /\ KeysOK
  /\ Others
  /\ \A a \in Tasks : RoleOK(a, task[a]) /\ LoaderSound(task[a], bal)

LEMMA TInvParts == TInv <=> TypedParts
<1>1. ASSUME TInv PROVE TypedParts
  <2>1. KeysTyped /\ TypedOthers
    BY <1>1 DEF TInv, TypeOK, StoreTypeOK, TaskTypeOK, KeysTyped, TypedOthers
  <2>2. \A a \in Tasks : RoleOK(a, task[a]) /\ LoaderShape(task[a])
    BY <1>1 DEF TInv, TypeOK, TaskTypeOK, Shape, RoleOK
  <2>3. QED
    BY <2>1, <2>2 DEF TypedParts
<1>2. ASSUME TypedParts PROVE TInv
  <2>1. StoreTypeOK /\ \A u \in Users : row[u] # Nil => row[u] \in Balances
    BY <1>2 DEF TypedParts, KeysTyped, TypedOthers, StoreTypeOK, Balances, Snapshots
  <2>2. TaskTypeOK /\ Shape
    BY <1>2, RolesAssumption DEF TypedParts, TypedOthers, RoleOK, TaskTypeOK, Shape
  <2>3. QED
    BY <1>2, <2>1, <2>2 DEF TypedParts, TypedOthers, TInv, TypeOK
<1>3. QED
  BY <1>1, <1>2

LEMMA IInvParts == IInv <=> Parts
BY TInvParts, KeysParts DEF IInv, Vouched, TypedParts, Parts, Others, LoaderSound

\* What a step shows of the keys, and of the record t its task has after it; and
\* what comes of that.
KeysMove ==
  /\ KeysTyped' /\ Monotone
  /\ Vouched => NonNegative'

Sound(t, balances) == LoaderShape(t) /\ (Vouched => Fresh(t, balances))

Sendable(inv) == Vouched /\ inv.script = "RESERVE" => Applicable(inv)

Keeps == TInv' /\ Monotone /\ (Vouched => Vouched')

LEMMA TasksSound ==
  ASSUME TInv, NEW a \in Tasks
  PROVE  Sound(task[a], bal)
BY DEF TInv, Vouched, Sound

LEMMA KeysKeep ==
  ASSUME KeysTyped, UNCHANGED redis
  PROVE  KeysMove
BY KeepTyped DEF KeysMove, Vouched

LEMMA KeysExecute ==
  ASSUME KeysTyped, NEW inv \in Invocations, Sendable(inv), Execute(inv)
  PROVE  KeysMove
BY ExecuteTyped DEF KeysMove, Vouched, Sendable

\* The fields every role's record has.
LEMMA Locals ==
  ASSUME NEW a \in Tasks, NEW t, RoleOK(a, t)
  PROVE  /\ t.snap \in Snapshots \cup {Nil}
         /\ t.attempt \in 0 .. RESERVE_MAX_ATTEMPTS
         /\ t.tries \in 0 .. RETRY_ATTEMPTS
         /\ t.plan \in DebitPlans /\ t.refund \in DebitPlans
         /\ t.charged \in Nat
BY RolesAssumption DEF RoleOK, TaskRecords

\* A balance that only moves up leaves older snapshots older.
LEMMA StaySound ==
  ASSUME KeysTyped, KeysTyped', Monotone, NEW t, t.snap \in Snapshots \cup {Nil},
         LoaderShape(t), Fresh(t, bal)
  PROVE  Fresh(t, bal')
<1>1. ASSUME t.user_id \in Users, t.snap \in Snapshots,
             NotNewer(t.snap, bal[t.user_id])
      PROVE  NotNewer(t.snap, bal'[t.user_id])
  <2>1. bal[t.user_id] \in Snapshots
    BY <1>1 DEF NotNewer, KeysTyped
  <2>2. /\ bal'[t.user_id] # Nil
        /\ bal'[t.user_id] = bal[t.user_id]
             \/ bal[t.user_id].version < bal'[t.user_id].version
    BY <1>1 DEF NotNewer, Monotone
  <2>3. CASE bal'[t.user_id] = bal[t.user_id]
    BY <1>1, <2>3 DEF NotNewer
  <2>4. CASE bal[t.user_id].version < bal'[t.user_id].version
    <3>1. bal'[t.user_id] \in Snapshots
      BY <1>1, <2>2 DEF KeysTyped
    <3>2. /\ t.snap.version \in Int /\ bal[t.user_id].version \in Int
          /\ bal'[t.user_id].version \in Int
      BY <1>1, <2>1, <3>1 DEF Snapshots
    <3>3. t.snap.version <= bal[t.user_id].version
      BY <1>1 DEF NotNewer
    <3>4. QED
      BY <2>2, <2>4, <3>2, <3>3 DEF NotNewer
  <2>5. QED
    BY <2>2, <2>3, <2>4
<1>2. QED
  BY <1>1 DEF LoaderShape, Fresh

\* A RESERVE that could be applied still can, or will be refused.
LEMMA StayApplicable ==
  ASSUME KeysTyped, KeysTyped', Monotone,
         NEW inv \in ReserveInvocations, Applicable(inv)
  PROVE  Applicable(inv)'
<1> DEFINE u == inv.user_id
<1>1. u \in Users /\ inv.version \in Int
  BY DEF ReserveInvocations
<1>2. /\ bal[u] # Nil /\ bal'[u] # Nil
      /\ bal'[u] = bal[u] \/ bal[u].version < bal'[u].version
  BY <1>1 DEF Applicable, Monotone
<1>3. bal[u].version \in Int /\ bal'[u].version \in Int
  BY <1>1, <1>2 DEF KeysTyped, Snapshots
<1>4. CASE bal'[u] = bal[u]
  BY <1>4 DEF Applicable
<1>5. CASE bal[u].version < bal'[u].version
  BY <1>2, <1>3, <1>5, <1>1 DEF Applicable
<1>6. QED
  BY <1>2, <1>4, <1>5

LEMMA InvocationScripts ==
  ASSUME NEW inv \in Invocations
  PROVE  inv.script = "RESERVE" => inv \in ReserveInvocations
BY DEF Invocations, ReserveInvocations, SettleInvocations, RefundInvocations,
       TopUpInvocations

\* The step of one task, in general.
LEMMA TaskStep ==
  ASSUME TInv, NEW a \in Tasks, NEW t, Set(a, t), KeysMove,
         RoleOK(a, t), Sound(t, bal'),
         UNCHANGED row,
         faults' \in 0 .. MaxFaults,
         NEW sent \in SUBSET Invocations, late' = late \cup sent,
         \A inv \in sent : Vouched /\ inv.script = "RESERVE" => Applicable(inv)',
         lock' \in [Users -> Tasks \cup {Nil}],
         provider_calls' \in [RequestIds -> Nat]
  PROVE  Keeps
<1>1. TypedParts
  BY TInvParts
<1>2. KeysTyped /\ KeysTyped' /\ Monotone
  BY <1>1 DEF TypedParts, KeysMove
<1>3. TypedOthers'
  BY <1>1 DEF TypedParts, TypedOthers, Set
<1>4. \A b \in Tasks : task'[b] = IF b = a THEN t ELSE task[b]
  BY <1>1 DEF Set, TypedParts, TypedOthers
<1>5. \A b \in Tasks : RoleOK(b, task'[b]) /\ LoaderShape(task'[b])
  <2>1. TAKE b \in Tasks
  <2>2. CASE b = a
    BY <1>4, <2>2 DEF Sound
  <2>3. CASE b # a
    BY <1>1, <1>4, <2>3 DEF TypedParts
  <2>4. QED
    BY <2>2, <2>3
<1>6. TInv'
  <2>1. \A b \in Tasks : RoleOK(b, task[b])' /\ LoaderShape(task[b])'
    BY <1>5
    DEF RoleOK, LoaderShape, CallShape, TopUpShape, ReaderShape, ReaperShape
  <2>2. TypedParts'
    BY <1>2, <1>3, <2>1 DEF TypedParts
  <2>3. QED
    BY <2>2, TInvParts, PTL
<1>7. ASSUME Vouched PROVE Vouched'
  <2>1. NonNegative'
    BY <1>7 DEF KeysMove
  <2>2. LateSound'
    <3>1. SUFFICES ASSUME NEW inv \in late', inv.script = "RESERVE"
                   PROVE  Applicable(inv)'
      BY DEF LateSound
    <3>2. CASE inv \in sent
      BY <1>7, <3>1, <3>2
    <3>3. CASE inv \in late
      <4>1. inv \in ReserveInvocations
        BY <1>1, <3>1, <3>3, InvocationScripts DEF TypedParts, TypedOthers
      <4>2. Applicable(inv)
        BY <1>7, <3>1, <3>3 DEF Vouched, LateSound
      <4>3. QED
        BY <1>2, <4>1, <4>2, StayApplicable
    <3>4. QED
      BY <3>2, <3>3
  <2>3. \A b \in Tasks : Fresh(task'[b], bal')
    <3>1. TAKE b \in Tasks
    <3>2. CASE b = a
      BY <1>4, <1>7, <3>2 DEF Sound
    <3>3. CASE b # a
      <4>1. RoleOK(b, task[b]) /\ LoaderShape(task[b]) /\ Fresh(task[b], bal)
        BY <1>1, <1>7 DEF TypedParts, Vouched
      <4>2. Fresh(task[b], bal')
        BY <1>2, <4>1, Locals, StaySound
      <4>3. QED
        BY <1>4, <3>3, <4>2
    <3>4. QED
      BY <3>2, <3>3
  <2>4. QED
    BY <2>1, <2>2, <2>3 DEF Vouched, Fresh
<1>8. QED
  BY <1>2, <1>6, <1>7 DEF Keeps

\* It touches its own record only.
LEMMA QuietStep ==
  ASSUME TInv, NEW a \in Tasks, NEW t, Set(a, t),
         RoleOK(a, t), Sound(t, bal),
         UNCHANGED <<redis, row, network, lock, provider_calls>>
  PROVE  Keeps
<1>1. TypedParts
  BY TInvParts
<1>2. KeysMove
  BY <1>1, KeysKeep DEF TypedParts
<1>3. /\ Sound(t, bal')
      /\ lock' \in [Users -> Tasks \cup {Nil}]
      /\ provider_calls' \in [RequestIds -> Nat]
      /\ faults' \in 0 .. MaxFaults
      /\ late' = late \cup {}
      /\ row' = row
  BY <1>1 DEF TypedParts, TypedOthers, redis, network
<1>4. {} \in SUBSET Invocations /\ \A inv \in {} : FALSE
  OBVIOUS
<1>5. QED
  BY <1>2, <1>3, <1>4, TaskStep

\* A task with no snapshot, outside ensure_loaded, claims nothing of a balance.
Carefree(t) == t.pc \notin LoaderPcs /\ t.snap = Nil

LEMMA CarefreeSound ==
  ASSUME NEW t, Carefree(t), NEW balances
  PROVE  Sound(t, balances)
BY DEF Carefree, Sound, LoaderShape, Fresh, LoaderPcs

\* It ran a script and has its reply.
LEMMA ScriptStep ==
  ASSUME TInv, NEW a \in Tasks, NEW t, Set(a, t),
         NEW inv \in Invocations, Sendable(inv),
         Execute(inv),
         RoleOK(a, t), Carefree(t),
         UNCHANGED <<row, network, lock>>,
         provider_calls' \in [RequestIds -> Nat]
  PROVE  Keeps
<1>1. TypedParts
  BY TInvParts
<1>2. KeysMove
  BY <1>1, KeysExecute DEF TypedParts
<1>3. /\ Sound(t, bal')
      /\ lock' \in [Users -> Tasks \cup {Nil}]
      /\ faults' \in 0 .. MaxFaults
      /\ late' = late \cup {}
      /\ row' = row
  BY <1>1, CarefreeSound DEF TypedParts, TypedOthers, network
<1>4. {} \in SUBSET Invocations /\ \A i \in {} : FALSE
  OBVIOUS
<1>5. QED
  BY <1>2, <1>3, <1>4, TaskStep

LEMMA BlankTyped ==
  ASSUME NEW pcs, NEW works
  PROVE  Blank \in TaskRecords(pcs, works)
<1>1. NoAmounts \in DebitPlans
  BY DEF NoAmounts, DebitPlans
<1>2. 0 \in 0 .. RESERVE_MAX_ATTEMPTS /\ 0 \in 0 .. RETRY_ATTEMPTS /\ 0 \in Nat
  BY AttemptsAssumption
<1>3. QED
  BY <1>1, <1>2 DEF Blank, TaskRecords

LEMMA EndedOK ==
  ASSUME NEW a \in Tasks, NEW t, RoleOK(a, t), NEW outcome \in Outcomes \cup {Nil}
  PROVE  RoleOK(a, Ended(t, outcome)) /\ Carefree(Ended(t, outcome))
<1> DEFINE u == Ended(t, outcome)
<1>1. ASSUME NEW pcs, NEW works, t.work \in works \cup {Nil}
      PROVE  u \in TaskRecords(pcs, works)
  BY <1>1, BlankTyped DEF Ended, TaskRecords
<1>2. u.pc = "done" /\ u.snap = Nil
  BY DEF Ended, Blank
<1> HIDE DEF u
<1>3. Where(u) = "done" /\ Carefree(u)
  BY <1>2 DEF Where, LoaderPcs, Carefree
<1>4. CallShape(u) /\ TopUpShape(u) /\ ReaderShape(u) /\ ReaperShape(u)
  BY <1>2, <1>3 DEF CallShape, TopUpShape, ReaderShape, ReaperShape, CallPcs,
                    ReaperPcs, LoaderPcs
<1>5. RoleOK(a, u)
  <2>1. /\ a \in Calls => t.work \in Requests \cup {Nil}
        /\ a \in TopUps => t.work \in Commands \cup {Nil}
        /\ a \in Readers => t.work \in Snapshots \cup {Nil}
        /\ a \in Reapers => t.work \in (SUBSET RequestIds) \cup {Nil}
    BY DEF RoleOK, TaskRecords
  <2>2. QED
    BY <2>1, <1>1, <1>4 DEF RoleOK
<1>6. QED
  BY <1>3, <1>5 DEF u

\* It raises.
LEMMA EndStep ==
  ASSUME TInv, NEW a \in Tasks, NEW outcome \in Outcomes \cup {Nil},
         Set(a, Ended(task[a], outcome)),
         UNCHANGED <<redis, row, network, lock, provider_calls>>
  PROVE  Keeps
<1>1. RoleOK(a, task[a])
  BY TInvParts DEF TypedParts
<1>2. QED
  BY <1>1, EndedOK, CarefreeSound, QuietStep

LEMMA GiveUpStep ==
  ASSUME TInv, NEW a \in Tasks, GiveUp(a), UNCHANGED provider_calls
  PROVE  Keeps
<1>1. Raised("BalanceContention") \in Outcomes \cup {Nil}
  BY DEF Raised, Outcomes, OutcomeKinds
<1>2. QED
  BY <1>1, EndStep DEF GiveUp

\* The connection broke under a script that may still be applied.
LEMMA LoseReplyStep ==
  ASSUME TInv, NEW a \in Tasks, NEW inv \in Invocations,
         Sendable(inv),
         task[a].pc \notin LoaderPcs,
         LoseReply(a, inv), UNCHANGED provider_calls
  PROVE  Keeps
<1> DEFINE t == IF task[a].tries + 1 < RETRY_ATTEMPTS
                  THEN [task[a] EXCEPT !.tries = @ + 1]
                  ELSE Ended(task[a], Raised("RedisError"))
<1>1. TypedParts
  BY TInvParts
<1>2. RoleOK(a, task[a]) /\ Sound(task[a], bal)
  BY <1>1, TasksSound DEF TypedParts
<1>3. RoleOK(a, t) /\ Sound(t, bal)
  <2>1. CASE task[a].tries + 1 < RETRY_ATTEMPTS
    <3> DEFINE u == [task[a] EXCEPT !.tries = @ + 1]
    <3>1. task[a].tries + 1 \in 0 .. RETRY_ATTEMPTS
      BY <1>2, <2>1, Locals, AttemptsAssumption
    <3>2. ASSUME NEW pcs, NEW works, task[a] \in TaskRecords(pcs, works)
          PROVE  /\ u \in TaskRecords(pcs, works)
                 /\ u.pc = task[a].pc /\ u.ret = task[a].ret
                 /\ u.work = task[a].work /\ u.user_id = task[a].user_id
                 /\ u.id = task[a].id /\ u.snap = task[a].snap
                 /\ u.auth = task[a].auth /\ u.plan = task[a].plan
                 /\ u.attempt = task[a].attempt
      BY <3>1, <3>2 DEF TaskRecords
    <3> HIDE DEF u
    <3>3. RoleOK(a, u)
      BY <1>2, <3>2 DEF RoleOK, CallShape, TopUpShape, ReaderShape, ReaperShape, Where
    <3>4. Sound(u, bal)
      BY <1>2, <3>2, RolesAssumption DEF RoleOK, Sound, LoaderShape, Fresh
    <3>5. QED
      BY <2>1, <3>3, <3>4 DEF u
  <2>2. CASE ~(task[a].tries + 1 < RETRY_ATTEMPTS)
    <3>1. Raised("RedisError") \in Outcomes \cup {Nil}
      BY DEF Raised, Outcomes, OutcomeKinds
    <3>2. QED
      BY <1>2, <2>2, <3>1, EndedOK, CarefreeSound
  <2>3. QED
    BY <2>1, <2>2
<1>4. Set(a, t)
  BY DEF LoseReply
<1> HIDE DEF t
<1>5. KeysMove
  BY <1>1, KeysKeep DEF TypedParts, LoseReply, SendAndLose
<1>6. /\ Sound(t, bal')
      /\ lock' \in [Users -> Tasks \cup {Nil}]
      /\ provider_calls' \in [RequestIds -> Nat]
      /\ faults' \in 0 .. MaxFaults
      /\ late' = late \cup {inv} /\ {inv} \in SUBSET Invocations
      /\ row' = row
  BY <1>1, <1>3, MaxFaultsAssumption
  DEF TypedParts, TypedOthers, redis, LoseReply, SendAndLose
<1>7. Vouched /\ inv.script = "RESERVE" => Applicable(inv)'
  BY DEF LoseReply, SendAndLose, redis, Sendable, Applicable
<1>8. QED
  BY <1>3, <1>4, <1>5, <1>6, <1>7, TaskStep

LEMMA AbandonStep ==
  ASSUME TInv, NEW a \in Tasks, NEW sent \in SUBSET Invocations,
         \A inv \in sent : Sendable(inv),
         Abandon(a, sent), UNCHANGED provider_calls
  PROVE  Keeps
<1> DEFINE t == Ended(task[a], Raised("aborted"))
<1>1. TypedParts
  BY TInvParts
<1>2. Raised("aborted") \in Outcomes \cup {Nil}
  BY DEF Raised, Outcomes, OutcomeKinds
<1>3. RoleOK(a, t) /\ Sound(t, bal')
  BY <1>1, <1>2, EndedOK, CarefreeSound DEF TypedParts
<1>4. Set(a, t)
  BY DEF Abandon
<1> HIDE DEF t
<1>5. KeysMove
  BY <1>1, KeysKeep DEF TypedParts, Abandon
<1>6. /\ lock' \in [Users -> Tasks \cup {Nil}]
      /\ provider_calls' \in [RequestIds -> Nat]
      /\ faults' \in 0 .. MaxFaults
      /\ late' = late \cup sent
      /\ row' = row
  BY <1>1, MaxFaultsAssumption DEF TypedParts, TypedOthers, Abandon
<1>7. \A inv \in sent : Vouched /\ inv.script = "RESERVE" => Applicable(inv)'
  BY DEF Abandon, redis, Sendable, Applicable
<1>8. QED
  BY <1>3, <1>4, <1>5, <1>6, <1>7, TaskStep

\* ensure_loaded moves a task along, with or without a balance.
Moved(t, pc, snap) == [t EXCEPT !.pc = pc, !.snap = snap]

LEMMA LoadingOK ==
  ASSUME NEW a \in Tasks, NEW t, RoleOK(a, t), t.pc \in LoaderPcs,
         NEW pc \in LoaderPcs \cup {t.ret}, NEW snap \in Snapshots \cup {Nil},
         pc = t.ret => snap # Nil
  PROVE  /\ RoleOK(a, Moved(t, pc, snap))
         /\ Moved(t, pc, snap).pc = pc
         /\ Moved(t, pc, snap).snap = snap
         /\ Moved(t, pc, snap).user_id = t.user_id
<1> DEFINE u == Moved(t, pc, snap)
<1>1. ASSUME NEW pcs, NEW works, t \in TaskRecords(pcs, works)
      PROVE  /\ u \in TaskRecords(pcs, works)
             /\ u.pc = pc /\ u.ret = t.ret /\ u.snap = snap
             /\ u.work = t.work /\ u.user_id = t.user_id /\ u.id = t.id
  <2>1. pc \in pcs \cup LoaderPcs \cup {"idle", "done"}
    BY <1>1 DEF TaskRecords
  <2>2. u \in TaskRecords(pcs, works)
    BY <1>1, <2>1 DEF TaskRecords, Moved
  <2>3. /\ u.pc = pc /\ u.ret = t.ret /\ u.snap = snap
        /\ u.work = t.work /\ u.user_id = t.user_id /\ u.id = t.id
    BY <1>1 DEF TaskRecords, Moved
  <2>4. QED
    BY <2>2, <2>3
<1> HIDE DEF u
<1>2. ASSUME a \in Calls PROVE u \in TaskRecords(CallPcs, Requests) /\ CallShape(u)
  <2>1. t \in TaskRecords(CallPcs, Requests) /\ CallShape(t)
    BY <1>2 DEF RoleOK
  <2>2. t.ret \in {"authorize", "settle", "refund"}
    BY <2>1 DEF CallShape
  <2>3. Where(u) = Where(t)
    BY <1>1, <2>1, <2>2 DEF Where, LoaderPcs
  <2>4. QED
    BY <1>1, <2>1, <2>2, <2>3 DEF CallShape, LoaderPcs
<1>3. ASSUME a \in TopUps PROVE u \in TaskRecords({"top_up"}, Commands) /\ TopUpShape(u)
  <2>1. t \in TaskRecords({"top_up"}, Commands) /\ TopUpShape(t)
    BY <1>3 DEF RoleOK
  <2>2. t.ret = "top_up"
    BY <2>1 DEF TopUpShape
  <2>3. Where(u) = Where(t)
    BY <1>1, <2>1, <2>2 DEF Where, LoaderPcs
  <2>4. QED
    BY <1>1, <2>1, <2>2, <2>3 DEF TopUpShape, LoaderPcs
<1>4. ASSUME a \in Readers PROVE u \in TaskRecords({"balance"}, Snapshots) /\ ReaderShape(u)
  BY <1>1, <1>4 DEF RoleOK, ReaderShape
<1>5. ASSUME a \in Reapers
      PROVE  u \in TaskRecords(ReaperPcs, SUBSET RequestIds) /\ ReaperShape(u)
  <2>1. t \in TaskRecords(ReaperPcs, SUBSET RequestIds) /\ ReaperShape(t)
    BY <1>5 DEF RoleOK
  <2>2. t.ret = "refund"
    BY <2>1 DEF ReaperShape
  <2>3. Where(u) = Where(t)
    BY <1>1, <2>1, <2>2 DEF Where, LoaderPcs
  <2>4. QED
    BY <1>1, <2>1, <2>2, <2>3 DEF ReaperShape, LoaderPcs
<1>6. RoleOK(a, u)
  BY <1>2, <1>3, <1>4, <1>5 DEF RoleOK
<1>7. u.pc = pc /\ u.snap = snap /\ u.user_id = t.user_id
  BY <1>1, RolesAssumption DEF RoleOK
<1>8. QED
  BY <1>6, <1>7 DEF u

\* What a loader knows of its user, and where it goes from there.
LEMMA LoaderTyped ==
  ASSUME TInv, NEW a \in Tasks, task[a].pc \in LoaderPcs
  PROVE  /\ RoleOK(a, task[a]) /\ Sound(task[a], bal)
         /\ task[a].user_id \in Users
         /\ task[a].ret \notin LoaderPcs \cup {"idle", "inspect"}
         /\ task[a].snap \in Snapshots \cup {Nil}
         /\ bal[task[a].user_id] \in Snapshots \cup {Nil}
<1>1. KeysTyped /\ RoleOK(a, task[a]) /\ Sound(task[a], bal)
  BY TInvParts, TasksSound DEF TypedParts
<1>2. task[a].user_id \in Users /\ task[a].snap \in Snapshots \cup {Nil}
  BY <1>1, Locals DEF Sound, LoaderShape, Fresh
<1>3. task[a].ret \notin LoaderPcs \cup {"idle", "inspect"}
  BY <1>1, RolesAssumption
  DEF RoleOK, CallShape, TopUpShape, ReaderShape, ReaperShape, LoaderPcs
<1>4. QED
  BY <1>1, <1>2, <1>3 DEF KeysTyped

\* A snapshot just taken is the balance.
LEMMA FreshSnapshot ==
  ASSUME TInv, NEW a \in Tasks, task[a].pc \in LoaderPcs,
         NEW pc \in LoaderPcs \cup {task[a].ret}, pc # "seed",
         bal[task[a].user_id] # Nil
  PROVE  LET t == Moved(task[a], pc, bal[task[a].user_id])
         IN  RoleOK(a, t) /\ Sound(t, bal)
<1> DEFINE snap == bal[task[a].user_id]
           t == Moved(task[a], pc, snap)
<1>1. /\ RoleOK(a, task[a]) /\ task[a].user_id \in Users
      /\ snap \in Snapshots \cup {Nil}
  BY LoaderTyped
<1>2. /\ RoleOK(a, t)
      /\ t.pc = pc /\ t.snap = snap /\ t.user_id = task[a].user_id
  BY <1>1, LoadingOK
<1>3. snap.version \in Int /\ pc \notin {"idle", "inspect"}
  BY <1>1, LoaderTyped DEF Snapshots, LoaderPcs
<1> HIDE DEF t
<1>4. Sound(t, bal)
  BY <1>1, <1>2, <1>3 DEF Sound, LoaderShape, Fresh, NotNewer
<1>5. QED
  BY <1>2, <1>4 DEF t

\* Going on without looking at a balance.
LEMMA SameSnapshot ==
  ASSUME TInv, NEW a \in Tasks, task[a].pc \in LoaderPcs, task[a].pc # "seed",
         NEW pc \in LoaderPcs \cup {task[a].ret}, pc # "seed",
         pc = task[a].ret => task[a].snap # Nil
  PROVE  LET t == Moved(task[a], pc, task[a].snap)
         IN  /\ RoleOK(a, t) /\ Sound(t, bal)
             /\ t = [task[a] EXCEPT !.pc = pc]
<1> DEFINE t == Moved(task[a], pc, task[a].snap)
<1>1. /\ RoleOK(a, task[a]) /\ Sound(task[a], bal)
      /\ task[a].user_id \in Users
      /\ task[a].snap \in Snapshots \cup {Nil}
  BY LoaderTyped
<1>2. t = [task[a] EXCEPT !.pc = pc]
  <2>1. ASSUME NEW pcs, NEW works, task[a] \in TaskRecords(pcs, works)
        PROVE  t = [task[a] EXCEPT !.pc = pc]
    BY <2>1 DEF TaskRecords, Moved
  <2>2. QED
    BY <1>1, <2>1, RolesAssumption DEF RoleOK
<1>3. /\ RoleOK(a, t)
      /\ t.pc = pc /\ t.snap = task[a].snap /\ t.user_id = task[a].user_id
  <2> HIDE DEF t
  <2>1. CASE task[a].snap # Nil
    BY <1>1, <2>1, LoadingOK DEF t
  <2>2. CASE pc # task[a].ret
    BY <1>1, <2>2, LoadingOK DEF t
  <2>3. QED
    BY <2>1, <2>2
<1> HIDE DEF t
<1>4. pc \notin {"idle", "inspect"}
  BY LoaderTyped DEF LoaderPcs
<1>5. Sound(t, bal)
  BY <1>1, <1>3, <1>4 DEF Sound, LoaderShape, Fresh
<1>6. QED
  BY <1>2, <1>3, <1>5 DEF t

LEMMA LoadStep ==
  ASSUME TInv, NEW a \in Tasks, Load(a), UNCHANGED provider_calls
  PROVE  Keeps
<1>1. task[a].pc \in LoaderPcs /\ task[a].pc # "seed"
  BY DEF Load, At, LoaderPcs
<1>2. CASE bal[task[a].user_id] # Nil
  <2>1. task[a].ret # "seed"
    BY <1>1, LoaderTyped DEF LoaderPcs
  <2>2. QED
    BY <1>1, <1>2, <2>1, FreshSnapshot, QuietStep DEF Load, Moved
<1>3. CASE bal[task[a].user_id] = Nil
  <2>1. "lock" \in LoaderPcs /\ "lock" # task[a].ret
    BY <1>1, LoaderTyped DEF LoaderPcs
  <2>2. QED
    BY <1>1, <1>3, <2>1, SameSnapshot, QuietStep DEF Load, Goto
<1>4. QED
  BY <1>2, <1>3

\* The loader takes or drops the lock.
LEMMA LockStep ==
  ASSUME TInv, NEW a \in Tasks, NEW t, Set(a, t),
         RoleOK(a, t), Sound(t, bal),
         lock' \in [Users -> Tasks \cup {Nil}],
         UNCHANGED <<redis, row, network, provider_calls>>
  PROVE  Keeps
<1>1. TypedParts
  BY TInvParts
<1>2. KeysMove
  BY <1>1, KeysKeep DEF TypedParts
<1>3. /\ Sound(t, bal')
      /\ provider_calls' \in [RequestIds -> Nat]
      /\ faults' \in 0 .. MaxFaults
      /\ late' = late \cup {}
      /\ row' = row
  BY <1>1 DEF TypedParts, TypedOthers, redis, network
<1>4. {} \in SUBSET Invocations /\ \A inv \in {} : FALSE
  OBVIOUS
<1>5. QED
  BY <1>2, <1>3, <1>4, TaskStep

LEMMA TryAcquireStep ==
  ASSUME TInv, NEW a \in Tasks, TryAcquireLoadLock(a), UNCHANGED provider_calls
  PROVE  Keeps
<1>1. /\ task[a].pc \in LoaderPcs /\ task[a].pc # "seed"
      /\ {"recheck", "load"} \subseteq LoaderPcs
      /\ task[a].ret # "recheck" /\ task[a].ret # "load"
  BY LoaderTyped DEF TryAcquireLoadLock, At, LoaderPcs
<1>2. lock' \in [Users -> Tasks \cup {Nil}]
  BY TInvParts DEF TypedParts, TypedOthers, TryAcquireLoadLock
<1>3. CASE lock[task[a].user_id] = Nil
  BY <1>1, <1>2, <1>3, SameSnapshot, LockStep DEF TryAcquireLoadLock, Goto
<1>4. CASE lock[task[a].user_id] # Nil
  BY <1>1, <1>2, <1>4, SameSnapshot, LockStep DEF TryAcquireLoadLock, Goto
<1>5. QED
  BY <1>3, <1>4

LEMMA LoadTimesOutStep ==
  ASSUME TInv, NEW a \in Tasks, LoadTimesOut(a), UNCHANGED provider_calls
  PROVE  Keeps
<1>1. Raised("BalanceContention") \in Outcomes \cup {Nil}
  BY DEF Raised, Outcomes, OutcomeKinds
<1>2. QED
  BY <1>1, EndStep DEF LoadTimesOut

LEMMA RecheckStep ==
  ASSUME TInv, NEW a \in Tasks, Recheck(a), UNCHANGED provider_calls
  PROVE  Keeps
<1>1. /\ task[a].pc \in LoaderPcs /\ task[a].pc # "seed"
      /\ {"release", "select"} \subseteq LoaderPcs
      /\ task[a].ret # "select"
  BY LoaderTyped DEF Recheck, At, LoaderPcs
<1>2. CASE bal[task[a].user_id] # Nil
  BY <1>1, <1>2, FreshSnapshot, QuietStep
  DEF Recheck, LoadedMeanwhile, Moved
<1>3. CASE bal[task[a].user_id] = Nil
  BY <1>1, <1>3, SameSnapshot, QuietStep DEF Recheck, LoadedMeanwhile, Goto
<1>4. QED
  BY <1>2, <1>3

LEMMA LoadFromDbStep ==
  ASSUME TInv, NEW a \in Tasks, LoadFromDb(a), UNCHANGED provider_calls
  PROVE  Keeps
<1> DEFINE snap == StoredBalance(task[a].user_id)
           t == Moved(task[a], "seed", snap)
<1>1. /\ task[a].pc \in LoaderPcs /\ "seed" \in LoaderPcs /\ "seed" # task[a].ret
      /\ RoleOK(a, task[a]) /\ task[a].user_id \in Users
  BY LoaderTyped DEF LoadFromDb, At, LoaderPcs
<1>2. snap \in Balances /\ snap \in Snapshots
  BY <1>1, TInvParts DEF TypedParts, TypedOthers, StoredBalance, Zero, Balances, Snapshots
<1> HIDE DEF snap
<1>3. RoleOK(a, t) /\ t.pc = "seed" /\ t.snap = snap /\ t.user_id = task[a].user_id
  BY <1>1, <1>2, LoadingOK
<1>4. Set(a, t)
  BY DEF LoadFromDb, Moved, snap
<1> HIDE DEF t
<1>5. Sound(t, bal)
  BY <1>1, <1>2, <1>3 DEF Sound, LoaderShape, Fresh
<1>6. QED
  BY <1>3, <1>4, <1>5, QuietStep DEF LoadFromDb

\* A balance from PostgreSQL appears where there was none.
LEMMA SeedStep ==
  ASSUME TInv, NEW a \in Tasks, Seed(a), UNCHANGED provider_calls
  PROVE  Keeps
<1> DEFINE u == task[a].user_id
           t == Moved(task[a], "release", Nil)
<1>1. TypedParts
  BY TInvParts
<1>2. /\ task[a].pc = "seed" /\ task[a].pc \in LoaderPcs /\ "release" \in LoaderPcs
      /\ "release" # task[a].ret
      /\ RoleOK(a, task[a]) /\ u \in Users
      /\ task[a].snap \in Balances
  BY LoaderTyped DEF Seed, At, LoaderPcs, Sound, LoaderShape, Fresh
<1>3. RoleOK(a, t) /\ t.pc = "release" /\ t.snap = Nil /\ t.user_id = u
  BY <1>2, LoadingOK
<1>4. Set(a, t)
  BY DEF Seed, Moved
<1> HIDE DEF t
<1>5. task[a].snap \in Snapshots /\ Solvent(task[a].snap)
  BY <1>2 DEF Balances, Snapshots, Solvent, Buckets
<1>6. KeysMove
  <2>1. CASE bal[u] = Nil
    <3>1. bal' = [bal EXCEPT ![u] = task[a].snap]
      BY <2>1 DEF Seed, SEED_IF_ABSENT
    <3>2. bal' \in [Users -> Snapshots \cup {Nil}] /\ Monotone
      BY <1>1, <1>2, <1>5, <2>1, <3>1 DEF TypedParts, KeysTyped, Monotone
    <3>3. NonNegative => NonNegative'
      BY <1>1, <1>2, <1>5, <3>1 DEF TypedParts, KeysTyped, NonNegative
    <3>4. KeysTyped'
      BY <1>1, <3>2 DEF TypedParts, KeysTyped, Seed, SEED_IF_ABSENT
    <3>5. QED
      BY <3>2, <3>3, <3>4 DEF KeysMove, Vouched
  <2>2. CASE bal[u] # Nil
    <3>1. UNCHANGED redis
      BY <2>2 DEF Seed, SEED_IF_ABSENT, redis
    <3>2. QED
      BY <1>1, <3>1, KeysKeep DEF TypedParts
  <2>3. QED
    BY <2>1, <2>2
<1>7. Sound(t, bal')
  BY <1>2, <1>3 DEF Sound, LoaderShape, Fresh
<1>8. /\ lock' \in [Users -> Tasks \cup {Nil}]
      /\ provider_calls' \in [RequestIds -> Nat]
      /\ faults' \in 0 .. MaxFaults
      /\ late' = late \cup {}
      /\ row' = row
  BY <1>1 DEF TypedParts, TypedOthers, Seed, network
<1>9. {} \in SUBSET Invocations /\ \A inv \in {} : FALSE
  OBVIOUS
<1>10. QED
  BY <1>3, <1>4, <1>6, <1>7, <1>8, <1>9, TaskStep

LEMMA ReleaseStep ==
  ASSUME TInv, NEW a \in Tasks, ReleaseLoadLock(a), UNCHANGED provider_calls
  PROVE  Keeps
<1>1. /\ task[a].pc \in LoaderPcs /\ task[a].pc # "seed"
      /\ "load" \in LoaderPcs
      /\ task[a].ret # "load" /\ task[a].ret # "seed"
  BY LoaderTyped DEF ReleaseLoadLock, At, LoaderPcs
<1>2. lock' \in [Users -> Tasks \cup {Nil}]
  BY TInvParts DEF TypedParts, TypedOthers, ReleaseLoadLock
<1>3. CASE task[a].snap = Nil
  BY <1>1, <1>2, <1>3, SameSnapshot, LockStep DEF ReleaseLoadLock, Goto
<1>4. CASE task[a].snap # Nil
  BY <1>1, <1>2, <1>4, SameSnapshot, LockStep DEF ReleaseLoadLock, Goto
<1>5. QED
  BY <1>3, <1>4

LEMMA EnsureStep ==
  ASSUME TInv, NEW a \in Tasks, Ensure(a), UNCHANGED provider_calls
  PROVE  Keeps
BY LoadStep, TryAcquireStep, LoadTimesOutStep, RecheckStep, LoadFromDbStep,
   SeedStep, ReleaseStep DEF Ensure

-----------------------------------------------------------------------------
(***************************************************************************)
(* Steps that are nobody's.                                                *)
(***************************************************************************)

\* Every task keeps its record.
LEMMA NobodyStep ==
  ASSUME TInv, KeysMove, UNCHANGED <<row, task, provider_calls>>,
         late' \subseteq late, faults' \in 0 .. MaxFaults,
         lock' \in [Users -> Tasks \cup {Nil}]
  PROVE  Keeps
<1>1. TypedParts
  BY TInvParts
<1>2. KeysTyped /\ KeysTyped' /\ Monotone
  BY <1>1 DEF TypedParts, KeysMove
<1>3. TInv'
  <2>1. \A a \in Tasks : RoleOK(a, task[a])' /\ LoaderShape(task[a])'
    BY <1>1 DEF TypedParts, RoleOK, LoaderShape, CallShape, TopUpShape, ReaderShape,
                ReaperShape
  <2>2. TypedOthers'
    BY <1>1 DEF TypedParts, TypedOthers
  <2>3. TypedParts'
    BY <1>2, <2>1, <2>2 DEF TypedParts
  <2>4. QED
    BY <2>3, TInvParts, PTL
<1>4. ASSUME Vouched PROVE Vouched'
  <2>1. NonNegative'
    BY <1>4 DEF KeysMove
  <2>2. LateSound'
    <3>1. SUFFICES ASSUME NEW inv \in late', inv.script = "RESERVE"
                   PROVE  Applicable(inv)'
      BY DEF LateSound
    <3>2. inv \in ReserveInvocations
      BY <1>1, <3>1, InvocationScripts DEF TypedParts, TypedOthers
    <3>3. Applicable(inv)
      BY <1>4, <3>1 DEF Vouched, LateSound
    <3>4. QED
      BY <1>2, <3>2, <3>3, StayApplicable
  <2>3. \A a \in Tasks : Fresh(task[a], bal')
    <3>1. TAKE a \in Tasks
    <3>2. RoleOK(a, task[a]) /\ LoaderShape(task[a]) /\ Fresh(task[a], bal)
      BY <1>1, <1>4 DEF TypedParts, Vouched
    <3>3. QED
      BY <1>2, <3>2, Locals, StaySound
  <2>4. QED
    BY <2>1, <2>2, <2>3 DEF Vouched, Fresh
<1>5. QED
  BY <1>2, <1>3, <1>4 DEF Keeps

LEMMA LandStep ==
  ASSUME TInv, NEW inv \in late, Land(inv), UNCHANGED <<task, lock, provider_calls>>
  PROVE  Keeps
<1>1. TypedParts
  BY TInvParts
<1>2. inv \in Invocations /\ Sendable(inv)
  BY <1>1 DEF TypedParts, TypedOthers, Sendable, Vouched, LateSound
<1>3. KeysMove
  BY <1>1, <1>2, KeysExecute DEF TypedParts, Land
<1>4. /\ late' \subseteq late /\ faults' \in 0 .. MaxFaults
      /\ lock' \in [Users -> Tasks \cup {Nil}]
      /\ UNCHANGED <<row, task, provider_calls>>
  BY <1>1 DEF TypedParts, TypedOthers, Land
<1>5. QED
  BY <1>3, <1>4, NobodyStep

LEMMA LockExpiresStep ==
  ASSUME TInv, NEW u \in Users, LockExpires(u), UNCHANGED provider_calls
  PROVE  Keeps
<1>1. TypedParts
  BY TInvParts
<1>2. KeysMove
  BY <1>1, KeysKeep DEF TypedParts, LockExpires
<1>3. faults' \in 0 .. MaxFaults
  BY <1>1, MaxFaultsAssumption DEF TypedParts, TypedOthers, LockExpires
<1>4. /\ late' \subseteq late
      /\ lock' \in [Users -> Tasks \cup {Nil}]
      /\ UNCHANGED <<row, task, provider_calls>>
  BY <1>1 DEF TypedParts, TypedOthers, LockExpires
<1>5. QED
  BY <1>2, <1>3, <1>4, NobodyStep

-----------------------------------------------------------------------------
(***************************************************************************)
(* apply_top_up and get_balance.                                           *)
(***************************************************************************)

\* A top-up's own step: what it must show of its new record.
LEMMA TopUpTyped ==
  ASSUME TInv, NEW t \in TopUps
  PROVE  /\ t \in Tasks
         /\ task[t] \in TaskRecords({"top_up"}, Commands)
         /\ TopUpShape(task[t]) /\ Sound(task[t], bal)
         /\ \A u : RoleOK(t, u) <=>
                     u \in TaskRecords({"top_up"}, Commands) /\ TopUpShape(u)
BY TInvParts, TasksSound, RolesAssumption DEF TypedParts, RoleOK

\* A command that passed the validation of its amounts credits whole micros.
LEMMA CommandCredits ==
  ASSUME NEW command \in Commands, ~InvalidTopUp(command)
  PROVE  CommandAmounts(command) \in DebitPlans
<1>1. /\ command.paid_usd \in Int /\ command.bonus_usd \in Int
      /\ command.free_requests \in Int
  BY InputsAssumption
<1>2. /\ command.paid_usd >= 0 /\ command.bonus_usd >= 0
      /\ command.free_requests >= 0
  BY <1>1 DEF InvalidTopUp
<1>3. command.paid_usd \div Grain \in Nat /\ command.bonus_usd \div Grain \in Nat
  BY <1>1, <1>2, GrainAssumption
<1>4. QED
  BY <1>1, <1>2, <1>3 DEF CommandAmounts, DebitPlans

LEMMA TopUpInvocationOK ==
  ASSUME TInv, NEW t \in TopUps, At(t, "top_up")
  PROVE  /\ TopUpInvocation(t) \in Invocations
         /\ TopUpInvocation(t).script = "TOP_UP"
         /\ task[t].user_id \in Users
<1>1. TopUpShape(task[t]) /\ Where(task[t]) = "top_up"
  BY TopUpTyped DEF At, Where, LoaderPcs
<1>2. /\ task[t].work \in Commands /\ ~InvalidTopUp(task[t].work)
      /\ task[t].user_id = task[t].work.user_id
      /\ task[t].id = task[t].work.operation_id
  BY <1>1 DEF TopUpShape
<1>3. task[t].user_id \in Users /\ task[t].id \in OperationIds
  BY <1>2, InputsAssumption
<1>4. CommandAmounts(task[t].work) \in DebitPlans
  BY <1>2, CommandCredits
<1>5. QED
  BY <1>3, <1>4 DEF TopUpInvocation, Invocations, TopUpInvocations

LEMMA ApplyTopUpStep ==
  ASSUME TInv, NEW t \in TopUps, NEW command \in Commands,
         ApplyTopUp(t, command), UNCHANGED provider_calls
  PROVE  Keeps
<1> DEFINE asked == [task[t] EXCEPT !.work = command]
           begun == [asked EXCEPT !.pc = "top_up", !.id = command.operation_id,
                                  !.user_id = command.user_id]
<1>1. /\ t \in Tasks /\ task[t] \in TaskRecords({"top_up"}, Commands)
      /\ task[t].pc = "idle" /\ task[t].snap = Nil
  BY TopUpTyped DEF ApplyTopUp, At, Sound, LoaderShape, Fresh
<1>2. command.user_id \in Users /\ command.operation_id \in OperationIds
  BY InputsAssumption
<1>3. asked \in TaskRecords({"top_up"}, Commands) /\ asked.pc = "idle"
  BY <1>1 DEF TaskRecords
<1>4. CASE InvalidTopUp(command)
  <2>1. TopUpShape(asked)
    BY <1>3 DEF TopUpShape, Where, LoaderPcs
  <2>2. Raised("InvalidInput") \in Outcomes \cup {Nil}
    BY DEF Raised, Outcomes, OutcomeKinds
  <2>3. Set(t, Ended(asked, Raised("InvalidInput")))
    BY <1>4 DEF ApplyTopUp
  <2> HIDE DEF asked
  <2>4. RoleOK(t, asked)
    BY <1>3, <2>1, TopUpTyped
  <2>5. QED
    BY <1>1, <2>2, <2>3, <2>4, EndedOK, CarefreeSound, QuietStep DEF ApplyTopUp
<1>5. CASE ~InvalidTopUp(command)
  <2>1. begun \in TaskRecords({"top_up"}, Commands)
    BY <1>1, <1>2 DEF TaskRecords
  <2>2. /\ begun.pc = "top_up" /\ begun.work = command /\ begun.snap = Nil
        /\ begun.user_id = command.user_id /\ begun.id = command.operation_id
    BY <1>1 DEF TaskRecords
  <2>3. Set(t, begun)
    BY <1>5 DEF ApplyTopUp
  <2> HIDE DEF begun
  <2>4. Carefree(begun) /\ TopUpShape(begun)
    BY <1>5, <2>2 DEF Carefree, TopUpShape, Where, LoaderPcs
  <2>5. QED
    BY <1>1, <2>1, <2>3, <2>4, TopUpTyped, CarefreeSound, QuietStep DEF ApplyTopUp
<1>6. QED
  BY <1>4, <1>5

LEMMA TopUpTakesStep ==
  ASSUME TInv, NEW t \in TopUps, TopUp(t), UNCHANGED provider_calls
  PROVE  Keeps
<1> DEFINE inv == TopUpInvocation(t)
<1>1. t \in Tasks /\ RoleOK(t, task[t]) /\ TypedParts
  BY TopUpTyped, TInvParts DEF TypedParts
<1>2. inv \in Invocations /\ inv.script = "TOP_UP"
  BY TopUpInvocationOK DEF TopUp
<1>3. Returned(0) \in Outcomes \cup {Nil}
  BY DEF Returned, Outcomes, OutcomeKinds
<1>4. Execute(inv) /\ Set(t, Ended(task[t], Returned(0)))
  BY DEF TopUp
<1> HIDE DEF inv
<1>5. provider_calls' \in [RequestIds -> Nat] /\ UNCHANGED <<row, network, lock>>
  BY <1>1 DEF TypedParts, TypedOthers, TopUp
<1>6. QED
  BY <1>1, <1>2, <1>3, <1>4, <1>5, EndedOK, ScriptStep DEF Sendable

\* A retry loop starts another round.
LEMMA ReloadTyped ==
  ASSUME NEW pcs, NEW works, NEW t \in TaskRecords(pcs, works), NEW ret \in pcs,
         t.attempt < RESERVE_MAX_ATTEMPTS
  PROVE  /\ Reload(t, ret) \in TaskRecords(pcs, works)
         /\ Reload(t, ret).pc = "load" /\ Reload(t, ret).ret = ret
         /\ Reload(t, ret).work = t.work /\ Reload(t, ret).user_id = t.user_id
         /\ Reload(t, ret).id = t.id /\ Reload(t, ret).snap = t.snap
<1>1. t.attempt + 1 \in 0 .. RESERVE_MAX_ATTEMPTS /\ 0 \in 0 .. RETRY_ATTEMPTS
  BY AttemptsAssumption DEF TaskRecords
<1>2. "load" \in pcs \cup LoaderPcs \cup {"idle", "done"}
  BY DEF LoaderPcs
<1>3. Reload(t, ret) \in TaskRecords(pcs, works)
  BY <1>1, <1>2 DEF Reload, TaskRecords
<1>4. QED
  BY <1>3 DEF Reload, TaskRecords

LEMMA TopUpMissingStep ==
  ASSUME TInv, NEW t \in TopUps, TopUpMissing(t), UNCHANGED provider_calls
  PROVE  Keeps
<1> DEFINE u == Reload(task[t], "top_up")
<1>1. /\ t \in Tasks /\ task[t] \in TaskRecords({"top_up"}, Commands)
      /\ TopUpShape(task[t]) /\ Sound(task[t], bal)
      /\ task[t].pc = "top_up" /\ Where(task[t]) = "top_up"
      /\ task[t].attempt < RESERVE_MAX_ATTEMPTS
  BY TopUpTyped DEF TopUpMissing, At, InRange, Where, LoaderPcs
<1>2. /\ u \in TaskRecords({"top_up"}, Commands)
      /\ u.pc = "load" /\ u.ret = "top_up" /\ u.work = task[t].work
      /\ u.user_id = task[t].user_id /\ u.id = task[t].id /\ u.snap = task[t].snap
  BY <1>1, ReloadTyped
<1>3. Set(t, u)
  BY DEF TopUpMissing
<1>4. task[t].user_id \in Users
  BY TopUpInvocationOK DEF TopUpMissing
<1> HIDE DEF u
<1>5. TopUpShape(u) /\ Sound(u, bal)
  BY <1>1, <1>2, <1>4 DEF TopUpShape, Sound, LoaderShape, Fresh, Where, LoaderPcs
<1>6. QED
  BY <1>1, <1>2, <1>3, <1>5, TopUpTyped, QuietStep DEF TopUpMissing

LEMMA TopUpStepKeeps ==
  ASSUME TInv, NEW t \in TopUps, TopUpStep(t), UNCHANGED provider_calls
  PROVE  Keeps
<1>1. t \in Tasks
  BY TopUpTyped
<1>2. ASSUME NEW command \in Commands, ApplyTopUp(t, command) PROVE Keeps
  BY <1>2, ApplyTopUpStep
<1>3. CASE Ensure(t)
  BY <1>1, <1>3, EnsureStep
<1>4. CASE TopUpProgress(t)
  BY <1>1, <1>4, TopUpTakesStep, TopUpMissingStep, GiveUpStep DEF TopUpProgress
<1>5. CASE TopUpLosesReply(t)
  <2>1. At(t, "top_up") /\ task[t].pc \notin LoaderPcs
    BY <1>5 DEF TopUpLosesReply, At, LoaderPcs
  <2>2. TopUpInvocation(t) \in Invocations /\ TopUpInvocation(t).script # "RESERVE"
    BY <2>1, TopUpInvocationOK
  <2>3. QED
    BY <1>1, <1>5, <2>1, <2>2, LoseReplyStep DEF TopUpLosesReply, Sendable
<1>6. CASE TopUpAbandoned(t)
  <2> DEFINE sent == IF At(t, "top_up") THEN {TopUpInvocation(t)} ELSE {}
  <2>1. sent \in SUBSET Invocations /\ \A inv \in sent : inv.script # "RESERVE"
    BY TopUpInvocationOK
  <2>2. Abandon(t, sent)
    BY <1>6 DEF TopUpAbandoned
  <2> HIDE DEF sent
  <2>3. QED
    BY <1>1, <2>1, <2>2, AbandonStep DEF Sendable
<1>7. QED
  BY <1>2, <1>3, <1>4, <1>5, <1>6 DEF TopUpStep

LEMMA ReaderTyped ==
  ASSUME TInv, NEW t \in Readers
  PROVE  /\ t \in Tasks
         /\ task[t] \in TaskRecords({"balance"}, Snapshots)
         /\ Sound(task[t], bal)
         /\ \A u : RoleOK(t, u) <=>
                     u \in TaskRecords({"balance"}, Snapshots) /\ ReaderShape(u)
BY TInvParts, TasksSound, RolesAssumption DEF TypedParts, RoleOK

LEMMA ReaderStepKeeps ==
  ASSUME TInv, NEW t \in Readers, ReaderStep(t), UNCHANGED provider_calls
  PROVE  Keeps
<1>1. /\ t \in Tasks /\ task[t] \in TaskRecords({"balance"}, Snapshots)
      /\ Sound(task[t], bal)
  BY ReaderTyped
<1>2. ASSUME NEW user \in Users, GetBalance(t, user) PROVE Keeps
  <2> DEFINE u == [task[t] EXCEPT !.pc = "load", !.ret = "balance", !.user_id = user]
  <2>1. "load" \in LoaderPcs
    BY DEF LoaderPcs
  <2>2. u \in TaskRecords({"balance"}, Snapshots)
    BY <1>1, <2>1 DEF TaskRecords
  <2>3. u.pc = "load" /\ u.ret = "balance" /\ u.user_id = user /\ u.snap = Nil
    BY <1>1, <1>2 DEF TaskRecords, GetBalance, At, Sound, LoaderShape, Fresh
  <2>4. Set(t, u)
    BY <1>2 DEF GetBalance
  <2> HIDE DEF u
  <2>5. ReaderShape(u) /\ Sound(u, bal)
    BY <2>3 DEF ReaderShape, Sound, LoaderShape, Fresh
  <2>6. QED
    BY <1>1, <1>2, <2>2, <2>4, <2>5, ReaderTyped, QuietStep DEF GetBalance
<1>3. CASE ReturnBalance(t)
  <2> DEFINE u == [task[t] EXCEPT !.work = task[t].snap]
  <2>1. u \in TaskRecords({"balance"}, Snapshots) /\ u.pc = "balance"
    BY <1>1, <1>3 DEF TaskRecords, ReturnBalance, At
  <2>2. ReaderShape(u)
    BY <2>1 DEF ReaderShape, LoaderPcs
  <2>3. Returned(0) \in Outcomes \cup {Nil}
    BY DEF Returned, Outcomes, OutcomeKinds
  <2>4. Set(t, Ended(u, Returned(0)))
    BY <1>3 DEF ReturnBalance
  <2> HIDE DEF u
  <2>5. RoleOK(t, u)
    BY <2>1, <2>2, ReaderTyped
  <2>6. QED
    BY <1>1, <1>3, <2>3, <2>4, <2>5, EndedOK, CarefreeSound, QuietStep
    DEF ReturnBalance
<1>4. CASE Ensure(t)
  BY <1>1, <1>4, EnsureStep
<1>5. CASE Abandon(t, {})
  <2>1. {} \in SUBSET Invocations /\ \A inv \in {} : FALSE
    OBVIOUS
  <2>2. QED
    BY <1>1, <1>5, <2>1, AbandonStep
<1>6. QED
  BY <1>2, <1>3, <1>4, <1>5 DEF ReaderStep

-----------------------------------------------------------------------------
(***************************************************************************)
(* reap_once.                                                              *)
(***************************************************************************)
ReaperRecords == TaskRecords(ReaperPcs, SUBSET RequestIds)

LEMMA ReaperTyped ==
  ASSUME TInv, NEW r \in Reapers
  PROVE  /\ r \in Tasks /\ RoleOK(r, task[r])
         /\ task[r] \in ReaperRecords
         /\ ReaperShape(task[r]) /\ Sound(task[r], bal)
         /\ KeysTyped
         /\ \A u : RoleOK(r, u) <=> u \in ReaperRecords /\ ReaperShape(u)
BY TInvParts, TasksSound, RolesAssumption DEF TypedParts, RoleOK, ReaperRecords

\* A reaper between two reservations.
LEMMA NextStaleOK ==
  ASSUME TInv, NEW r \in Reapers, task[r].work \in SUBSET RequestIds
  PROVE  RoleOK(r, NextStale(task[r])) /\ Carefree(NextStale(task[r]))
<1> DEFINE next == [Blank EXCEPT !.pc = "inspect", !.work = task[r].work]
<1>1. Blank \in ReaperRecords /\ Blank.pc = "idle" /\ Blank.snap = Nil
  BY BlankTyped DEF ReaperRecords, Blank
<1>2. /\ next \in ReaperRecords
      /\ next.pc = "inspect" /\ next.work = task[r].work /\ next.snap = Nil
  BY BlankTyped DEF ReaperRecords, TaskRecords, ReaperPcs, Blank
<1>3. ReaperShape(Blank) /\ Carefree(Blank)
  BY <1>1 DEF ReaperShape, ReaperPcs, Where, LoaderPcs, Carefree
<1> HIDE DEF next
<1>4. ReaperShape(next) /\ Carefree(next)
  BY <1>2 DEF ReaperShape, ReaperPcs, Where, LoaderPcs, Carefree
<1>5. NextStale(task[r]) = IF task[r].work = {} THEN Blank ELSE next
  BY DEF NextStale, next
<1>6. QED
  BY <1>1, <1>2, <1>3, <1>4, <1>5, ReaperTyped

LEMMA StaleInflightStep ==
  ASSUME TInv, NEW r \in Reapers, NEW batch \in SUBSET inflight,
         StaleInflight(r, batch), UNCHANGED provider_calls
  PROVE  Keeps
<1> DEFINE t == [task[r] EXCEPT !.pc = "inspect", !.work = batch]
<1>1. /\ r \in Tasks /\ task[r] \in ReaperRecords /\ batch \in SUBSET RequestIds
      /\ task[r].snap = Nil
  BY ReaperTyped DEF KeysTyped, StaleInflight, At, Sound, LoaderShape, Fresh
<1>2. /\ t \in ReaperRecords
      /\ t.pc = "inspect" /\ t.work = batch /\ t.snap = Nil
  BY <1>1 DEF ReaperRecords, TaskRecords, ReaperPcs
<1>3. Set(r, t)
  BY DEF StaleInflight
<1> HIDE DEF t
<1>4. ReaperShape(t) /\ Carefree(t)
  BY <1>1, <1>2 DEF ReaperShape, ReaperPcs, Where, LoaderPcs, Carefree
<1>5. QED
  BY <1>1, <1>2, <1>3, <1>4, ReaperTyped, CarefreeSound, QuietStep DEF StaleInflight

LEMMA InspectStaleStep ==
  ASSUME TInv, NEW r \in Reapers, NEW id \in RequestIds,
         InspectStale(r, id), UNCHANGED provider_calls
  PROVE  Keeps
<1> DEFINE rest == [task[r] EXCEPT !.work = @ \ {id}, !.id = id]
           gone == [rest EXCEPT !.pc = "forget"]
           running == [rest EXCEPT !.pc = "refund", !.plan = gen[id].plan,
                                   !.user_id = gen[id].user_id]
<1>1. /\ r \in Tasks /\ task[r] \in ReaperRecords
      /\ task[r].work \in SUBSET RequestIds /\ task[r].snap = Nil
  <2>1. task[r].pc = "inspect"
    BY DEF InspectStale, At
  <2>2. Where(task[r]) \in ReaperPcs
    BY <2>1 DEF Where, LoaderPcs, ReaperPcs
  <2>3. QED
    BY <2>1, <2>2, ReaperTyped DEF ReaperShape, Sound, LoaderShape, Fresh
<1>2. /\ rest \in ReaperRecords
      /\ rest.work \in SUBSET RequestIds /\ rest.id = id /\ rest.snap = Nil
  BY <1>1 DEF ReaperRecords, TaskRecords
<1> HIDE DEF rest
<1>3. CASE gen[id] = Nil \/ gen[id].status # "running"
  <2>1. /\ gone \in ReaperRecords /\ gone.pc = "forget"
        /\ gone.work = rest.work /\ gone.id = id /\ gone.snap = Nil
    BY <1>2 DEF ReaperRecords, TaskRecords, ReaperPcs
  <2>2. Set(r, gone)
    BY <1>3 DEF InspectStale, rest
  <2> HIDE DEF gone
  <2>3. ReaperShape(gone) /\ Carefree(gone)
    BY <1>2, <2>1 DEF ReaperShape, ReaperPcs, Where, LoaderPcs, Carefree
  <2>4. QED
    BY <1>1, <2>1, <2>2, <2>3, ReaperTyped, CarefreeSound, QuietStep DEF InspectStale
<1>4. CASE ~(gen[id] = Nil \/ gen[id].status # "running")
  <2>1. gen[id].plan \in DebitPlans /\ gen[id].user_id \in Users
    BY <1>4, ReaperTyped DEF KeysTyped, Records
  <2>2. running \in ReaperRecords
    <3>1. ASSUME NEW plan \in DebitPlans, NEW user \in Users
          PROVE  [rest EXCEPT !.pc = "refund", !.plan = plan, !.user_id = user]
                   \in ReaperRecords
      <4>1. "refund" \in ReaperPcs
        BY DEF ReaperPcs
      <4>2. [rest EXCEPT !.pc = "refund"] \in ReaperRecords
        BY <1>2, <4>1 DEF ReaperRecords, TaskRecords
      <4>3. QED
        BY <4>2 DEF ReaperRecords, TaskRecords
    <3>2. QED
      BY <2>1, <3>1
  <2>3. /\ running.pc = "refund" /\ running.work = rest.work /\ running.id = id
        /\ running.user_id = gen[id].user_id /\ running.snap = Nil
    BY <1>2 DEF ReaperRecords, TaskRecords
  <2>4. Set(r, running)
    BY <1>4 DEF InspectStale, rest
  <2> HIDE DEF running
  <2>5. ReaperShape(running) /\ Carefree(running)
    BY <1>2, <2>1, <2>3 DEF ReaperShape, ReaperPcs, Where, LoaderPcs, Carefree
  <2>6. QED
    BY <1>1, <2>2, <2>4, <2>5, ReaperTyped, CarefreeSound, QuietStep DEF InspectStale
<1>5. QED
  BY <1>3, <1>4

LEMMA ReaperRefundOK ==
  ASSUME TInv, NEW r \in Reapers, At(r, "refund")
  PROVE  /\ RefundInvocation(r) \in Invocations
         /\ RefundInvocation(r).script = "REFUND"
         /\ task[r].user_id \in Users /\ task[r].id \in RequestIds
         /\ task[r].work \in SUBSET RequestIds
<1>1. ReaperShape(task[r]) /\ Where(task[r]) = "refund" /\ RoleOK(r, task[r]) /\ r \in Tasks
  BY ReaperTyped DEF At, Where, LoaderPcs
<1>2. /\ task[r].user_id \in Users /\ task[r].id \in RequestIds
      /\ task[r].work \in SUBSET RequestIds
  BY <1>1 DEF ReaperShape, ReaperPcs
<1>3. task[r].plan \in DebitPlans
  BY <1>1, Locals
<1>4. QED
  BY <1>2, <1>3 DEF RefundInvocation, Invocations, RefundInvocations

LEMMA ForgetStep ==
  ASSUME TInv, NEW r \in Reapers, Forget(r), UNCHANGED provider_calls
  PROVE  Keeps
<1>1. TypedParts /\ r \in Tasks
  BY TInvParts, ReaperTyped
<1>2. task[r].work \in SUBSET RequestIds
  <2>1. Where(task[r]) \in ReaperPcs
    BY DEF Forget, At, Where, LoaderPcs, ReaperPcs
  <2>2. QED
    BY <2>1, ReaperTyped DEF ReaperShape
<1>3. RoleOK(r, NextStale(task[r])) /\ Carefree(NextStale(task[r]))
  BY <1>2, NextStaleOK
<1>4. KeysMove
  <2>1. UNCHANGED <<bal, gen, topup, dirty>> /\ inflight' \subseteq inflight
    BY DEF Forget, ForgetInflight, Unindex
  <2>2. KeysTyped' /\ Monotone
    BY <1>1, <2>1 DEF TypedParts, KeysTyped, Monotone
  <2>3. NonNegative => NonNegative'
    BY <2>1 DEF NonNegative, Solvent
  <2>4. QED
    BY <2>2, <2>3 DEF KeysMove, Vouched
<1>5. /\ lock' \in [Users -> Tasks \cup {Nil}]
      /\ provider_calls' \in [RequestIds -> Nat]
      /\ faults' \in 0 .. MaxFaults
      /\ late' = late \cup {}
      /\ row' = row
      /\ Set(r, NextStale(task[r]))
  BY <1>1 DEF TypedParts, TypedOthers, Forget, network
<1>6. {} \in SUBSET Invocations /\ \A inv \in {} : FALSE
  OBVIOUS
<1>7. Sound(NextStale(task[r]), bal')
  BY <1>3, CarefreeSound
<1>8. QED
  BY <1>1, <1>3, <1>4, <1>5, <1>6, <1>7, TaskStep

\* refund, whoever asked for it.
LEMMA RefundReturnsStep ==
  ASSUME TInv, NEW a \in Tasks, NEW next, RefundReturns(a, next),
         RefundInvocation(a) \in Invocations,
         RefundInvocation(a).script = "REFUND",
         RoleOK(a, next), Carefree(next), UNCHANGED provider_calls
  PROVE  Keeps
<1> DEFINE inv == RefundInvocation(a)
<1>1. Execute(inv) /\ Set(a, next) /\ inv \in Invocations /\ inv.script = "REFUND"
  BY DEF RefundReturns
<1> HIDE DEF inv
<1>2. provider_calls' \in [RequestIds -> Nat] /\ UNCHANGED <<row, network, lock>>
  BY TInvParts DEF TypedParts, TypedOthers, RefundReturns
<1>3. QED
  BY <1>1, <1>2, ScriptStep DEF Sendable

LEMMA ReaperRefundMissingStep ==
  ASSUME TInv, NEW r \in Reapers, RefundMissing(r), UNCHANGED provider_calls
  PROVE  Keeps
<1> DEFINE t == Reload(task[r], "refund")
<1>1. /\ r \in Tasks /\ task[r] \in ReaperRecords
      /\ Sound(task[r], bal)
      /\ task[r].pc = "refund" /\ task[r].attempt < RESERVE_MAX_ATTEMPTS
      /\ task[r].user_id \in Users /\ task[r].id \in RequestIds
      /\ task[r].work \in SUBSET RequestIds
  BY ReaperTyped, ReaperRefundOK DEF RefundMissing, At, InRange
<1>2. /\ t \in ReaperRecords
      /\ t.pc = "load" /\ t.ret = "refund" /\ t.work = task[r].work
      /\ t.user_id = task[r].user_id /\ t.id = task[r].id /\ t.snap = task[r].snap
  <2>1. "refund" \in ReaperPcs
    BY DEF ReaperPcs
  <2>2. QED
    BY <1>1, <2>1, ReloadTyped DEF ReaperRecords
<1>3. Set(r, t)
  BY DEF RefundMissing
<1> HIDE DEF t
<1>4. ReaperShape(t) /\ Sound(t, bal)
  BY <1>1, <1>2 DEF ReaperShape, Sound, LoaderShape, Fresh, Where, LoaderPcs
<1>5. QED
  BY <1>1, <1>2, <1>3, <1>4, ReaperTyped, QuietStep DEF RefundMissing

LEMMA RestartReaperStep ==
  ASSUME TInv, NEW r \in Reapers, RestartReaper(r), UNCHANGED provider_calls
  PROVE  Keeps
<1>1. Blank \in ReaperRecords /\ Blank.pc = "idle" /\ Blank.snap = Nil
  BY BlankTyped DEF ReaperRecords, Blank
<1>2. ReaperShape(Blank) /\ Carefree(Blank)
  BY <1>1 DEF ReaperShape, ReaperPcs, Where, LoaderPcs, Carefree
<1>3. QED
  BY <1>1, <1>2, ReaperTyped, CarefreeSound, QuietStep DEF RestartReaper

LEMMA ReaperStepKeeps ==
  ASSUME TInv, NEW r \in Reapers, ReaperStep(r), UNCHANGED provider_calls
  PROVE  Keeps
<1>1. r \in Tasks
  BY ReaperTyped
<1>2. ASSUME NEW batch \in SUBSET inflight, StaleInflight(r, batch) PROVE Keeps
  BY <1>2, StaleInflightStep
<1>3. CASE Ensure(r)
  BY <1>1, <1>3, EnsureStep
<1>4. CASE ReaperProgress(r)
  <2>1. ASSUME NEW id \in RequestIds, InspectStale(r, id) PROVE Keeps
    BY <2>1, InspectStaleStep
  <2>2. CASE RefundStale(r)
    <3>1. At(r, "refund")
      BY <2>2 DEF RefundStale, RefundReturns
    <3>2. RoleOK(r, NextStale(task[r])) /\ Carefree(NextStale(task[r]))
      BY <3>1, ReaperRefundOK, NextStaleOK
    <3>3. QED
      BY <1>1, <2>2, <3>1, <3>2, ReaperRefundOK, RefundReturnsStep DEF RefundStale
  <2>3. CASE GiveUp(r)
    BY <1>1, <2>3, GiveUpStep
  <2>4. QED
    BY <1>4, <2>1, <2>2, <2>3, ForgetStep, ReaperRefundMissingStep,
       RestartReaperStep DEF ReaperProgress
<1>5. CASE ReaperLosesReply(r)
  <2>1. At(r, "refund") /\ task[r].pc \notin LoaderPcs
    BY <1>5 DEF ReaperLosesReply, At, LoaderPcs
  <2>2. RefundInvocation(r) \in Invocations /\ RefundInvocation(r).script # "RESERVE"
    BY <2>1, ReaperRefundOK
  <2>3. QED
    BY <1>1, <1>5, <2>1, <2>2, LoseReplyStep DEF ReaperLosesReply, Sendable
<1>6. CASE ReaperAbandoned(r)
  <2> DEFINE sent == IF At(r, "refund") THEN {RefundInvocation(r)} ELSE {}
  <2>1. sent \in SUBSET Invocations /\ \A inv \in sent : inv.script # "RESERVE"
    BY ReaperRefundOK
  <2>2. Abandon(r, sent)
    BY <1>6 DEF ReaperAbandoned
  <2> HIDE DEF sent
  <2>3. QED
    BY <1>1, <2>1, <2>2, AbandonStep DEF Sendable
<1>7. QED
  BY <1>2, <1>3, <1>4, <1>5, <1>6 DEF ReaperStep

-----------------------------------------------------------------------------
(***************************************************************************)
(* execute_generation.                                                     *)
(***************************************************************************)
CallRecords == TaskRecords(CallPcs, Requests)

LEMMA CallTyped ==
  ASSUME TInv, NEW c \in Calls
  PROVE  /\ c \in Tasks /\ RoleOK(c, task[c])
         /\ task[c] \in CallRecords
         /\ CallShape(task[c]) /\ Sound(task[c], bal)
         /\ task[c].snap \in Snapshots \cup {Nil}
         /\ KeysTyped
         /\ \A t : RoleOK(c, t) <=> t \in CallRecords /\ CallShape(t)
BY TInvParts, TasksSound, RolesAssumption, Locals DEF TypedParts, RoleOK, CallRecords

\* A call in its own code knows its request.
LEMMA CallWorks ==
  ASSUME TInv, NEW c \in Calls, task[c].pc \in CallPcs
  PROVE  /\ Where(task[c]) = task[c].pc
         /\ Request(c) \in Requests
         /\ Request(c).model_name \in DOMAIN MODELS
         /\ task[c].user_id = Request(c).user_id /\ task[c].user_id \in Users
         /\ task[c].id = Request(c).client_request_id /\ task[c].id \in RequestIds
         /\ Request(c).dialog_id \in Dialogs
<1>1. Where(task[c]) = task[c].pc /\ CallShape(task[c])
  BY CallTyped DEF Where, CallPcs, LoaderPcs
<1>2. /\ task[c].work \in Requests
      /\ task[c].work.model_name \in DOMAIN MODELS
      /\ task[c].user_id = task[c].work.user_id
      /\ task[c].id = task[c].work.client_request_id
  BY <1>1 DEF CallShape
<1>3. QED
  BY <1>1, <1>2, InputsAssumption DEF Request

\* What a new record of a call must show when the call only moves itself.
LEMMA CallQuiet ==
  ASSUME TInv, NEW c \in Calls, NEW t \in CallRecords, Set(c, t),
         CallShape(t), Sound(t, bal),
         UNCHANGED <<redis, row, network, lock, provider_calls>>
  PROVE  Keeps
BY CallTyped, QuietStep

\* Moving within the code of execute_generation keeps the request.
LEMMA CallMoves ==
  ASSUME TInv, NEW c \in Calls, task[c].pc \in CallPcs, NEW t \in CallRecords,
         t.pc \in CallPcs, t.work = task[c].work, t.user_id = task[c].user_id,
         t.id = task[c].id, t.snap = task[c].snap,
         t.pc \notin {"authorize", "reserve", "denied", "wait"}
  PROVE  CallShape(t) /\ Sound(t, bal)
<1>1. t.pc \notin LoaderPcs /\ Where(t) = t.pc /\ t.pc \notin {"idle", "inspect"}
  BY DEF CallPcs, LoaderPcs, Where
<1>2. Sound(t, bal)
  <2>1. task[c].pc # "seed" /\ Sound(task[c], bal)
    BY CallTyped DEF CallPcs
  <2>2. QED
    BY <1>1, <2>1 DEF Sound, LoaderShape, Fresh, LoaderPcs
<1>3. CallShape(t)
  BY <1>1, CallWorks DEF CallShape, Request
<1>4. QED
  BY <1>2, <1>3

LEMMA ExecuteGenerationStep ==
  ASSUME TInv, NEW c \in Calls, NEW request \in Requests,
         ExecuteGeneration(c, request)
  PROVE  Keeps
<1> DEFINE asked == [task[c] EXCEPT !.work = request]
           begun == [asked EXCEPT !.pc = "load", !.ret = "authorize",
                                  !.user_id = request.user_id,
                                  !.id = request.client_request_id]
<1>1. /\ c \in Tasks /\ task[c] \in CallRecords
      /\ task[c].pc = "idle" /\ task[c].snap = Nil
  BY CallTyped DEF ExecuteGeneration, At, Sound, LoaderShape, Fresh
<1>2. request.user_id \in Users /\ request.client_request_id \in RequestIds
  BY InputsAssumption
<1>3. /\ asked \in CallRecords /\ asked.pc = "idle" /\ asked.work = request
      /\ asked.snap = Nil
  BY <1>1 DEF CallRecords, TaskRecords
<1> HIDE DEF asked
<1>4. CASE request.model_name \notin DOMAIN MODELS
  <2>1. CallShape(asked)
    BY <1>3 DEF CallShape, Where, LoaderPcs, CallPcs
  <2>2. Raised("InvalidInput") \in Outcomes \cup {Nil}
    BY DEF Raised, Outcomes, OutcomeKinds
  <2>3. Set(c, Ended(asked, Raised("InvalidInput")))
    BY <1>4 DEF ExecuteGeneration, asked
  <2>4. RoleOK(c, asked)
    BY <1>3, <2>1, CallTyped
  <2>5. QED
    BY <1>1, <2>2, <2>3, <2>4, EndedOK, CarefreeSound, QuietStep
    DEF ExecuteGeneration
<1>5. CASE request.model_name \in DOMAIN MODELS
  <2>1. begun \in CallRecords
    <3>1. /\ "load" \in CallPcs \cup LoaderPcs \cup {"idle", "done"}
          /\ "authorize" \in CallPcs \cup {"idle"}
      BY DEF LoaderPcs, CallPcs
    <3>2. [asked EXCEPT !.pc = "load", !.ret = "authorize"] \in CallRecords
      <4>1. [asked EXCEPT !.pc = "load"] \in CallRecords
        BY <1>3, <3>1 DEF CallRecords, TaskRecords
      <4>2. QED
        BY <4>1, <3>1 DEF CallRecords, TaskRecords
    <3>3. QED
      BY <1>2, <3>2 DEF CallRecords, TaskRecords
  <2>2. /\ begun.pc = "load" /\ begun.ret = "authorize"
        /\ begun.user_id = request.user_id
        /\ begun.id = request.client_request_id
        /\ begun.work = request /\ begun.snap = Nil
    BY <1>3 DEF CallRecords, TaskRecords
  <2>3. Set(c, begun)
    BY <1>5 DEF ExecuteGeneration, asked
  <2> HIDE DEF begun
  <2>4. CallShape(begun) /\ Sound(begun, bal)
    BY <1>2, <1>5, <2>2 DEF CallShape, Sound, LoaderShape, Fresh, Where, LoaderPcs, CallPcs
  <2>5. QED
    BY <2>1, <2>3, <2>4, CallQuiet DEF ExecuteGeneration
<1>6. QED
  BY <1>4, <1>5

\* A decision is made on the snapshot alone, and a plan it makes is covered by it.
LEMMA AuthorizeStep ==
  ASSUME TInv, NEW c \in Calls, AuthorizeSnapshot(c)
  PROVE  Keeps
<1> DEFINE auth == Authorize(Request(c), task[c].snap)
<1>1. /\ task[c].pc = "authorize" /\ task[c].attempt < RESERVE_MAX_ATTEMPTS
      /\ task[c].pc \in CallPcs
      /\ c \in Tasks /\ RoleOK(c, task[c]) /\ task[c] \in CallRecords
      /\ Sound(task[c], bal)
  BY CallTyped DEF AuthorizeSnapshot, At, InRange, CallPcs
<1>2. task[c].snap \in Snapshots
  BY <1>1, CallTyped DEF CallShape
<1>3. /\ auth \in Authorizations \cup Refusals
      /\ auth.verdict = "authorized" =>
           auth \in Authorizations /\ Covers(task[c].snap, auth.debit_plan)
  BY <1>1, <1>2, CallWorks, AuthorizeCovered DEF Snapshots
<1> HIDE DEF auth
<1>4. /\ UNCHANGED <<redis, row, network, lock, provider_calls>>
      /\ Set(c, CASE auth.verdict = "authorized" ->
                       [task[c] EXCEPT !.pc = "reserve", !.auth = auth,
                                       !.plan = auth.debit_plan, !.tries = 0]
                  [] auth.verdict \in AccessErrors ->
                       [task[c] EXCEPT !.pc = "denied", !.auth = auth]
                  [] OTHER -> Ended(task[c], Raised(auth.verdict)))
  BY DEF AuthorizeSnapshot, auth
<1>5. CASE auth.verdict = "authorized"
  <2> DEFINE t == [task[c] EXCEPT !.pc = "reserve", !.auth = auth,
                                  !.plan = auth.debit_plan, !.tries = 0]
  <2>1. auth \in Authorizations /\ auth.debit_plan \in DebitPlans
    BY <1>3, <1>5 DEF Authorizations
  <2>2. auth.verdict \notin AccessErrors
    BY <1>5 DEF AccessErrors
  <2>3. Set(c, t)
    BY <1>4, <1>5, <2>2, Zenon
  <2>4. t \in CallRecords
    <3>1. "reserve" \in CallPcs /\ 0 \in 0 .. RETRY_ATTEMPTS
      BY AttemptsAssumption DEF CallPcs
    <3>2. [task[c] EXCEPT !.pc = "reserve"] \in CallRecords
      BY <1>1, <3>1 DEF CallRecords, TaskRecords
    <3>3. [task[c] EXCEPT !.pc = "reserve", !.auth = auth] \in CallRecords
      BY <2>1, <3>2 DEF CallRecords, TaskRecords
    <3> DEFINE p == auth.debit_plan
    <3>4. p \in DebitPlans
      BY <2>1
    <3> HIDE DEF p
    <3>5. [task[c] EXCEPT !.pc = "reserve", !.auth = auth, !.plan = p] \in CallRecords
      BY <3>3, <3>4 DEF CallRecords, TaskRecords
    <3>6. [task[c] EXCEPT !.pc = "reserve", !.auth = auth, !.plan = p, !.tries = 0]
            \in CallRecords
      BY <3>1, <3>5 DEF CallRecords, TaskRecords
    <3>7. QED
      BY <3>6 DEF p
  <2>5. /\ t.pc = "reserve" /\ t.auth = auth /\ t.plan = auth.debit_plan
        /\ t.snap = task[c].snap /\ t.work = task[c].work
        /\ t.user_id = task[c].user_id /\ t.id = task[c].id
        /\ t.attempt = task[c].attempt
    BY <1>1 DEF CallRecords, TaskRecords
  <2> HIDE DEF t
  <2>6. CallShape(t)
    <3>1. Where(t) = "reserve" /\ t.pc \notin LoaderPcs
      BY <2>5 DEF Where, LoaderPcs
    <3>2. t.snap # Nil /\ Covers(t.snap, t.plan) /\ t.auth \in Authorizations
      BY <1>2, <1>3, <1>5, <2>1, <2>5, NilAssumption
    <3>3. QED
      BY <1>1, <2>5, <3>1, <3>2, CallWorks DEF CallShape, Request
  <2>7. Sound(t, bal)
    BY <1>1, <2>5 DEF Sound, LoaderShape, Fresh, LoaderPcs
  <2>8. QED
    BY <1>4, <2>3, <2>4, <2>6, <2>7, CallQuiet
<1>6. CASE auth.verdict \in AccessErrors
  <2> DEFINE t == [task[c] EXCEPT !.pc = "denied", !.auth = auth]
  <2>1. auth.verdict # "authorized"
    BY <1>6 DEF AccessErrors
  <2>2. Set(c, t)
    BY <1>4, <1>6, <2>1, Zenon
  <2>3. t \in CallRecords
    <3>1. "denied" \in CallPcs
      BY DEF CallPcs
    <3>2. [task[c] EXCEPT !.pc = "denied"] \in CallRecords
      BY <1>1, <3>1 DEF CallRecords, TaskRecords
    <3>3. QED
      BY <1>3, <3>2 DEF CallRecords, TaskRecords
  <2>4. /\ t.pc = "denied" /\ t.auth = auth
        /\ t.snap = task[c].snap /\ t.work = task[c].work
        /\ t.user_id = task[c].user_id /\ t.id = task[c].id
        /\ t.attempt = task[c].attempt
    BY <1>1 DEF CallRecords, TaskRecords
  <2> HIDE DEF t
  <2>5. t.auth \in Refusals
    BY <1>3, <2>1, <2>4 DEF Authorizations
  <2>6. CallShape(t)
    BY <1>1, <2>4, <2>5, CallWorks DEF CallShape, Request, Where, LoaderPcs, CallPcs
  <2>7. Sound(t, bal)
    BY <1>1, <2>4 DEF Sound, LoaderShape, Fresh, LoaderPcs
  <2>8. QED
    BY <1>4, <2>2, <2>3, <2>6, <2>7, CallQuiet
<1>7. CASE auth.verdict # "authorized" /\ auth.verdict \notin AccessErrors
  <2>1. Set(c, Ended(task[c], Raised(auth.verdict)))
    BY <1>4, <1>7, Zenon
  <2>2. auth.verdict \in OutcomeKinds
    BY <1>3, <1>7 DEF Authorizations, Refusals, OutcomeKinds
  <2>3. Raised(auth.verdict) \in Outcomes \cup {Nil}
    BY <2>2 DEF Raised, Outcomes
  <2>4. QED
    BY <1>1, <1>4, <2>1, <2>3, EndStep
<1>8. QED
  BY <1>5, <1>6, <1>7

LEMMA ReserveSendable ==
  ASSUME TInv, NEW c \in Calls, At(c, "reserve")
  PROVE  /\ ReserveInvocation(c) \in ReserveInvocations
         /\ Sendable(ReserveInvocation(c))
<1> DEFINE u == task[c].user_id
           snap == task[c].snap
<1>1. /\ task[c].pc = "reserve" /\ task[c].pc \in CallPcs
      /\ c \in Tasks /\ RoleOK(c, task[c])
      /\ task[c].auth \in Authorizations /\ Covers(snap, task[c].plan)
      /\ snap \in Snapshots
      /\ Sound(task[c], bal)
  BY CallTyped DEF At, CallPcs, CallShape
<1>2. /\ u \in Users /\ task[c].id \in RequestIds
      /\ Request(c).dialog_id \in Dialogs
      /\ Request(c).model_name \in DOMAIN MODELS
  BY <1>1, CallWorks
<1>3. task[c].plan \in DebitPlans /\ task[c].attempt \in 0 .. RESERVE_MAX_ATTEMPTS
  BY <1>1, Locals
<1>4. task[c].auth.estimated_cost_usd \in Nat /\ snap.version \in Int
  BY <1>1 DEF Authorizations, Snapshots
<1>5. Token(c) \in Tokens
  BY <1>3, TokensAssumption DEF Token
<1>6. ReserveInvocation(c) \in ReserveInvocations
  BY <1>2, <1>3, <1>4, <1>5 DEF ReserveInvocation, ReserveInvocations
<1>7. Vouched => NotNewer(snap, bal[u])
  <2>1. task[c].pc # "seed" /\ snap # Nil
    BY <1>1, NilAssumption
  <2>2. QED
    BY <1>1, <2>1 DEF Sound, Fresh
<1>8. /\ ReserveInvocation(c).user_id = u
      /\ ReserveInvocation(c).version = snap.version
      /\ ReserveInvocation(c).plan = task[c].plan
  BY DEF ReserveInvocation
<1>9. Sendable(ReserveInvocation(c))
  BY <1>1, <1>7, <1>8 DEF Sendable, Applicable, NotNewer
<1>10. QED
  BY <1>6, <1>9

LEMMA ReserveInvocationKind ==
  ASSUME NEW inv \in ReserveInvocations
  PROVE  inv \in Invocations
BY DEF Invocations

LEMMA ReserveTakesStep ==
  ASSUME TInv, NEW c \in Calls, Reserve(c)
  PROVE  Keeps
<1> DEFINE inv == ReserveInvocation(c)
           t == [task[c] EXCEPT !.pc = "provider", !.snap = Nil,
                                !.attempt = 0, !.tries = 0]
<1>1. /\ c \in Tasks /\ task[c] \in CallRecords
      /\ task[c].pc = "reserve" /\ task[c].pc \in CallPcs
      /\ At(c, "reserve")
  BY CallTyped DEF Reserve, At, CallPcs
<1>2. inv \in Invocations /\ Sendable(inv)
  BY <1>1, ReserveSendable, ReserveInvocationKind
<1>3. Execute(inv) /\ Set(c, t) /\ UNCHANGED <<row, network, lock>>
  BY DEF Reserve
<1>4. provider_calls' \in [RequestIds -> Nat]
  <2> DEFINE id == inv.id
  <2>1. provider_calls' = [provider_calls EXCEPT ![id] = provider_calls[id] + 1]
    BY DEF Reserve
  <2>2. provider_calls \in [RequestIds -> Nat]
    BY TInvParts DEF TypedParts, TypedOthers
  <2>3. id \in RequestIds
    BY <1>1, CallWorks DEF ReserveInvocation
  <2> HIDE DEF id
  <2>4. provider_calls[id] + 1 \in Nat
    BY <2>2, <2>3
  <2>5. QED
    BY <2>1, <2>2, <2>4
<1>5. t \in CallRecords
  <2>1. "provider" \in CallPcs /\ 0 \in 0 .. RESERVE_MAX_ATTEMPTS /\ 0 \in 0 .. RETRY_ATTEMPTS
    BY AttemptsAssumption DEF CallPcs
  <2>2. [task[c] EXCEPT !.pc = "provider"] \in CallRecords
    BY <1>1, <2>1 DEF CallRecords, TaskRecords
  <2>3. [task[c] EXCEPT !.pc = "provider", !.snap = Nil] \in CallRecords
    BY <2>2 DEF CallRecords, TaskRecords
  <2>4. [task[c] EXCEPT !.pc = "provider", !.snap = Nil, !.attempt = 0] \in CallRecords
    BY <2>1, <2>3 DEF CallRecords, TaskRecords
  <2>5. QED
    BY <2>1, <2>4 DEF CallRecords, TaskRecords
<1>6. /\ t.pc = "provider" /\ t.snap = Nil /\ t.work = task[c].work
      /\ t.user_id = task[c].user_id /\ t.id = task[c].id
  BY <1>1 DEF CallRecords, TaskRecords
<1> HIDE DEF t, inv
<1>7. CallShape(t) /\ Carefree(t)
  BY <1>1, <1>6, CallWorks
  DEF CallShape, Request, Where, LoaderPcs, CallPcs, Carefree
<1>8. RoleOK(c, t)
  BY <1>5, <1>7, CallTyped
<1>9. QED
  BY <1>1, <1>2, <1>3, <1>4, <1>7, <1>8, ScriptStep

\* What a reply of RESERVE says of the keys.
LEMMA ReserveReplies ==
  ASSUME NEW inv
  PROVE  /\ ReserveReply(inv) = "DUP" => gen[inv.id] # Nil
         /\ ReserveReply(inv) = "CONFLICT" => bal[inv.user_id] # Nil
<1>1. CASE gen[inv.id] # Nil
  <2>1. ReserveReply(inv) = "DUP"
    BY <1>1, Zenon DEF ReserveReply
  <2>2. QED
    BY <1>1, <2>1
<1>2. CASE gen[inv.id] = Nil /\ bal[inv.user_id] = Nil
  <2>1. ReserveReply(inv) = "MISSING"
    BY <1>2, Zenon DEF ReserveReply
  <2>2. QED
    BY <2>1
<1>3. CASE gen[inv.id] = Nil /\ bal[inv.user_id] # Nil
  <2>1. ReserveReply(inv)
          = IF bal[inv.user_id].version # inv.version THEN "CONFLICT" ELSE "OK"
    BY <1>3, Zenon DEF ReserveReply
  <2>2. QED
    BY <1>3, <2>1
<1>4. QED
  BY <1>1, <1>2, <1>3

LEMMA ReserveConflictStep ==
  ASSUME TInv, NEW c \in Calls, ReserveConflict(c)
  PROVE  Keeps
<1> DEFINE snap == bal[task[c].user_id]
           t == [task[c] EXCEPT !.pc = "authorize", !.snap = snap,
                                !.attempt = @ + 1]
<1>1. /\ task[c].pc = "reserve" /\ task[c].pc \in CallPcs /\ c \in Tasks
      /\ task[c] \in CallRecords /\ CallShape(task[c]) /\ KeysTyped
  BY CallTyped DEF ReserveConflict, At, CallPcs
<1>2. task[c].user_id \in Users
  BY <1>1, CallWorks
<1>3. snap \in Snapshots
  <2>1. snap # Nil
    <3> DEFINE inv == ReserveInvocation(c)
    <3>1. ReserveReply(inv) = "CONFLICT" /\ inv.user_id = task[c].user_id
      BY DEF ReserveConflict, ReserveInvocation
    <3> HIDE DEF inv
    <3>2. QED
      BY <3>1, ReserveReplies
  <2>2. QED
    BY <1>1, <1>2, <2>1 DEF KeysTyped
<1>4. snap # Nil /\ snap.version \in Int
  BY <1>3, NilAssumption DEF Snapshots
<1>5. task[c].attempt + 1 \in 0 .. RESERVE_MAX_ATTEMPTS
  BY <1>1, AttemptsAssumption DEF CallShape, CallRecords, TaskRecords
<1>6. Set(c, t)
  BY DEF ReserveConflict
<1> HIDE DEF snap
<1>7. t \in CallRecords
  <2>1. "authorize" \in CallPcs
    BY DEF CallPcs
  <2>2. [task[c] EXCEPT !.pc = "authorize"] \in CallRecords
    BY <1>1, <2>1 DEF CallRecords, TaskRecords
  <2>3. [task[c] EXCEPT !.pc = "authorize", !.snap = snap] \in CallRecords
    BY <1>3, <2>2 DEF CallRecords, TaskRecords
  <2>4. QED
    BY <1>1, <1>5, <2>3 DEF CallRecords, TaskRecords
<1>8. /\ t.pc = "authorize" /\ t.snap = snap /\ t.work = task[c].work
      /\ t.user_id = task[c].user_id /\ t.id = task[c].id
  BY <1>1 DEF CallRecords, TaskRecords
<1> HIDE DEF t
<1>9. CallShape(t)
  BY <1>1, <1>4, <1>8, CallWorks DEF CallShape, Request, Where, LoaderPcs, CallPcs
<1>10. Sound(t, bal)
  BY <1>2, <1>4, <1>8 DEF Sound, LoaderShape, Fresh, LoaderPcs, NotNewer, snap
<1>11. QED
  BY <1>6, <1>7, <1>9, <1>10, CallQuiet DEF ReserveConflict

\* A call goes through ensure_loaded and back to one of its loops.
LEMMA CallReloadStep ==
  ASSUME TInv, NEW c \in Calls, task[c].pc \in CallPcs,
         NEW ret \in {"authorize", "settle", "refund"},
         task[c].attempt < RESERVE_MAX_ATTEMPTS,
         Set(c, Reload(task[c], ret)),
         UNCHANGED <<redis, row, network, lock, provider_calls>>
  PROVE  Keeps
<1> DEFINE t == Reload(task[c], ret)
<1>1. task[c] \in CallRecords /\ ret \in CallPcs /\ Sound(task[c], bal)
  BY CallTyped DEF CallPcs
<1>2. /\ t \in CallRecords
      /\ t.pc = "load" /\ t.ret = ret /\ t.work = task[c].work
      /\ t.user_id = task[c].user_id /\ t.id = task[c].id /\ t.snap = task[c].snap
  BY <1>1, ReloadTyped DEF CallRecords
<1>3. Set(c, t)
  OBVIOUS
<1> HIDE DEF t
<1>4. CallShape(t)
  BY <1>1, <1>2, CallWorks DEF CallShape, Request, Where, LoaderPcs
<1>5. Sound(t, bal)
  <2>1. task[c].pc # "seed" /\ task[c].user_id \in Users
    BY CallWorks DEF CallPcs
  <2>2. QED
    BY <1>1, <1>2, <2>1 DEF Sound, LoaderShape, Fresh, LoaderPcs
<1>6. QED
  BY <1>2, <1>3, <1>4, <1>5, CallQuiet

\* One round of following another delivery's record: an answer, or a wait.
LEMMA FollowStep ==
  ASSUME TInv, NEW c \in Calls, task[c].pc \in {"reserve", "denied", "wait"},
         NEW record \in Records,
         \/ Set(c, ResolveDuplicate(c, record))
         \/ Set(c, FollowRecord(task[c], record)),
         UNCHANGED <<redis, row, network, lock, provider_calls>>
  PROVE  Keeps
<1>1. /\ c \in Tasks /\ task[c] \in CallRecords /\ CallShape(task[c])
      /\ task[c].pc \in CallPcs /\ Sound(task[c], bal)
  BY CallTyped DEF CallPcs
<1>2. /\ Raised("GenerationFailed") \in Outcomes /\ Raised("InvalidInput") \in Outcomes
      /\ Returned(RedeliveredCost(record)) \in Outcomes
  BY DEF Raised, Returned, RedeliveredCost, Records, Outcomes, OutcomeKinds
<1>3. ASSUME NEW outcome \in Outcomes, Set(c, Ended(task[c], outcome)) PROVE Keeps
  BY <1>1, <1>3, EndStep
<1>4. ASSUME Set(c, [task[c] EXCEPT !.pc = "wait"]) PROVE Keeps
  <2> DEFINE t == [task[c] EXCEPT !.pc = "wait"]
  <2>1. "wait" \in CallPcs
    BY DEF CallPcs
  <2>2. t \in CallRecords
    BY <1>1, <2>1 DEF CallRecords, TaskRecords
  <2>3. /\ t.pc = "wait" /\ t.snap = task[c].snap /\ t.work = task[c].work
        /\ t.user_id = task[c].user_id /\ t.id = task[c].id
        /\ t.attempt = task[c].attempt
    BY <1>1 DEF CallRecords, TaskRecords
  <2>4. Set(c, t)
    BY <1>4
  <2> HIDE DEF t
  <2>5. CallShape(t)
    BY <1>1, <2>3, CallWorks DEF CallShape, Request, Where, LoaderPcs, CallPcs
  <2>6. Sound(t, bal)
    BY <1>1, <2>3 DEF Sound, LoaderShape, Fresh, LoaderPcs
  <2>7. QED
    BY <2>2, <2>4, <2>5, <2>6, CallQuiet
<1>5. ASSUME Set(c, FollowRecord(task[c], record)) PROVE Keeps
  <2>1. record.status = "done" \/ record.status = "failed" \/ record.status = "running"
    BY DEF Records, Statuses
  <2>2. CASE record.status = "done"
    <3>1. record.status # "failed" /\ record.status # "running"
      BY <2>2
    <3>2. FollowRecord(task[c], record) = Ended(task[c], Returned(RedeliveredCost(record)))
      BY <2>2, <3>1, Zenon DEF FollowRecord
    <3>3. QED
      BY <1>2, <1>3, <1>5, <3>2
  <2>3. CASE record.status = "failed"
    <3>1. record.status # "done" /\ record.status # "running"
      BY <2>3
    <3>2. FollowRecord(task[c], record) = Ended(task[c], Raised("GenerationFailed"))
      BY <2>3, <3>1, Zenon DEF FollowRecord
    <3>3. QED
      BY <1>2, <1>3, <1>5, <3>2
  <2>4. CASE record.status = "running"
    <3>1. record.status # "done" /\ record.status # "failed"
      BY <2>4
    <3>2. FollowRecord(task[c], record) = [task[c] EXCEPT !.pc = "wait"]
      BY <2>4, <3>1, Zenon DEF FollowRecord
    <3>3. QED
      BY <1>4, <1>5, <3>2
  <2>5. QED
    BY <2>1, <2>2, <2>3, <2>4
<1>6. QED
  BY <1>2, <1>3, <1>5 DEF ResolveDuplicate

\* The record a call looks up by its id.
LEMMA RecordFound ==
  ASSUME TInv, NEW c \in Calls, task[c].pc \in CallPcs, gen[task[c].id] # Nil
  PROVE  gen[task[c].id] \in Records
BY CallTyped, CallWorks DEF KeysTyped

\* A RESERVE is told DUP of a record that is there.
LEMMA DuplicateFound ==
  ASSUME TInv, NEW c \in Calls, At(c, "reserve"),
         ReserveReply(ReserveInvocation(c)) = "DUP"
  PROVE  gen[task[c].id] # Nil
<1> DEFINE inv == ReserveInvocation(c)
<1> HIDE DEF inv
<1>1. ReserveReply(inv) = "DUP" /\ inv.id = task[c].id
  BY DEF inv, ReserveInvocation
<1>2. QED
  BY <1>1, ReserveReplies

LEMMA ReserveDuplicateStep ==
  ASSUME TInv, NEW c \in Calls, ReserveDuplicate(c)
  PROVE  Keeps
<1>1. task[c].pc = "reserve" /\ task[c].pc \in CallPcs
  BY DEF ReserveDuplicate, At, CallPcs
<1>2. gen[task[c].id] # Nil
  BY DuplicateFound DEF ReserveDuplicate
<1>3. gen[task[c].id] \in Records
  BY <1>1, <1>2, RecordFound
<1>4. QED
  BY <1>1, <1>3, FollowStep DEF ReserveDuplicate

LEMMA ReserveMissingStep ==
  ASSUME TInv, NEW c \in Calls, ReserveMissing(c)
  PROVE  Keeps
<1>1. task[c].pc \in CallPcs /\ task[c].attempt < RESERVE_MAX_ATTEMPTS
  BY CallTyped DEF ReserveMissing, At, CallPcs, CallShape
<1>2. QED
  BY <1>1, CallReloadStep DEF ReserveMissing

LEMMA DeniedOrDuplicateStep ==
  ASSUME TInv, NEW c \in Calls, DeniedOrDuplicate(c)
  PROVE  Keeps
<1>1. /\ task[c].pc = "denied" /\ task[c].pc \in CallPcs /\ c \in Tasks
      /\ task[c].auth \in Refusals
  BY CallTyped DEF DeniedOrDuplicate, At, CallPcs, CallShape
<1>2. CASE gen[task[c].id] = Nil
  <2>1. task[c].auth.verdict \in OutcomeKinds
    BY <1>1 DEF Refusals, OutcomeKinds
  <2>2. Raised(task[c].auth.verdict) \in Outcomes \cup {Nil}
    BY <2>1 DEF Raised, Outcomes
  <2>3. QED
    BY <1>1, <1>2, <2>2, EndStep DEF DeniedOrDuplicate
<1>3. CASE gen[task[c].id] # Nil
  <2>1. gen[task[c].id] \in Records
    BY <1>1, <1>3, RecordFound
  <2>2. QED
    BY <1>1, <1>3, <2>1, FollowStep DEF DeniedOrDuplicate
<1>4. QED
  BY <1>2, <1>3

LEMMA PollRecordStep ==
  ASSUME TInv, NEW c \in Calls, PollRecord(c)
  PROVE  Keeps
<1>1. /\ task[c].pc = "wait" /\ task[c].pc \in CallPcs
      /\ task[c].attempt < RESERVE_MAX_ATTEMPTS
  BY CallTyped DEF PollRecord, At, CallPcs, CallShape
<1>2. CASE gen[task[c].id] = Nil
  BY <1>1, <1>2, CallReloadStep DEF PollRecord
<1>3. CASE gen[task[c].id] # Nil
  <2>1. gen[task[c].id] \in Records
    BY <1>1, <1>3, RecordFound
  <2>2. QED
    BY <1>1, <1>3, <2>1, FollowStep DEF PollRecord
<1>4. QED
  BY <1>2, <1>3

LEMMA WaitTimesOutStep ==
  ASSUME TInv, NEW c \in Calls, WaitTimesOut(c)
  PROVE  Keeps
<1>1. c \in Tasks /\ Raised("GenerationInProgress") \in Outcomes \cup {Nil}
  BY CallTyped DEF Raised, Outcomes, OutcomeKinds
<1>2. QED
  BY <1>1, EndStep DEF WaitTimesOut

LEMMA ProviderReturnsStep ==
  ASSUME TInv, NEW c \in Calls, NEW bill \in Bills, ProviderReturns(c, bill)
  PROVE  Keeps
<1> DEFINE charged == Charged(bill, task[c].plan)
           refund == SurplusRefund(task[c].plan, task[c].auth.debit_policy, charged)
           t == [task[c] EXCEPT !.pc = "settle", !.charged = charged,
                                !.refund = refund]
<1>1. /\ task[c].pc \in CallPcs /\ task[c] \in CallRecords
      /\ c \in Tasks /\ task[c].plan \in DebitPlans
  BY CallTyped, Locals DEF ProviderReturns, At, CallPcs
<1>2. charged \in Nat
  <2>1. bill \in Int /\ total_usd(task[c].plan) \in Nat
    BY <1>1, InputsAssumption DEF total_usd, DebitPlans
  <2>2. QED
    BY <1>1, <2>1, ChargedInPlan
<1> HIDE DEF charged
<1>3. refund \in DebitPlans
  BY <1>1, <1>2, RefundTyped
<1>4. Set(c, t)
  BY DEF ProviderReturns, charged
<1> HIDE DEF refund
<1>5. t \in CallRecords
  <2>1. "settle" \in CallPcs
    BY DEF CallPcs
  <2>2. [task[c] EXCEPT !.pc = "settle"] \in CallRecords
    BY <1>1, <2>1 DEF CallRecords, TaskRecords
  <2>3. [task[c] EXCEPT !.pc = "settle", !.charged = charged] \in CallRecords
    BY <1>2, <2>2 DEF CallRecords, TaskRecords
  <2>4. QED
    BY <1>3, <2>3 DEF CallRecords, TaskRecords
<1>6. /\ t.pc = "settle" /\ t.snap = task[c].snap /\ t.work = task[c].work
      /\ t.user_id = task[c].user_id /\ t.id = task[c].id
  BY <1>1 DEF CallRecords, TaskRecords
<1> HIDE DEF t
<1>7. CallShape(t) /\ Sound(t, bal)
  BY <1>1, <1>5, <1>6, CallMoves DEF CallPcs
<1>8. QED
  BY <1>4, <1>5, <1>7, CallQuiet DEF ProviderReturns

LEMMA ProviderRaisesStep ==
  ASSUME TInv, NEW c \in Calls, NEW error \in {"GenerationFailed", "cancelled"},
         ProviderRaises(c, error)
  PROVE  Keeps
<1> DEFINE t == [task[c] EXCEPT !.pc = "refund", !.outcome = Raised(error)]
<1>1. /\ task[c].pc \in CallPcs /\ task[c] \in CallRecords /\ c \in Tasks
  BY CallTyped DEF ProviderRaises, At, CallPcs
<1>2. Raised(error) \in Outcomes
  BY DEF Raised, Outcomes, OutcomeKinds
<1>3. t \in CallRecords
  <2>1. "refund" \in CallPcs
    BY DEF CallPcs
  <2>2. [task[c] EXCEPT !.pc = "refund"] \in CallRecords
    BY <1>1, <2>1 DEF CallRecords, TaskRecords
  <2>3. QED
    BY <1>2, <2>2 DEF CallRecords, TaskRecords
<1>4. /\ t.pc = "refund" /\ t.snap = task[c].snap /\ t.work = task[c].work
      /\ t.user_id = task[c].user_id /\ t.id = task[c].id
  BY <1>1 DEF CallRecords, TaskRecords
<1>5. Set(c, t)
  BY DEF ProviderRaises, Caught
<1> HIDE DEF t
<1>6. CallShape(t) /\ Sound(t, bal)
  BY <1>1, <1>3, <1>4, CallMoves DEF CallPcs
<1>7. QED
  BY <1>3, <1>5, <1>6, CallQuiet DEF ProviderRaises

LEMMA CallRefundOK ==
  ASSUME TInv, NEW c \in Calls, At(c, "refund")
  PROVE  /\ RefundInvocation(c) \in Invocations
         /\ RefundInvocation(c).script = "REFUND"
<1>1. /\ task[c].user_id \in Users /\ task[c].id \in RequestIds
      /\ task[c].plan \in DebitPlans
  BY CallTyped, CallWorks, Locals DEF At, CallPcs
<1>2. QED
  BY <1>1 DEF RefundInvocation, Invocations, RefundInvocations

LEMMA CallSettleOK ==
  ASSUME TInv, NEW c \in Calls, At(c, "settle")
  PROVE  /\ SettleInvocation(c) \in Invocations
         /\ SettleInvocation(c).script = "SETTLE"
         /\ task[c].charged \in Nat
<1>1. /\ task[c].user_id \in Users /\ task[c].id \in RequestIds
      /\ task[c].charged \in Nat /\ task[c].refund \in DebitPlans
  BY CallTyped, CallWorks, Locals DEF At, CallPcs
<1>2. QED
  BY <1>1 DEF SettleInvocation, Invocations, SettleInvocations

LEMMA RefundCallStep ==
  ASSUME TInv, NEW c \in Calls, RefundCall(c)
  PROVE  Keeps
<1>1. At(c, "refund") /\ c \in Tasks /\ RoleOK(c, task[c])
  BY CallTyped DEF RefundCall, RefundReturns
<1>2. task[c].outcome \in Outcomes \cup {Nil}
  BY CallTyped DEF CallRecords, TaskRecords
<1>3. /\ RoleOK(c, Ended(task[c], task[c].outcome))
      /\ Carefree(Ended(task[c], task[c].outcome))
  BY <1>1, <1>2, EndedOK
<1>4. QED
  BY <1>1, <1>3, CallRefundOK, RefundReturnsStep DEF RefundCall

LEMMA RefundMissingStep ==
  ASSUME TInv, NEW c \in Calls, RefundMissing(c), UNCHANGED provider_calls
  PROVE  Keeps
<1>1. /\ task[c].pc \in CallPcs /\ task[c].attempt < RESERVE_MAX_ATTEMPTS
  BY DEF RefundMissing, At, InRange, CallPcs
<1>2. QED
  BY <1>1, CallReloadStep DEF RefundMissing

LEMMA SettleTakesStep ==
  ASSUME TInv, NEW c \in Calls, Settle(c)
  PROVE  Keeps
<1> DEFINE inv == SettleInvocation(c)
           outcome == Returned(task[c].charged)
<1>1. /\ At(c, "settle") /\ c \in Tasks /\ RoleOK(c, task[c])
      /\ inv \in Invocations /\ inv.script = "SETTLE"
      /\ outcome \in Outcomes
  BY CallTyped, CallSettleOK DEF Settle, Returned, Outcomes, OutcomeKinds
<1>2. Execute(inv) /\ Set(c, Ended(task[c], outcome))
  BY DEF Settle, SettleInvocation
<1> HIDE DEF inv, outcome
<1>3. RoleOK(c, Ended(task[c], outcome)) /\ Carefree(Ended(task[c], outcome))
  BY <1>1, EndedOK
<1>4. provider_calls' \in [RequestIds -> Nat] /\ UNCHANGED <<row, network, lock>>
  BY TInvParts DEF TypedParts, TypedOthers, Settle
<1>5. QED
  BY <1>1, <1>2, <1>3, <1>4, ScriptStep DEF Sendable

LEMMA SettleStaleStep ==
  ASSUME TInv, NEW c \in Calls, SettleStale(c)
  PROVE  Keeps
<1>1. c \in Tasks /\ Raised("GenerationFailed") \in Outcomes \cup {Nil}
  BY CallTyped DEF Raised, Outcomes, OutcomeKinds
<1>2. QED
  BY <1>1, EndStep DEF SettleStale

LEMMA SettleMissingStep ==
  ASSUME TInv, NEW c \in Calls, SettleMissing(c)
  PROVE  Keeps
<1>1. /\ task[c].pc \in CallPcs /\ task[c].attempt < RESERVE_MAX_ATTEMPTS
  BY DEF SettleMissing, At, InRange, CallPcs
<1>2. QED
  BY <1>1, CallReloadStep DEF SettleMissing

\* What a call may leave behind in the network.
LEMMA CallInvocationOK ==
  ASSUME TInv, NEW c \in Calls, CallSending(c)
  PROVE  /\ CallInvocation(c) \in Invocations
         /\ Sendable(CallInvocation(c))
<1>1. CASE At(c, "reserve")
  <2>1. ~At(c, "settle") /\ ~At(c, "refund")
    BY <1>1 DEF At
  <2>2. CallInvocation(c) = ReserveInvocation(c)
    BY <1>1, <2>1, Zenon DEF CallInvocation
  <2>3. QED
    BY <1>1, <2>2, ReserveSendable, ReserveInvocationKind
<1>2. CASE At(c, "settle")
  <2>1. ~At(c, "reserve") /\ ~At(c, "refund")
    BY <1>2 DEF At
  <2>2. CallInvocation(c) = SettleInvocation(c)
    BY <1>2, <2>1, Zenon DEF CallInvocation
  <2>3. CallInvocation(c).script = "SETTLE" /\ CallInvocation(c) \in Invocations
    BY <1>2, <2>2, CallSettleOK
  <2>4. QED
    BY <2>3 DEF Sendable
<1>3. CASE At(c, "refund")
  <2>1. ~At(c, "reserve") /\ ~At(c, "settle")
    BY <1>3 DEF At
  <2>2. CallInvocation(c) = RefundInvocation(c)
    BY <1>3, <2>1, Zenon DEF CallInvocation
  <2>3. CallInvocation(c).script = "REFUND" /\ CallInvocation(c) \in Invocations
    BY <1>3, <2>2, CallRefundOK
  <2>4. QED
    BY <2>3 DEF Sendable
<1>4. QED
  BY <1>1, <1>2, <1>3 DEF CallSending, At

LEMMA CallStepKeeps ==
  ASSUME TInv, NEW c \in Calls, CallStep(c)
  PROVE  Keeps
<1>1. c \in Tasks
  BY CallTyped
<1>2. ASSUME NEW request \in Requests, ExecuteGeneration(c, request) PROVE Keeps
  BY <1>2, ExecuteGenerationStep
<1>3. CASE Ensure(c) /\ UNCHANGED provider_calls
  BY <1>1, <1>3, EnsureStep
<1>4. CASE CallProgress(c)
  <2>1. ASSUME NEW bill \in Bills, ProviderReturns(c, bill) PROVE Keeps
    BY <2>1, ProviderReturnsStep
  <2>2. ASSUME NEW error \in {"GenerationFailed", "cancelled"}, ProviderRaises(c, error)
        PROVE  Keeps
    BY <2>2, ProviderRaisesStep
  <2>3. CASE GiveUp(c) /\ UNCHANGED provider_calls
    BY <1>1, <2>3, GiveUpStep
  <2>4. QED
    BY <1>4, <2>1, <2>2, <2>3, AuthorizeStep, ReserveTakesStep,
       ReserveConflictStep, ReserveMissingStep, ReserveDuplicateStep,
       DeniedOrDuplicateStep, PollRecordStep, WaitTimesOutStep, RefundCallStep,
       RefundMissingStep, SettleTakesStep, SettleStaleStep, SettleMissingStep
    DEF CallProgress
<1>5. CASE CallLosesReply(c)
  <2>1. task[c].pc \notin LoaderPcs
    BY <1>5 DEF CallLosesReply, CallSending, LoaderPcs
  <2>2. /\ CallInvocation(c) \in Invocations
        /\ Sendable(CallInvocation(c))
    BY <1>5, CallInvocationOK DEF CallLosesReply
  <2>3. LoseReply(c, CallInvocation(c)) /\ UNCHANGED provider_calls
    BY <1>5 DEF CallLosesReply
  <2>4. QED
    BY <1>1, <2>1, <2>2, <2>3, LoseReplyStep
<1>6. CASE CallAbandoned(c)
  <2> DEFINE sent == IF CallSending(c) THEN {CallInvocation(c)} ELSE {}
  <2>1. /\ sent \in SUBSET Invocations
        /\ \A inv \in sent : Sendable(inv)
    BY CallInvocationOK
  <2>2. Abandon(c, sent) /\ UNCHANGED provider_calls
    BY <1>6 DEF CallAbandoned
  <2> HIDE DEF sent
  <2>3. QED
    BY <1>1, <2>1, <2>2, AbandonStep
<1>7. QED
  BY <1>2, <1>3, <1>4, <1>5, <1>6 DEF CallStep

-----------------------------------------------------------------------------
(***************************************************************************)
(* A step is a step of one task, and what it leaves to all the others.     *)
(***************************************************************************)
Takes(a) == \E t : Set(a, t)

LEMMA EnsureSets == ASSUME NEW a, Ensure(a) PROVE Takes(a)
BY DEF Ensure, Load, TryAcquireLoadLock, LoadTimesOut, Recheck, LoadFromDb, Seed,
       ReleaseLoadLock, Goto, Takes

LEMMA CallSets == ASSUME NEW c, CallStep(c) PROVE Takes(c)
<1>1. ASSUME CallProgress(c) PROVE Takes(c)
  BY <1>1, Zenon
  DEF CallProgress, AuthorizeSnapshot, Reserve, ReserveConflict, ReserveMissing,
      ReserveDuplicate, DeniedOrDuplicate, PollRecord, WaitTimesOut, ProviderReturns,
      ProviderRaises, RefundCall, RefundReturns, RefundMissing, Settle, SettleStale,
      SettleMissing, GiveUp, Takes
<1>2. QED
  BY <1>1, EnsureSets, Zenon
  DEF CallStep, ExecuteGeneration, CallLosesReply, LoseReply, CallAbandoned, Abandon,
      Takes

LEMMA TopUpSets == ASSUME NEW t, TopUpStep(t) PROVE Takes(t)
BY EnsureSets, Zenon
DEF TopUpStep, TopUpProgress, ApplyTopUp, TopUp, TopUpMissing, GiveUp, TopUpLosesReply,
    LoseReply, TopUpAbandoned, Abandon, Takes

LEMMA ReaderSets == ASSUME NEW t, ReaderStep(t) PROVE Takes(t)
BY EnsureSets, Zenon
DEF ReaderStep, GetBalance, ReturnBalance, Abandon, Takes

LEMMA ReaperSets == ASSUME NEW r, ReaperStep(r) PROVE Takes(r)
BY EnsureSets, Zenon
DEF ReaperStep, ReaperProgress, StaleInflight, InspectStale, Forget, RefundStale,
    RefundReturns, RefundMissing, GiveUp, RestartReaper, ReaperLosesReply, LoseReply,
    ReaperAbandoned, Abandon, Takes

LEMMA OneMoves ==
  ASSUME TInv, [Next]_vars
  PROVE  /\ \A c \in Calls : task'[c] = task[c] \/ CallStep(c)
         /\ \A r \in Reapers :
              task'[r] = task[r] \/ (ReaperStep(r) /\ UNCHANGED provider_calls)
<1>1. ASSUME NEW a \in Tasks, Takes(a), NEW b \in Tasks, b # a
      PROVE  task'[b] = task[b]
  BY <1>1, TInvParts DEF TypedParts, TypedOthers, Takes, Set
<1>2. /\ Calls \subseteq Tasks /\ TopUps \subseteq Tasks
      /\ Readers \subseteq Tasks /\ Reapers \subseteq Tasks
  BY RolesAssumption
<1>3. ASSUME NEW c \in Calls, CallStep(c)
      PROVE  \A b \in Tasks : b # c => task'[b] = task[b]
  BY <1>1, <1>2, <1>3, CallSets
<1>4. ASSUME NEW t \in TopUps, TopUpStep(t)
      PROVE  \A b \in Tasks : b # t => task'[b] = task[b]
  BY <1>1, <1>2, <1>4, TopUpSets
<1>5. ASSUME NEW t \in Readers, ReaderStep(t)
      PROVE  \A b \in Tasks : b # t => task'[b] = task[b]
  BY <1>1, <1>2, <1>5, ReaderSets
<1>6. ASSUME NEW r \in Reapers, ReaperStep(r)
      PROVE  \A b \in Tasks : b # r => task'[b] = task[b]
  BY <1>1, <1>2, <1>6, ReaperSets
<1>7. CASE UNCHANGED task
  BY <1>7
<1>8. CASE \E c \in Calls : CallStep(c)
  BY <1>2, <1>3, <1>8, RolesAssumption
<1>9. CASE \E t \in TopUps : TopUpStep(t)
  BY <1>2, <1>4, <1>9, RolesAssumption
<1>10. CASE \E t \in Readers : ReaderStep(t)
  BY <1>2, <1>5, <1>10, RolesAssumption
<1>11. CASE (\E r \in Reapers : ReaperStep(r)) /\ UNCHANGED provider_calls
  BY <1>2, <1>6, <1>11, RolesAssumption
<1>12. CASE \E u \in Users : LockExpires(u)
  BY <1>7, <1>12 DEF LockExpires
<1>13. QED
  BY <1>7, <1>8, <1>9, <1>10, <1>11, <1>12 DEF Next, Quiet, vars

-----------------------------------------------------------------------------
(***************************************************************************)
(* A step and the records: nothing, a script, or an id forgotten by a      *)
(* reaper.                                                                 *)
(***************************************************************************)
RecordsMove ==
  \/ UNCHANGED <<gen, inflight>>
  \/ \E inv \in Invocations : Execute(inv)
  \/ \E r \in Reapers : Forget(r)

LEMMA EnsureUntouched ==
  ASSUME NEW a, Ensure(a)
  PROVE  UNCHANGED <<gen, inflight, late>> /\ faults' = faults
BY DEF Ensure, Load, TryAcquireLoadLock, LoadTimesOut, Recheck, LoadFromDb, Seed,
       SEED_IF_ABSENT, ReleaseLoadLock, redis, network

LEMMA CallMovesRecords ==
  ASSUME TInv, NEW c \in Calls, CallStep(c)
  PROVE  RecordsMove
<1>1. CASE Ensure(c)
  BY <1>1, EnsureUntouched DEF RecordsMove
<1>2. CASE Reserve(c)
  BY <1>2, ReserveSendable, ReserveInvocationKind DEF Reserve, RecordsMove
<1>3. CASE Settle(c)
  BY <1>3, CallSettleOK DEF Settle, RecordsMove
<1>4. CASE RefundCall(c)
  BY <1>4, CallRefundOK DEF RefundCall, RefundReturns, RecordsMove
<1>5. CASE CallProgress(c) /\ ~Reserve(c) /\ ~Settle(c) /\ ~RefundCall(c)
  BY <1>5 DEF CallProgress, AuthorizeSnapshot, ReserveConflict, ReserveMissing,
       ReserveDuplicate, DeniedOrDuplicate, PollRecord, WaitTimesOut,
       ProviderReturns, ProviderRaises, RefundMissing, SettleStale, SettleMissing,
       GiveUp, redis, RecordsMove
<1>6. CASE \E request \in Requests : ExecuteGeneration(c, request)
  BY <1>6 DEF ExecuteGeneration, redis, RecordsMove
<1>7. CASE CallLosesReply(c) \/ CallAbandoned(c)
  BY <1>7 DEF CallLosesReply, LoseReply, SendAndLose, CallAbandoned, Abandon,
              redis, RecordsMove
<1>8. QED
  BY <1>1, <1>2, <1>3, <1>4, <1>5, <1>6, <1>7 DEF CallStep, CallProgress

LEMMA TopUpMovesRecords ==
  ASSUME TInv, NEW t \in TopUps, TopUpStep(t)
  PROVE  RecordsMove
<1>1. CASE Ensure(t)
  BY <1>1, EnsureUntouched DEF RecordsMove
<1>2. CASE TopUp(t)
  BY <1>2, TopUpInvocationOK DEF TopUp, RecordsMove
<1>3. CASE ~Ensure(t) /\ ~TopUp(t)
  BY <1>3 DEF TopUpStep, TopUpProgress, ApplyTopUp, TopUpMissing, GiveUp,
       TopUpLosesReply, LoseReply, SendAndLose, TopUpAbandoned, Abandon, redis,
       RecordsMove
<1>4. QED
  BY <1>1, <1>2, <1>3

LEMMA ReaderMovesRecords ==
  ASSUME NEW t \in Readers, ReaderStep(t)
  PROVE  RecordsMove
<1>1. CASE Ensure(t)
  BY <1>1, EnsureUntouched DEF RecordsMove
<1>2. CASE ~Ensure(t)
  BY <1>2 DEF ReaderStep, GetBalance, ReturnBalance, Abandon, redis, RecordsMove
<1>3. QED
  BY <1>1, <1>2

LEMMA ReaperMovesRecords ==
  ASSUME TInv, NEW r \in Reapers, ReaperStep(r)
  PROVE  RecordsMove
<1>1. CASE Ensure(r)
  BY <1>1, EnsureUntouched DEF RecordsMove
<1>2. CASE RefundStale(r)
  BY <1>2, ReaperRefundOK DEF RefundStale, RefundReturns, RecordsMove
<1>3. CASE Forget(r)
  BY <1>3 DEF RecordsMove
<1>4. CASE ~Ensure(r) /\ ~RefundStale(r) /\ ~Forget(r)
  BY <1>4 DEF ReaperStep, ReaperProgress, StaleInflight, InspectStale, RefundMissing,
       GiveUp, RestartReaper, ReaperLosesReply, LoseReply, SendAndLose,
       ReaperAbandoned, Abandon, redis, RecordsMove
<1>5. QED
  BY <1>1, <1>2, <1>3, <1>4

LEMMA NextMovesRecords ==
  ASSUME TInv, [Next]_vars
  PROVE  RecordsMove
<1>1. CASE UNCHANGED vars
  BY <1>1 DEF vars, redis, RecordsMove
<1>2. ASSUME NEW u \in Users, LockExpires(u) PROVE RecordsMove
  BY <1>2 DEF LockExpires, redis, RecordsMove
<1>3. ASSUME NEW inv \in late, Land(inv) PROVE RecordsMove
  BY <1>3, TInvParts DEF TypedParts, TypedOthers, Land, RecordsMove
<1>4. QED
  BY <1>1, <1>2, <1>3, CallMovesRecords, TopUpMovesRecords, ReaderMovesRecords,
     ReaperMovesRecords
  DEF Next, Quiet

\* A record that has ended stays, and none goes away.
LEMMA MovedRecordsKept ==
  ASSUME TInv, RecordsMove
  PROVE  Kept
<1>1. KeysTyped
  BY TInvParts DEF TypedParts
<1>2. CASE gen' = gen
  BY <1>2 DEF Kept
<1>3. QED
  BY <1>1, <1>2, ExecuteKeeps DEF RecordsMove, Forget, ForgetInflight

-----------------------------------------------------------------------------
(***************************************************************************)
(* The steps of a reaper, by what they do to its batch.                    *)
(***************************************************************************)
Rests(r) == Where(task'[r]) \notin ReaperPcs

Carries(r) ==
  /\ Where(task[r]) \in ReaperPcs
  /\ task'[r].work = task[r].work
  /\ task'[r].pc # "forget"

Scans(r) ==
  /\ task'[r].pc = "inspect" /\ task'[r].work \subseteq inflight

Inspects(r) ==
  /\ gen' = gen
  /\ task[r].pc = "inspect"
  /\ task'[r].work \subseteq task[r].work
  /\ task'[r].pc = "forget" =>
       /\ task'[r].id \in task[r].work
       /\ gen[task'[r].id] = Nil \/ gen[task'[r].id].status # "running"

Reaps(r) == Rests(r) \/ Carries(r) \/ Scans(r) \/ Inspects(r)

LEMMA EndedFields ==
  ASSUME NEW t, NEW outcome
  PROVE  /\ Ended(t, outcome).pc = "done" /\ Ended(t, outcome).work = t.work
         /\ Ended(t, outcome).outcome = outcome
BY DEF Ended, Blank

LEMMA RestsBlank ==
  ASSUME TInv, NEW r \in Reapers,
         Set(r, Blank) \/ \E outcome : Set(r, Ended(task[r], outcome))
  PROVE  Rests(r)
<1>1. r \in Tasks /\ DOMAIN task = Tasks
  BY ReaperTyped, TInvParts DEF TypedParts, TypedOthers
<1>2. task'[r].pc \in {"idle", "done"}
  <2>1. CASE Set(r, Blank)
    BY <1>1, <2>1 DEF Set, Blank
  <2>2. ASSUME NEW outcome, Set(r, Ended(task[r], outcome))
        PROVE  task'[r].pc = "done"
    BY <1>1, <2>2, EndedFields DEF Set
  <2>3. QED
    BY <2>1, <2>2
<1>3. QED
  BY <1>2 DEF Rests, Where, LoaderPcs, ReaperPcs

LEMMA ReaperHas ==
  ASSUME TInv, NEW r \in Reapers
  PROVE  /\ r \in Tasks /\ DOMAIN task = Tasks
         /\ task[r] \in ReaperRecords /\ ReaperShape(task[r])
         /\ task[r].pc \in ReaperPcs => Where(task[r]) \in ReaperPcs
<1>1. "inspect" \notin LoaderPcs /\ "forget" \notin LoaderPcs /\ "refund" \notin LoaderPcs
  BY DEF LoaderPcs
<1>2. task[r].pc \in ReaperPcs => Where(task[r]) \in ReaperPcs
  BY <1>1 DEF ReaperPcs, Where
<1>3. QED
  BY <1>2, ReaperTyped, TInvParts DEF TypedParts, TypedOthers

LEMMA EnsureReaps ==
  ASSUME TInv, NEW r \in Reapers, Ensure(r)
  PROVE  Reaps(r)
<1>1. /\ task[r].pc \in LoaderPcs /\ task[r].ret = "refund"
      /\ task[r] \in ReaperRecords /\ r \in Tasks /\ DOMAIN task = Tasks
      /\ Where(task[r]) \in ReaperPcs
  <2>1. task[r].pc \in LoaderPcs
    BY DEF Ensure, Load, TryAcquireLoadLock, LoadTimesOut, Recheck, LoadFromDb,
           Seed, ReleaseLoadLock, At, LoaderPcs
  <2>2. QED
    BY <2>1, ReaperHas DEF ReaperShape, Where, ReaperPcs
<1>2. ASSUME NEW pc \in LoaderPcs \cup {"refund"}, NEW snap, NEW u, Set(r, u),
             u = [task[r] EXCEPT !.pc = pc] \/ u = [task[r] EXCEPT !.pc = pc, !.snap = snap]
      PROVE  Reaps(r)
  <2>1. task'[r] = u
    BY <1>1, <1>2 DEF Set
  <2>2. u.pc = pc /\ u.work = task[r].work
    BY <1>1, <1>2 DEF ReaperRecords, TaskRecords
  <2>3. pc # "forget"
    BY DEF LoaderPcs
  <2>4. QED
    BY <1>1, <2>1, <2>2, <2>3 DEF Reaps, Carries
<1>3. {"load", "lock", "recheck", "select", "seed", "release"} = LoaderPcs
  BY DEF LoaderPcs
<1>4. CASE Load(r)
  BY <1>1, <1>2, <1>3, <1>4 DEF Load, Goto
<1>5. CASE TryAcquireLoadLock(r)
  BY <1>2, <1>3, <1>5 DEF TryAcquireLoadLock, Goto
<1>6. CASE LoadTimesOut(r)
  BY <1>6, RestsBlank DEF LoadTimesOut, Reaps
<1>7. CASE Recheck(r)
  BY <1>2, <1>3, <1>7 DEF Recheck, Goto
<1>8. CASE LoadFromDb(r)
  BY <1>2, <1>3, <1>8 DEF LoadFromDb
<1>9. CASE Seed(r)
  BY <1>2, <1>3, <1>9 DEF Seed
<1>10. CASE ReleaseLoadLock(r)
  BY <1>1, <1>2, <1>3, <1>10 DEF ReleaseLoadLock, Goto
<1>11. QED
  BY <1>4, <1>5, <1>6, <1>7, <1>8, <1>9, <1>10 DEF Ensure

LEMMA NextStaleReaps ==
  ASSUME TInv, NEW r \in Reapers, task[r].pc \in ReaperPcs, Set(r, NextStale(task[r]))
  PROVE  Reaps(r)
<1>1. /\ task'[r] = NextStale(task[r])
      /\ Where(task[r]) \in ReaperPcs
  BY ReaperHas DEF Set
<1>2. CASE task[r].work = {}
  BY <1>2, RestsBlank DEF NextStale, Reaps
<1>3. CASE task[r].work # {}
  <2> DEFINE u == [Blank EXCEPT !.pc = "inspect", !.work = task[r].work]
  <2>1. u.pc = "inspect" /\ u.work = task[r].work
    BY DEF Blank
  <2>2. task'[r] = u
    BY <1>1, <1>3 DEF NextStale
  <2> HIDE DEF u
  <2>3. QED
    BY <1>1, <2>1, <2>2 DEF Reaps, Carries
<1>4. QED
  BY <1>2, <1>3

LEMMA InspectReaps ==
  ASSUME TInv, NEW r \in Reapers, NEW id \in RequestIds, InspectStale(r, id)
  PROVE  Inspects(r)
<1> DEFINE record == gen[id]
           rest == [task[r] EXCEPT !.work = @ \ {id}, !.id = id]
           gone == [rest EXCEPT !.pc = "forget"]
           running == [rest EXCEPT !.pc = "refund", !.plan = record.plan,
                                   !.user_id = record.user_id]
<1>1. /\ task[r].pc = "inspect" /\ id \in task[r].work /\ gen' = gen
      /\ task'[r] = IF record = Nil \/ record.status # "running" THEN gone ELSE running
  BY ReaperHas DEF InspectStale, At, Set, redis
<1>2. /\ gone.pc = "forget" /\ gone.id = id /\ gone.work = task[r].work \ {id}
      /\ running.pc = "refund" /\ running.work = task[r].work \ {id}
  BY ReaperHas DEF ReaperRecords, TaskRecords
<1> HIDE DEF gone, running
<1>3. QED
  BY <1>1, <1>2 DEF Inspects

LEMMA LosesReplyReaps ==
  ASSUME TInv, NEW r \in Reapers, ReaperLosesReply(r)
  PROVE  Reaps(r)
<1> DEFINE t == [task[r] EXCEPT !.tries = @ + 1]
<1>1. /\ task[r].pc = "refund"
      /\ Set(r, t) \/ Set(r, Ended(task[r], Raised("RedisError")))
  BY DEF ReaperLosesReply, LoseReply, At
<1>2. t.pc = "refund" /\ t.work = task[r].work
  BY <1>1, ReaperHas DEF ReaperRecords, TaskRecords
<1> HIDE DEF t
<1>3. CASE Set(r, t)
  <2>1. task'[r] = t
    BY <1>3, ReaperHas DEF Set
  <2>2. QED
    BY <1>1, <1>2, <2>1, ReaperHas DEF Reaps, Carries, ReaperPcs
<1>4. QED
  BY <1>1, <1>3, RestsBlank DEF Reaps

LEMMA MissingReaps ==
  ASSUME TInv, NEW r \in Reapers, RefundMissing(r)
  PROVE  Reaps(r)
<1> DEFINE t == Reload(task[r], "refund")
<1>1. task[r].pc = "refund" /\ task'[r] = t
  BY ReaperHas DEF RefundMissing, At, Set
<1>2. t.pc = "load" /\ t.work = task[r].work
  BY ReaperHas DEF ReaperRecords, TaskRecords, Reload
<1> HIDE DEF t
<1>3. QED
  BY <1>1, <1>2, ReaperHas DEF Reaps, Carries, ReaperPcs

LEMMA ReaperReaps ==
  ASSUME TInv, NEW r \in Reapers, ReaperStep(r)
  PROVE  Reaps(r)
<1>1. ASSUME NEW batch \in SUBSET inflight, StaleInflight(r, batch) PROVE Reaps(r)
  <2> DEFINE t == [task[r] EXCEPT !.pc = "inspect", !.work = batch]
  <2>1. task'[r] = t
    BY <1>1, ReaperHas DEF StaleInflight, Set
  <2>2. t.pc = "inspect" /\ t.work = batch
    BY ReaperHas DEF ReaperRecords, TaskRecords
  <2> HIDE DEF t
  <2>3. QED
    BY <2>1, <2>2 DEF Reaps, Scans
<1>2. CASE Forget(r)
  BY <1>2, NextStaleReaps DEF Forget, At, ReaperPcs
<1>3. CASE RefundStale(r)
  BY <1>3, NextStaleReaps DEF RefundStale, RefundReturns, At, ReaperPcs
<1>4. CASE GiveUp(r)
  BY <1>4, RestsBlank DEF GiveUp, Reaps
<1>5. CASE RestartReaper(r)
  BY <1>5, RestsBlank DEF RestartReaper, Reaps
<1>6. CASE ReaperAbandoned(r)
  BY <1>6, RestsBlank DEF ReaperAbandoned, Abandon, Reaps
<1>7. ASSUME NEW id \in RequestIds, InspectStale(r, id) PROVE Reaps(r)
  BY <1>7, InspectReaps DEF Reaps
<1>8. QED
  BY <1>1, <1>2, <1>3, <1>4, <1>5, <1>6, <1>7, EnsureReaps, LosesReplyReaps, MissingReaps
  DEF ReaperStep, ReaperProgress

-----------------------------------------------------------------------------
(***************************************************************************)
(* What IInv says of one task.                                             *)
(***************************************************************************)
LEMMA IInvTyped == IInv => TInv
BY DEF IInv

LEMMA SoundTask ==
  ASSUME IInv, NEW a \in Tasks
  PROVE  LoaderSound(task[a], bal)
BY IInvParts DEF Parts

LEMMA LoaderFacts ==
  ASSUME IInv, NEW a \in Tasks, task[a].pc \in LoaderPcs
  PROVE  /\ RoleOK(a, task[a]) /\ LoaderSound(task[a], bal)
         /\ task[a].user_id \in Users
         /\ task[a].ret \notin LoaderPcs \cup {"idle", "inspect"}
         /\ task[a].snap \in Snapshots \cup {Nil}
         /\ bal[task[a].user_id] \in Snapshots \cup {Nil}
BY IInvTyped, SoundTask, LoaderTyped

LEMMA TopUpFacts ==
  ASSUME IInv, NEW t \in TopUps
  PROVE  /\ t \in Tasks
         /\ task[t] \in TaskRecords({"top_up"}, Commands)
         /\ TopUpShape(task[t]) /\ LoaderSound(task[t], bal)
         /\ \A u : RoleOK(t, u) <=>
                     u \in TaskRecords({"top_up"}, Commands) /\ TopUpShape(u)
BY IInvTyped, SoundTask, TopUpTyped

LEMMA ReaderFacts ==
  ASSUME IInv, NEW t \in Readers
  PROVE  /\ t \in Tasks
         /\ task[t] \in TaskRecords({"balance"}, Snapshots)
         /\ LoaderSound(task[t], bal)
         /\ \A u : RoleOK(t, u) <=>
                     u \in TaskRecords({"balance"}, Snapshots) /\ ReaderShape(u)
BY IInvTyped, SoundTask, ReaderTyped

LEMMA ReaperFacts ==
  ASSUME IInv, NEW r \in Reapers
  PROVE  /\ r \in Tasks /\ RoleOK(r, task[r])
         /\ task[r] \in ReaperRecords
         /\ ReaperShape(task[r]) /\ LoaderSound(task[r], bal)
         /\ KeysOK
         /\ \A u : RoleOK(r, u) <=> u \in ReaperRecords /\ ReaperShape(u)
BY IInvTyped, SoundTask, ReaperTyped, IInvParts DEF Parts

LEMMA CallFacts ==
  ASSUME IInv, NEW c \in Calls
  PROVE  /\ c \in Tasks /\ RoleOK(c, task[c])
         /\ task[c] \in CallRecords
         /\ CallShape(task[c]) /\ LoaderSound(task[c], bal)
         /\ task[c].snap \in Snapshots \cup {Nil}
         /\ KeysOK
         /\ \A t : RoleOK(c, t) <=> t \in CallRecords /\ CallShape(t)
BY IInvTyped, SoundTask, CallTyped, IInvParts DEF Parts

LEMMA ReserveInvocationOK ==
  ASSUME IInv, NEW c \in Calls, At(c, "reserve")
  PROVE  /\ ReserveInvocation(c) \in ReserveInvocations
         /\ Applicable(ReserveInvocation(c))
<1>1. TInv /\ Vouched
  BY DEF IInv
<1>2. ReserveInvocation(c) \in ReserveInvocations /\ Sendable(ReserveInvocation(c))
  BY <1>1, ReserveSendable
<1>3. ReserveInvocation(c).script = "RESERVE"
  BY DEF ReserveInvocation
<1>4. QED
  BY <1>1, <1>2, <1>3 DEF Sendable

-----------------------------------------------------------------------------
(***************************************************************************)
(* The theorems.                                                           *)
(***************************************************************************)

LEMMA InitOK == Init => IInv
<1> SUFFICES ASSUME Init PROVE IInv
  OBVIOUS
<1>1. row \in [Users -> Balances \cup {Nil}]
  BY RowsAssumption DEF Init
<1>2. \A u \in Users : Warm(u) # Nil => Warm(u) \in Snapshots /\ Solvent(Warm(u))
  <2>1. \A u \in Users : StoredBalance(u) \in Balances
    BY <1>1 DEF StoredBalance, Zero, Balances
  <2>2. QED
    BY <2>1 DEF Warm, Balances, Snapshots, Solvent, Buckets
<1>3. KeysOK
  BY <1>2, NilAssumption DEF Init, StoreInit, KeysOK, NonNegative
<1>4. Others
  BY <1>1, MaxFaultsAssumption
  DEF Init, StoreInit, LoaderInit, Others, TypedOthers, LateSound
<1>5. \A a \in Tasks : task[a] = Blank
  BY DEF Init
<1>6. \A a \in Tasks : RoleOK(a, Blank) /\ LoaderSound(Blank, bal)
  <2>1. /\ Blank.pc = "idle" /\ Blank.snap = Nil
    BY DEF Blank
  <2>2. Where(Blank) = "idle" /\ Carefree(Blank)
    BY <2>1 DEF Where, LoaderPcs, Carefree
  <2>3. CallShape(Blank) /\ TopUpShape(Blank) /\ ReaderShape(Blank) /\ ReaperShape(Blank)
    BY <2>1, <2>2
    DEF CallShape, TopUpShape, ReaderShape, ReaperShape, CallPcs, ReaperPcs, LoaderPcs
  <2>4. LoaderSound(Blank, bal)
    BY <2>1, <2>2 DEF Carefree, LoaderSound, LoaderShape, Fresh
  <2>5. QED
    BY <2>3, <2>4, BlankTyped DEF RoleOK
<1>7. QED
  BY <1>3, <1>4, <1>5, <1>6, IInvParts DEF Parts

\* Whatever Redis has lost before: what TInv says stays, and what Vouched says too,
\* if it held.
LEMMA NextKeeps == TInv /\ [Next]_vars => Keeps
<1> SUFFICES ASSUME TInv, [Next]_vars PROVE Keeps
  OBVIOUS
<1>1. CASE UNCHANGED vars
  <2>1. TypedParts /\ UNCHANGED <<redis, row, network, task, lock, provider_calls>>
    BY <1>1, TInvParts DEF vars
  <2>2. KeysMove
    BY <2>1, KeysKeep DEF TypedParts
  <2>3. /\ late' \subseteq late /\ faults' \in 0 .. MaxFaults
        /\ lock' \in [Users -> Tasks \cup {Nil}]
        /\ UNCHANGED <<row, task, provider_calls>>
    BY <2>1 DEF TypedParts, TypedOthers, network
  <2>4. QED
    BY <2>2, <2>3, NobodyStep
<1>2. ASSUME NEW c \in Calls, CallStep(c) PROVE Keeps
  BY <1>2, CallStepKeeps
<1>3. ASSUME UNCHANGED provider_calls,
             NEW t \in TopUps, TopUpStep(t)
      PROVE  Keeps
  BY <1>3, TopUpStepKeeps
<1>4. ASSUME UNCHANGED provider_calls,
             NEW t \in Readers, ReaderStep(t)
      PROVE  Keeps
  BY <1>4, ReaderStepKeeps
<1>5. ASSUME UNCHANGED provider_calls,
             NEW r \in Reapers, ReaperStep(r)
      PROVE  Keeps
  BY <1>5, ReaperStepKeeps
<1>6. ASSUME UNCHANGED provider_calls,
             NEW u \in Users, LockExpires(u)
      PROVE  Keeps
  BY <1>6, LockExpiresStep
<1>7. ASSUME NEW inv \in late, Land(inv), UNCHANGED <<task, lock, provider_calls>>
      PROVE  Keeps
  BY <1>7, LandStep
<1>8. QED
  BY <1>1, <1>2, <1>3, <1>4, <1>5, <1>6, <1>7 DEF Next, Quiet

LEMMA NextOK == IInv /\ [Next]_vars => IInv'
BY NextKeeps DEF Keeps, IInv

\* IInv holds in every reachable state (Next, all of the service's handlers).
THEOREM IInvInvariant == Spec => []IInv
BY InitOK, NextOK, PTL DEF Spec

\* Every variable keeps its type (the keys of Redis, the locals of every task).
THEOREM TypeCorrect == Spec => []TypeOK
<1>1. IInv => TypeOK
  BY DEF IInv, TInv
<1>2. QED
  BY <1>1, IInvInvariant, PTL

\* No bucket and no free request is ever overdrawn, for any number of concurrent,
\* repeated and late calls (RESERVE compares the version its plan was made for).
THEOREM NeverOverdrawn == Spec => []NonNegative
<1>1. IInv => NonNegative
  BY DEF IInv, Vouched
<1>2. QED
  BY <1>1, IInvInvariant, PTL
=============================================================================
