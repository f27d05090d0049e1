-------------------------- MODULE BillingLedgerProofs --------------------------
(***************************************************************************)
(* Billing implements Ledger, for every value of the constants: BInv is    *)
(* an invariant, and under it every step of Billing is a step of Ledger or *)
(* none.  With it: records end once, and every plan is the plan the policy *)
(* makes of the balance it is taken from.                                  *)
(***************************************************************************)
EXTENDS BillingLedger, BillingProofs, FiniteSetTheorems, WellFoundedInduction

-----------------------------------------------------------------------------
(***************************************************************************)
(* Whoever runs a script, and whenever it lands, it fits.                  *)
(***************************************************************************)
Fits(inv) ==
  /\ inv \in Invocations
  /\ InvocationFits(inv, gen, bal)
  /\ inv.script = "RESERVE" => Applicable(inv)

LEMMA CallFitsOf ==
  ASSUME BInv, NEW c \in Calls
  PROVE  IInv /\ CallFits(task[c], gen)
BY DEF BInv

LEMMA ReserveFitsSender ==
  ASSUME BInv, NEW c \in Calls, At(c, "reserve")
  PROVE  /\ Fits(ReserveInvocation(c))
         /\ ReserveInvocation(c) \in ReserveInvocations
         /\ task[c].auth \in Authorizations
<1> DEFINE inv == ReserveInvocation(c)
           t == task[c]
           b == bal[t.user_id]
<1>1. IInv /\ CallFits(t, gen)
  BY CallFitsOf
<1>2. inv \in ReserveInvocations /\ Applicable(inv) /\ inv \in Invocations
  BY <1>1, ReserveInvocationOK, ReserveInvocationKind
<1>3. /\ t.pc = "reserve" /\ t.pc \in CallPcs
      /\ t.auth = Authorize(t.work, t.snap)
      /\ t.auth \in Authorizations
      /\ t.plan = t.auth.debit_plan
  BY <1>1 DEF At, CallFits, CallPcs
<1>4. /\ t.work \in Requests
      /\ t.user_id = t.work.user_id /\ t.id = t.work.client_request_id
  BY IInvTyped, <1>1, <1>3, CallWorks DEF Request
<1>5. NotNewer(t.snap, b)
  <2>1. t.snap # Nil /\ LoaderSound(t, bal)
    BY <1>1, <1>3, CallFacts DEF CallShape
  <2>2. QED
    BY <1>3, <2>1 DEF LoaderSound, Fresh
<1>6. /\ inv.id = t.id /\ inv.user_id = t.user_id /\ inv.plan = t.plan
      /\ inv.version = t.snap.version
      /\ inv.authorized_cost_usd = t.auth.estimated_cost_usd
      /\ inv.dialog_id = t.work.dialog_id /\ inv.model_name = t.work.model_name
      /\ inv.script = "RESERVE"
  BY DEF ReserveInvocation, Request
<1>7. t.auth.verdict = "authorized"
  BY <1>3 DEF Authorizations
<1> HIDE DEF inv
<1>8. SamePayload(t.work, NewRecord(inv))
  BY <1>4, <1>6 DEF SamePayload, NewRecord
<1>9. inv.version = bal[inv.user_id].version => t.snap = bal[inv.user_id]
  BY <1>5, <1>6 DEF NotNewer
<1>10. ReserveFits(inv, bal)
  BY <1>3, <1>4, <1>6, <1>7, <1>8, <1>9 DEF ReserveFits
<1>11. QED
  BY <1>2, <1>3, <1>6, <1>10 DEF Fits, InvocationFits, inv

LEMMA SettleFitsSender ==
  ASSUME BInv, NEW c \in Calls, At(c, "settle")
  PROVE  Fits(SettleInvocation(c))
<1>1. IInv /\ CallFits(task[c], gen)
  BY CallFitsOf
<1>2. SettleInvocation(c) \in Invocations /\ SettleInvocation(c).script = "SETTLE"
  BY IInvTyped, <1>1, CallSettleOK
<1>3. Where(task[c]) = "settle"
  BY DEF At, Where, LoaderPcs
<1>4. Splits(task[c].id, task[c].user_id, task[c].charged, task[c].refund, gen)
  BY <1>1, <1>3 DEF CallFits
<1>5. /\ SettleInvocation(c).id = task[c].id
      /\ SettleInvocation(c).user_id = task[c].user_id
      /\ SettleInvocation(c).billed_cost_usd = task[c].charged
      /\ SettleInvocation(c).refund = task[c].refund
  BY DEF SettleInvocation
<1>6. QED
  BY <1>2, <1>4, <1>5 DEF Fits, InvocationFits

LEMMA RefundFitsSender ==
  ASSUME BInv, NEW a \in Calls \cup Reapers, At(a, "refund")
  PROVE  Fits(RefundInvocation(a))
<1>1. IInv /\ Where(task[a]) = "refund"
  BY DEF BInv, At, Where, LoaderPcs
<1>2. RefundInvocation(a) \in Invocations /\ RefundInvocation(a).script = "REFUND"
  BY IInvTyped, <1>1, CallRefundOK, ReaperRefundOK
<1>3. Returns(task[a].id, task[a].user_id, task[a].plan, gen)
  BY <1>1 DEF BInv, CallFits, ReaperFits
<1>4. /\ RefundInvocation(a).id = task[a].id
      /\ RefundInvocation(a).user_id = task[a].user_id
      /\ RefundInvocation(a).plan = task[a].plan
  BY DEF RefundInvocation
<1>5. QED
  BY <1>2, <1>3, <1>4 DEF Fits, InvocationFits

LEMMA TopUpFitsSender ==
  ASSUME BInv, NEW t \in TopUps, At(t, "top_up")
  PROVE  Fits(TopUpInvocation(t)) /\ TopUpInvocation(t).script = "TOP_UP"
<1>1. IInv
  BY DEF BInv
<1>2. TopUpInvocation(t) \in Invocations /\ TopUpInvocation(t).script = "TOP_UP"
  BY IInvTyped, <1>1, TopUpInvocationOK
<1>3. /\ task[t].work \in Commands
      /\ task[t].user_id = task[t].work.user_id
      /\ task[t].id = task[t].work.operation_id
  <2>1. TopUpShape(task[t]) /\ Where(task[t]) = "top_up"
    BY <1>1, TopUpFacts DEF At, Where, LoaderPcs
  <2>2. QED
    BY <2>1 DEF TopUpShape
<1>4. TopUpFits(TopUpInvocation(t))
  BY <1>3 DEF TopUpFits, TopUpInvocation
<1>5. QED
  BY <1>2, <1>4 DEF Fits, InvocationFits

LEMMA CallSenderFits ==
  ASSUME BInv, NEW c \in Calls, CallSending(c)
  PROVE  Fits(CallInvocation(c))
<1>1. CASE At(c, "reserve")
  <2>1. ~At(c, "settle") /\ ~At(c, "refund")
    BY <1>1 DEF At
  <2>2. CallInvocation(c) = ReserveInvocation(c)
    BY <1>1, <2>1, Zenon DEF CallInvocation
  <2>3. QED
    BY <1>1, <2>2, ReserveFitsSender
<1>2. CASE At(c, "settle")
  <2>1. ~At(c, "reserve") /\ ~At(c, "refund")
    BY <1>2 DEF At
  <2>2. CallInvocation(c) = SettleInvocation(c)
    BY <1>2, <2>1, Zenon DEF CallInvocation
  <2>3. QED
    BY <1>2, <2>2, SettleFitsSender
<1>3. CASE At(c, "refund")
  <2>1. ~At(c, "reserve") /\ ~At(c, "settle")
    BY <1>3 DEF At
  <2>2. CallInvocation(c) = RefundInvocation(c)
    BY <1>3, <2>1, Zenon DEF CallInvocation
  <2>3. QED
    BY <1>3, <2>2, RefundFitsSender
<1>4. QED
  BY <1>1, <1>2, <1>3 DEF CallSending, At

LEMMA LateOneFits ==
  ASSUME BInv, NEW inv \in late
  PROVE  Fits(inv)
<1>1. Parts
  BY IInvParts DEF BInv
<1>2. inv \in Invocations /\ (inv.script = "RESERVE" => Applicable(inv))
  BY <1>1 DEF Parts, Others, TypedOthers, LateSound
<1>3. QED
  BY <1>2 DEF BInv, Fits

-----------------------------------------------------------------------------
(***************************************************************************)
(* What fits goes on fitting.                                              *)
(***************************************************************************)
LEMMA FitsStill ==
  ASSUME KeysOK, KeysOK', Monotone, Kept, NEW inv, Fits(inv)
  PROVE  InvocationFits(inv, gen', bal')
<1>1. inv.script = "RESERVE" => ReserveFits(inv, bal')
  <2> SUFFICES ASSUME inv.script = "RESERVE" PROVE ReserveFits(inv, bal')
    OBVIOUS
  <2> DEFINE u == inv.user_id
  <2>1. inv \in ReserveInvocations /\ Applicable(inv) /\ ReserveFits(inv, bal)
    BY InvocationScripts DEF Fits, InvocationFits
  <2>2. u \in Users /\ inv.version \in Int
    BY <2>1 DEF ReserveInvocations
  <2>3. /\ bal[u] # Nil /\ bal'[u] # Nil
        /\ bal'[u] = bal[u] \/ bal[u].version < bal'[u].version
        /\ inv.version <= bal[u].version
    BY <2>1, <2>2 DEF Applicable, Monotone
  <2>4. bal[u].version \in Int /\ bal'[u].version \in Int
    BY <2>2, <2>3 DEF KeysOK, Snapshots
  <2>5. inv.version = bal'[u].version => bal'[u] = bal[u]
    BY <2>2, <2>3, <2>4
  <2>6. QED
    BY <2>1, <2>5 DEF ReserveFits
<1>2. inv.script = "SETTLE" =>
        Splits(inv.id, inv.user_id, inv.billed_cost_usd, inv.refund, gen')
  <2>1. inv.script = "SETTLE" => inv.id \in RequestIds
    BY DEF Fits, Invocations, ReserveInvocations, SettleInvocations,
           RefundInvocations, TopUpInvocations
  <2>2. QED
    BY <2>1 DEF Fits, InvocationFits, Splits, Kept
<1>3. inv.script = "REFUND" => Returns(inv.id, inv.user_id, inv.plan, gen')
  <2>1. inv.script = "REFUND" => inv.id \in RequestIds
    BY DEF Fits, Invocations, ReserveInvocations, SettleInvocations,
           RefundInvocations, TopUpInvocations
  <2>2. QED
    BY <2>1 DEF Fits, InvocationFits, Returns, Kept
<1>4. QED
  BY <1>1, <1>2, <1>3 DEF Fits, InvocationFits

LEMMA CallFitsStill ==
  ASSUME Kept, NEW t, CallFits(t, gen),
         Where(t) \in {"provider", "settle", "refund"} => t.id \in RequestIds
  PROVE  CallFits(t, gen')
BY DEF CallFits, Returns, Splits, Kept

LEMMA ReaperFitsStill ==
  ASSUME Kept, NEW t, ReaperFits(t, gen),
         Where(t) = "refund" => t.id \in RequestIds
  PROVE  ReaperFits(t, gen')
BY DEF ReaperFits, Returns, Kept

\* The id of a task that is to end a reservation.
LEMMA EndingIds ==
  ASSUME IInv
  PROVE  /\ \A c \in Calls : Where(task[c]) \in {"provider", "settle", "refund"} =>
              task[c].id \in RequestIds
         /\ \A r \in Reapers : Where(task[r]) = "refund" => task[r].id \in RequestIds
<1>1. ASSUME NEW c \in Calls, Where(task[c]) \in {"provider", "settle", "refund"}
      PROVE  task[c].id \in RequestIds
  BY <1>1, CallFacts, InputsAssumption DEF CallShape, CallPcs
<1>2. ASSUME NEW r \in Reapers, Where(task[r]) = "refund"
      PROVE  task[r].id \in RequestIds
  BY <1>2, ReaperFacts DEF ReaperShape
<1>3. QED
  BY <1>1, <1>2

-----------------------------------------------------------------------------
(***************************************************************************)
(* A step of one task, in general.                                         *)
(***************************************************************************)

\* What a token may stand for to a call it may stand for after the step.
TokenMoves(t, u) ==
  \A token \in Attempts : \A id, user, plan :
    TokenFits(token, id, user, plan, t) => TokenFits(token, id, user, plan, u)

\* A RESERVE's token, as TokensFit has it.
SentToken(inv, tasks) ==
  inv.script = "RESERVE" =>
    /\ inv.token \in Attempts
    /\ TokenFits(inv.token, inv.id, inv.user_id, inv.plan, tasks[inv.token[1]])

BornTokens ==
  \A id \in RequestIds : (gen[id] = Nil /\ gen'[id] # Nil) =>
    LET token == gen'[id].reservation_token
    IN  /\ token \in Attempts
        /\ TokenFits(token, id, gen'[id].user_id, gen'[id].plan, task'[token[1]])

LEMMA TokenStep ==
  ASSUME BInv, NEW a \in Tasks, NEW t, Set(a, t), Kept,
         a \in Calls => TokenMoves(task[a], t),
         BornTokens,
         NEW sent, late' \subseteq late \cup sent,
         \A inv \in sent : SentToken(inv, task')
  PROVE  TokensFit'
<1>1. /\ DOMAIN task = Tasks /\ Calls \subseteq Tasks
  BY IInvParts, RolesAssumption DEF BInv, Parts, Others, TypedOthers
<1>2. ASSUME NEW token \in Attempts, NEW id, NEW user, NEW plan,
             TokenFits(token, id, user, plan, task[token[1]])
      PROVE  TokenFits(token, id, user, plan, task'[token[1]])
  <2>1. token[1] \in Calls
    BY DEF Attempts
  <2>2. CASE token[1] = a
    <3>1. task'[token[1]] = t
      BY <1>1, <2>2 DEF Set
    <3>2. QED
      BY <1>2, <2>1, <2>2, <3>1 DEF TokenMoves
  <2>3. CASE token[1] # a
    <3>1. task'[token[1]] = task[token[1]]
      BY <1>1, <2>1, <2>3 DEF Set
    <3>2. QED
      BY <1>2, <3>1
  <2>4. QED
    BY <2>2, <2>3
<1>3. ASSUME NEW id \in RequestIds, gen'[id] # Nil
      PROVE  LET token == gen'[id].reservation_token
             IN  /\ token \in Attempts
                 /\ TokenFits(token, id, gen'[id].user_id, gen'[id].plan,
                              task'[token[1]])
  <2>1. CASE gen[id] = Nil
    BY <1>3, <2>1 DEF BornTokens
  <2>2. CASE gen[id] # Nil
    <3> DEFINE token == gen[id].reservation_token
    <3>1. /\ token \in Attempts
          /\ TokenFits(token, id, gen[id].user_id, gen[id].plan, task[token[1]])
      BY <2>2 DEF BInv, TokensFit
    <3>2. TokenFits(token, id, gen[id].user_id, gen[id].plan, task'[token[1]])
      BY <1>2, <3>1
    <3>3. /\ gen'[id].reservation_token = token
          /\ gen'[id].user_id = gen[id].user_id
          /\ gen'[id].plan = gen[id].plan
      BY <2>2 DEF Kept
    <3>4. QED
      BY <3>1, <3>2, <3>3
  <2>3. QED
    BY <2>1, <2>2
<1>4. ASSUME NEW inv \in late', inv.script = "RESERVE"
      PROVE  /\ inv.token \in Attempts
             /\ TokenFits(inv.token, inv.id, inv.user_id, inv.plan,
                          task'[inv.token[1]])
  <2>1. CASE inv \in sent
    BY <1>4, <2>1 DEF SentToken
  <2>2. CASE inv \in late
    <3>1. /\ inv.token \in Attempts
          /\ TokenFits(inv.token, inv.id, inv.user_id, inv.plan, task[inv.token[1]])
      BY <1>4, <2>2 DEF BInv, TokensFit
    <3>2. QED
      BY <1>2, <3>1
  <2>3. QED
    BY <2>1, <2>2
<1>5. QED
  BY <1>3, <1>4 DEF TokensFit

\* What its new record has to show, for the records as the step leaves them.
TaskFits(a, t, records) ==
  /\ a \in Calls => CallFits(t, records) /\ TokenMoves(task[a], t)
  /\ a \in Reapers => ReaperFits(t, records)
  /\ SeedFits(t, row)

LEMMA FitStep ==
  ASSUME BInv, IInv', NEW a \in Tasks, NEW t, Set(a, t),
         Monotone, Kept, UNCHANGED row,
         TaskFits(a, t, gen'),
         BornTokens,
         NEW sent, late' \subseteq late \cup sent,
         \A inv \in sent : SentToken(inv, task') /\ InvocationFits(inv, gen', bal')
  PROVE  BInv'
<1>1. /\ KeysOK /\ KeysOK' /\ IInv
      /\ DOMAIN task = Tasks /\ Calls \subseteq Tasks /\ Reapers \subseteq Tasks
  <2>1. IInv /\ Parts /\ Calls \subseteq Tasks /\ Reapers \subseteq Tasks
    BY IInvParts, RolesAssumption DEF BInv
  <2>2. Parts'
    BY IInvParts, PTL
  <2>3. QED
    BY <2>1, <2>2 DEF Parts, Others, TypedOthers
<1>2. \A b \in Tasks : task'[b] = IF b = a THEN t ELSE task[b]
  BY <1>1 DEF Set
<1>3. \A c \in Calls : CallFits(task'[c], gen')
  <2>1. ASSUME NEW c \in Calls, c # a PROVE CallFits(task'[c], gen')
    BY <1>1, <1>2, <2>1, EndingIds, CallFitsStill DEF BInv
  <2>2. QED
    BY <1>1, <1>2, <2>1 DEF TaskFits
<1>4. \A r \in Reapers : ReaperFits(task'[r], gen')
  <2>1. ASSUME NEW r \in Reapers, r # a PROVE ReaperFits(task'[r], gen')
    BY <1>1, <1>2, <2>1, EndingIds, ReaperFitsStill DEF BInv
  <2>2. QED
    BY <1>1, <1>2, <2>1 DEF TaskFits
<1>5. \A b \in Tasks : SeedFits(task'[b], row')
  BY <1>2 DEF TaskFits, BInv
<1>6. \A inv \in late' : InvocationFits(inv, gen', bal')
  <2>1. ASSUME NEW inv \in late PROVE InvocationFits(inv, gen', bal')
    BY <1>1, LateOneFits, FitsStill
  <2>2. QED
    BY <2>1
<1>7. TokensFit'
  BY TokenStep DEF TaskFits
<1>8. QED
  BY <1>3, <1>4, <1>5, <1>6, <1>7 DEF BInv

\* It touches its own record only.
LEMMA OwnStep ==
  ASSUME BInv, IInv', NEW a \in Tasks, NEW t, Set(a, t), TaskFits(a, t, gen),
         UNCHANGED <<redis, row>>, late' = late
  PROVE  BInv'
<1>1. KeysOK
  BY IInvParts DEF BInv, Parts
<1>2. Monotone /\ Kept /\ BornTokens /\ gen' = gen /\ row' = row
  BY <1>1, KeepKeys DEF redis, Kept, BornTokens
<1>3. TaskFits(a, t, gen')
  BY <1>2
<1> DEFINE sent == {}
<1>4. /\ late' \subseteq late \cup sent
      /\ \A i \in sent : SentToken(i, task') /\ InvocationFits(i, gen', bal')
  OBVIOUS
<1> HIDE DEF sent
<1>5. QED
  BY <1>2, <1>3, <1>4, FitStep

\* It leaves a script in the network.
LEMMA SentStep ==
  ASSUME BInv, IInv', NEW a \in Tasks, NEW t, Set(a, t), TaskFits(a, t, gen),
         UNCHANGED <<redis, row>>,
         NEW sent, late' \subseteq late \cup sent,
         \A inv \in sent : Fits(inv) /\ SentToken(inv, task')
  PROVE  BInv'
<1>1. KeysOK
  BY IInvParts DEF BInv, Parts
<1>2. Monotone /\ Kept /\ BornTokens /\ gen' = gen /\ bal' = bal /\ row' = row
  BY <1>1, KeepKeys DEF redis, Kept, BornTokens
<1>3. TaskFits(a, t, gen')
  BY <1>2
<1>4. \A inv \in sent : InvocationFits(inv, gen', bal')
  BY <1>2 DEF Fits
<1>5. QED
  BY <1>2, <1>3, <1>4, FitStep

\* It has run a script of its own.
LEMMA RunStep ==
  ASSUME BInv, IInv', NEW a \in Tasks, NEW t, Set(a, t),
         NEW inv, Fits(inv), Execute(inv), TaskFits(a, t, gen'),
         inv.script = "RESERVE" => SentToken(inv, task'),
         UNCHANGED row, late' = late
  PROVE  BInv'
<1>1. KeysOK /\ inv \in Invocations /\ (inv.script = "RESERVE" => Applicable(inv))
  BY IInvParts DEF BInv, Parts, Fits
<1>2. Monotone /\ Kept /\ Born(inv)
  BY <1>1, ExecuteStep, KeysParts, ExecuteKeeps
<1>3. BornTokens
  <2>1. SUFFICES ASSUME NEW id \in RequestIds, gen[id] = Nil, gen'[id] # Nil
                 PROVE  LET token == gen'[id].reservation_token
                        IN  /\ token \in Attempts
                            /\ TokenFits(token, id, gen'[id].user_id,
                                         gen'[id].plan, task'[token[1]])
    BY DEF BornTokens
  <2>2. inv.script = "RESERVE" /\ id = inv.id /\ gen'[id] = NewRecord(inv)
    BY <1>2, <2>1 DEF Born
  <2>3. /\ gen'[id].reservation_token = inv.token
        /\ gen'[id].user_id = inv.user_id
        /\ gen'[id].plan = inv.plan
    BY <2>2 DEF NewRecord
  <2>4. QED
    BY <2>2, <2>3 DEF SentToken
<1> DEFINE sent == {}
<1>4. /\ late' \subseteq late \cup sent
      /\ \A i \in sent : SentToken(i, task') /\ InvocationFits(i, gen', bal')
  OBVIOUS
<1> HIDE DEF sent
<1>5. QED
  BY <1>2, <1>3, <1>4, FitStep

-----------------------------------------------------------------------------
(***************************************************************************)
(* The steps every task may take.                                          *)
(***************************************************************************)
LEMMA EndedFits ==
  ASSUME NEW a \in Tasks, NEW t, NEW outcome, NEW records
  PROVE  TaskFits(a, Ended(t, outcome), records)
<1> DEFINE u == Ended(t, outcome)
<1>1. u.pc = "done"
  BY DEF Ended, Blank
<1> HIDE DEF u
<1>2. Where(u) = "done"
  BY <1>1 DEF Where, LoaderPcs
<1>3. TokenMoves(task[a], u)
  BY <1>1, <1>2 DEF TokenMoves, TokenFits
<1>4. CallFits(u, records) /\ ReaperFits(u, records) /\ SeedFits(u, row)
  BY <1>1, <1>2 DEF CallFits, ReaperFits, SeedFits
<1>5. QED
  BY <1>3, <1>4 DEF TaskFits, u

LEMMA EndFits ==
  ASSUME BInv, IInv', NEW a \in Tasks, NEW t, NEW outcome, Set(a, Ended(t, outcome)),
         UNCHANGED <<redis, row>>, late' = late
  PROVE  BInv'
<1> DEFINE u == Ended(t, outcome)
<1>1. Set(a, u) /\ TaskFits(a, u, gen)
  BY EndedFits
<1> HIDE DEF u
<1>2. QED
  BY <1>1, OwnStep

LEMMA AbandonFits ==
  ASSUME BInv, IInv', NEW a \in Tasks, NEW sent, Abandon(a, sent),
         \A inv \in sent : Fits(inv) /\ SentToken(inv, task')
  PROVE  BInv'
<1> DEFINE u == Ended(task[a], Raised("aborted"))
<1>1. Set(a, u) /\ TaskFits(a, u, gen)
  BY EndedFits DEF Abandon
<1> HIDE DEF u
<1>2. late' \subseteq late \cup sent /\ UNCHANGED <<redis, row>>
  BY DEF Abandon
<1>3. QED
  BY <1>1, <1>2, SentStep

\* In ensure_loaded a task keeps what its own code left in its locals.
Follows(t, u) ==
  /\ u.pc \in LoaderPcs \cup {t.ret}
  /\ u.ret = t.ret /\ u.user_id = t.user_id /\ u.id = t.id /\ u.plan = t.plan
  /\ u.charged = t.charged /\ u.refund = t.refund /\ u.attempt = t.attempt

LEMMA MovedFollows ==
  ASSUME NEW a \in Tasks, NEW t, RoleOK(a, t), NEW pc \in LoaderPcs \cup {t.ret},
         NEW snap, NEW u, u = [t EXCEPT !.pc = pc] \/ u = Moved(t, pc, snap)
  PROVE  Follows(t, u) /\ u.pc = pc
<1>1. ASSUME NEW pcs, NEW works, t \in TaskRecords(pcs, works)
      PROVE  Follows(t, u) /\ u.pc = pc
  <2>1. CASE u = [t EXCEPT !.pc = pc]
    BY <1>1, <2>1 DEF TaskRecords, Follows
  <2>2. CASE u = Moved(t, pc, snap)
    BY <1>1, <2>2 DEF TaskRecords, Follows, Moved
  <2>3. QED
    BY <2>1, <2>2
<1>2. QED
  BY <1>1, RolesAssumption DEF RoleOK

LEMMA FollowsFits ==
  ASSUME BInv, NEW a \in Tasks, task[a].pc \in LoaderPcs,
         NEW u, Follows(task[a], u), SeedFits(u, row)
  PROVE  TaskFits(a, u, gen)
<1> DEFINE t == task[a]
<1>1. IInv /\ RoleOK(a, t) /\ t.ret \notin LoaderPcs \cup {"idle", "inspect"}
  BY LoaderFacts DEF BInv
<1>2. Where(u) = Where(t) /\ Where(t) = t.ret /\ u.pc # "idle"
  BY <1>1 DEF Where, Follows, LoaderPcs
<1>3. ASSUME a \in Calls PROVE CallFits(u, gen) /\ TokenMoves(t, u)
  <2>1. t.ret \in {"authorize", "settle", "refund"} /\ CallFits(t, gen)
    BY <1>1, <1>3 DEF BInv, RoleOK, CallShape
  <2>2. u.pc # "reserve" /\ u.pc # "provider"
    BY <2>1 DEF Follows, LoaderPcs
  <2>3. CallFits(u, gen)
    BY <1>2, <2>1, <2>2 DEF CallFits, Follows
  <2>4. TokenMoves(t, u)
    BY <1>2, <2>2 DEF TokenMoves, TokenFits, Follows
  <2>5. QED
    BY <2>3, <2>4
<1>4. ASSUME a \in Reapers PROVE ReaperFits(u, gen)
  BY <1>2, <1>4 DEF BInv, ReaperFits, Follows
<1>5. QED
  BY <1>3, <1>4 DEF TaskFits

\* A loader's step that leaves the keys alone.
LEMMA LoaderFits ==
  ASSUME BInv, IInv', NEW a \in Tasks, task[a].pc \in LoaderPcs,
         NEW u, Follows(task[a], u), SeedFits(u, row), Set(a, u),
         UNCHANGED <<redis, row>>, late' = late
  PROVE  BInv'
BY FollowsFits, OwnStep

LEMMA LoaderGoes ==
  ASSUME BInv, IInv', NEW a \in Tasks, task[a].pc \in LoaderPcs,
         NEW pc \in LoaderPcs \cup {task[a].ret}, pc # "seed",
         NEW snap, NEW u, Set(a, u),
         u = [task[a] EXCEPT !.pc = pc] \/ u = Moved(task[a], pc, snap),
         UNCHANGED <<redis, row>>, late' = late
  PROVE  BInv'
<1>1. RoleOK(a, task[a])
  BY LoaderFacts DEF BInv
<1>2. Follows(task[a], u) /\ u.pc = pc
  BY <1>1, MovedFollows
<1>3. SeedFits(u, row)
  BY <1>2 DEF SeedFits
<1>4. QED
  BY <1>2, <1>3, LoaderFits

\* A seed changes no record, and a balance only where there was none.
Seeds(u) ==
  /\ bal[u] = Nil
  /\ bal' = [bal EXCEPT ![u] = StoredBalance(u)]
  /\ UNCHANGED <<gen, topup, row>>

LEMMA SeedIsRow ==
  ASSUME BInv, NEW a \in Tasks, Seed(a)
  PROVE  /\ task[a].user_id \in Users
         /\ gen' = gen /\ row' = row
         /\ UNCHANGED <<bal, gen, topup>> \/ Seeds(task[a].user_id)
<1>1. /\ task[a].pc = "seed" /\ task[a].pc \in LoaderPcs /\ task[a].user_id \in Users
  BY LoaderFacts DEF BInv, Seed, At, LoaderPcs
<1>2. task[a].snap = StoredBalance(task[a].user_id)
  BY <1>1 DEF BInv, SeedFits, StoredBalance
<1>3. QED
  BY <1>1, <1>2 DEF Seed, SEED_IF_ABSENT, Seeds

LEMMA SeedFitsStep ==
  ASSUME BInv, IInv', NEW a \in Tasks, Seed(a)
  PROVE  BInv'
<1> DEFINE u == Moved(task[a], "release", Nil)
<1>1. /\ task[a].pc \in LoaderPcs /\ "release" \in LoaderPcs
      /\ RoleOK(a, task[a]) /\ KeysOK
  BY LoaderFacts, IInvParts DEF BInv, Parts, Seed, At, LoaderPcs
<1>2. Set(a, u)
  BY DEF Seed, Moved
<1> HIDE DEF u
<1>9. Follows(task[a], u) /\ u.pc = "release"
  BY <1>1, MovedFollows DEF u
<1>3. SeedFits(u, row)
  BY <1>9 DEF SeedFits
<1>4. Monotone /\ Kept /\ BornTokens /\ gen' = gen
  <2>1. gen' = gen
    BY SeedIsRow
  <2>2. Monotone
    BY <1>1, SeedIsRow DEF Monotone, KeysOK, Seeds
  <2>3. QED
    BY <2>1, <2>2 DEF Kept, BornTokens
<1>5. TaskFits(a, u, gen')
  BY <1>1, <1>3, <1>4, <1>9, FollowsFits
<1> DEFINE sent == {}
<1>6. /\ late' \subseteq late \cup sent
      /\ \A i \in sent : SentToken(i, task') /\ InvocationFits(i, gen', bal')
  BY DEF Seed, network
<1> HIDE DEF sent
<1>7. UNCHANGED row
  BY DEF Seed
<1>8. QED
  BY <1>2, <1>4, <1>5, <1>6, <1>7, FitStep

LEMMA EnsureFits ==
  ASSUME BInv, IInv', NEW a \in Tasks, Ensure(a)
  PROVE  BInv'
<1> DEFINE t == task[a]
<1>1. t.pc \in LoaderPcs /\ t.ret \notin LoaderPcs \cup {"idle", "inspect"}
  <2>1. t.pc \in LoaderPcs
    BY DEF Ensure, Load, TryAcquireLoadLock, LoadTimesOut, Recheck, LoadFromDb,
           Seed, ReleaseLoadLock, At, LoaderPcs
  <2>2. QED
    BY <2>1, LoaderFacts DEF BInv
<1>2. t.ret # "seed" /\ {"lock", "recheck", "load", "release", "select"} \subseteq LoaderPcs
  BY <1>1 DEF LoaderPcs
<1>3. CASE Load(a)
  <2> DEFINE pc == IF bal[t.user_id] # Nil THEN t.ret ELSE "lock"
             u == IF bal[t.user_id] # Nil THEN Moved(t, t.ret, bal[t.user_id])
                                          ELSE [t EXCEPT !.pc = "lock"]
  <2>1. Set(a, u) /\ UNCHANGED <<redis, row>> /\ late' = late
    BY <1>3 DEF Load, Goto, Moved, network
  <2>2. pc \in LoaderPcs \cup {t.ret} /\ pc # "seed"
    BY <1>1, <1>2
  <2>3. u = [t EXCEPT !.pc = pc] \/ u = Moved(t, pc, bal[t.user_id])
    OBVIOUS
  <2> HIDE DEF pc, u
  <2>4. QED
    BY <1>1, <2>1, <2>2, <2>3, LoaderGoes
<1>4. CASE TryAcquireLoadLock(a)
  <2> DEFINE pc == IF lock[t.user_id] = Nil THEN "recheck" ELSE "load"
             u == [t EXCEPT !.pc = pc]
  <2>1. Set(a, u) /\ UNCHANGED <<redis, row>> /\ late' = late
    BY <1>4 DEF TryAcquireLoadLock, Goto, network
  <2>2. pc \in LoaderPcs \cup {t.ret} /\ pc # "seed"
    BY DEF LoaderPcs
  <2>3. u = [t EXCEPT !.pc = pc]
    OBVIOUS
  <2> HIDE DEF pc, u
  <2>4. QED
    BY <1>1, <2>1, <2>2, <2>3, LoaderGoes
<1>5. CASE LoadTimesOut(a)
  BY <1>5, EndFits DEF LoadTimesOut, network
<1>6. CASE Recheck(a)
  <2> DEFINE pc == IF LoadedMeanwhile(t.user_id) THEN "release" ELSE "select"
             u == IF LoadedMeanwhile(t.user_id)
                    THEN Moved(t, "release", bal[t.user_id])
                    ELSE [t EXCEPT !.pc = "select"]
  <2>1. Set(a, u) /\ UNCHANGED <<redis, row>> /\ late' = late
    BY <1>6 DEF Recheck, Goto, Moved, network
  <2>2. pc \in LoaderPcs \cup {t.ret} /\ pc # "seed"
    BY DEF LoaderPcs
  <2>3. u = [t EXCEPT !.pc = pc] \/ u = Moved(t, pc, bal[t.user_id])
    OBVIOUS
  <2> HIDE DEF pc, u
  <2>4. QED
    BY <1>1, <2>1, <2>2, <2>3, LoaderGoes
<1>7. CASE LoadFromDb(a)
  <2> DEFINE snap == StoredBalance(t.user_id)
             u == Moved(t, "seed", snap)
  <2>1. RoleOK(a, t) /\ "seed" \in LoaderPcs
    BY <1>1, LoaderFacts DEF BInv, LoaderPcs
  <2>2. Set(a, u) /\ UNCHANGED <<redis, row>> /\ late' = late
    BY <1>7 DEF LoadFromDb, network, Moved
  <2>3. u.snap = snap /\ u.user_id = t.user_id
    <3>1. ASSUME NEW pcs, NEW works, t \in TaskRecords(pcs, works)
          PROVE  u.snap = snap /\ u.user_id = t.user_id
      BY <3>1 DEF TaskRecords, Moved
    <3>2. QED
      BY <2>1, <3>1, RolesAssumption DEF RoleOK
  <2> HIDE DEF snap, u
  <2>4. Follows(t, u) /\ u.pc = "seed"
    BY <2>1, MovedFollows DEF u
  <2>5. SeedFits(u, row)
    BY <2>3, <2>4 DEF SeedFits, snap, StoredBalance
  <2>6. QED
    BY <1>1, <2>2, <2>4, <2>5, LoaderFits
<1>8. CASE Seed(a)
  BY <1>8, SeedFitsStep
<1>9. CASE ReleaseLoadLock(a)
  <2> DEFINE pc == IF t.snap = Nil THEN "load" ELSE t.ret
             u == [t EXCEPT !.pc = pc]
  <2>1. Set(a, u) /\ UNCHANGED <<redis, row>> /\ late' = late
    BY <1>9 DEF ReleaseLoadLock, Goto, network
  <2>2. pc \in LoaderPcs \cup {t.ret} /\ pc # "seed"
    BY <1>1, <1>2 DEF LoaderPcs
  <2>3. u = [t EXCEPT !.pc = pc]
    OBVIOUS
  <2> HIDE DEF pc, u
  <2>4. QED
    BY <1>1, <2>1, <2>2, <2>3, LoaderGoes
<1>10. QED
  BY <1>3, <1>4, <1>5, <1>6, <1>7, <1>8, <1>9 DEF Ensure

-----------------------------------------------------------------------------
(***************************************************************************)
(* The steps of a call.                                                    *)
(***************************************************************************)
LEMMA CallRecordFields ==
  ASSUME NEW t \in CallRecords
  PROVE  t.attempt \in Nat /\ t.plan \in DebitPlans /\ t.ret \in CallPcs \cup {"idle"}
BY AttemptsAssumption DEF CallRecords, TaskRecords

LEMMA CallTaskFits ==
  ASSUME NEW c \in Calls, NEW t, NEW records, CallFits(t, records),
         TokenMoves(task[c], t), t.pc # "seed"
  PROVE  c \in Tasks /\ TaskFits(c, t, records)
BY RolesAssumption DEF TaskFits, SeedFits

\* A call in its own code is where its pc says.
LEMMA CallHere ==
  ASSUME BInv, NEW c \in Calls, task[c].pc \in CallPcs
  PROVE  /\ Where(task[c]) = task[c].pc
         /\ task[c] \in CallRecords /\ task[c].attempt \in Nat
         /\ CallFits(task[c], gen) /\ CallShape(task[c])
         /\ c \in Tasks /\ IInv
BY IInvTyped, CallFacts, CallWorks, CallRecordFields DEF BInv

LEMMA ExecuteGenerationFits ==
  ASSUME BInv, IInv', NEW c \in Calls, NEW request \in Requests,
         ExecuteGeneration(c, request)
  PROVE  BInv'
<1> DEFINE asked == [task[c] EXCEPT !.work = request]
           begun == [asked EXCEPT !.pc = "load", !.ret = "authorize",
                                  !.user_id = request.user_id,
                                  !.id = request.client_request_id]
<1>1. /\ c \in Tasks /\ task[c] \in CallRecords /\ task[c].pc = "idle"
  BY CallFacts DEF BInv, ExecuteGeneration, At
<1>2. late' = late /\ UNCHANGED <<redis, row>>
  BY DEF ExecuteGeneration, network
<1>3. CASE request.model_name \notin DOMAIN MODELS
  <2>1. Set(c, Ended(asked, Raised("InvalidInput")))
    BY <1>3 DEF ExecuteGeneration
  <2> HIDE DEF asked
  <2>2. QED
    BY <1>1, <1>2, <2>1, EndFits
<1>4. CASE request.model_name \in DOMAIN MODELS
  <2>1. begun.pc = "load" /\ begun.ret = "authorize"
    BY <1>1 DEF CallRecords, TaskRecords
  <2>2. Set(c, begun)
    BY <1>4 DEF ExecuteGeneration
  <2> HIDE DEF begun
  <2>3. Where(begun) = "authorize"
    BY <2>1 DEF Where, LoaderPcs
  <2>4. CallFits(begun, gen) /\ TokenMoves(task[c], begun)
    BY <1>1, <2>1, <2>3 DEF CallFits, TokenMoves, TokenFits
  <2>5. TaskFits(c, begun, gen)
    BY <2>1, <2>4, CallTaskFits
  <2>6. QED
    BY <1>1, <1>2, <2>2, <2>5, OwnStep
<1>5. QED
  BY <1>3, <1>4

LEMMA AuthorizeFits ==
  ASSUME BInv, IInv', NEW c \in Calls, AuthorizeSnapshot(c)
  PROVE  BInv'
<1> DEFINE auth == Authorize(Request(c), task[c].snap)
<1>1. task[c].pc = "authorize" /\ task[c].pc \in CallPcs
  BY DEF AuthorizeSnapshot, At, CallPcs
<1>2. /\ Where(task[c]) = "authorize" /\ c \in Tasks /\ IInv
      /\ task[c] \in CallRecords /\ task[c].attempt \in Nat /\ CallShape(task[c])
  BY <1>1, CallHere
<1>3. task[c].snap \in Snapshots
  BY <1>1, <1>2, CallFacts DEF CallShape
<1>4. auth.verdict = "authorized" =>
        /\ auth \in Authorizations
        /\ auth.debit_policy = "PAID_ONLY" => PaidOnly(auth.debit_plan)
  BY IInvTyped, <1>1, <1>2, <1>3, CallWorks, AuthorizeCovered DEF Snapshots
<1> HIDE DEF auth
<1>5. /\ UNCHANGED <<redis, row>> /\ late' = late
      /\ Set(c, CASE auth.verdict = "authorized" ->
                       [task[c] EXCEPT !.pc = "reserve", !.auth = auth,
                                       !.plan = auth.debit_plan, !.tries = 0]
                  [] auth.verdict \in AccessErrors ->
                       [task[c] EXCEPT !.pc = "denied", !.auth = auth]
                  [] OTHER -> Ended(task[c], Raised(auth.verdict)))
  BY DEF AuthorizeSnapshot, auth, network
<1>6. CASE auth.verdict = "authorized"
  <2> DEFINE t == [task[c] EXCEPT !.pc = "reserve", !.auth = auth,
                                  !.plan = auth.debit_plan, !.tries = 0]
  <2>1. auth.verdict \notin AccessErrors
    BY <1>6 DEF AccessErrors
  <2>2. Set(c, t)
    BY <1>5, <1>6, <2>1, Zenon
  <2>3. /\ t.pc = "reserve" /\ t.auth = auth /\ t.plan = auth.debit_plan
        /\ t.snap = task[c].snap /\ t.work = task[c].work
        /\ t.attempt = task[c].attempt
    BY <1>2 DEF CallRecords, TaskRecords
  <2> HIDE DEF t
  <2>4. Where(t) = "reserve"
    BY <2>3 DEF Where, LoaderPcs
  <2>5. TokenMoves(task[c], t)
    BY <1>1, <1>2, <2>3, <2>4 DEF TokenMoves, TokenFits, Attempts
  <2>6. t.auth = Authorize(t.work, t.snap)
    BY <2>3 DEF auth, Request
  <2>7. CallFits(t, gen)
    BY <1>4, <1>6, <2>3, <2>4, <2>6 DEF CallFits, PaidOnly
  <2>8. TaskFits(c, t, gen)
    BY <2>3, <2>5, <2>7, CallTaskFits
  <2>9. QED
    BY <1>2, <1>5, <2>2, <2>8, OwnStep
<1>7. CASE auth.verdict \in AccessErrors
  <2> DEFINE t == [task[c] EXCEPT !.pc = "denied", !.auth = auth]
  <2>1. auth.verdict # "authorized"
    BY <1>7 DEF AccessErrors
  <2>2. Set(c, t)
    BY <1>5, <1>7, <2>1, Zenon
  <2>3. t.pc = "denied" /\ t.attempt = task[c].attempt
    BY <1>2 DEF CallRecords, TaskRecords
  <2> HIDE DEF t
  <2>4. Where(t) = "denied"
    BY <2>3 DEF Where, LoaderPcs
  <2>5. TokenMoves(task[c], t) /\ CallFits(t, gen)
    BY <1>1, <1>2, <2>3, <2>4 DEF TokenMoves, TokenFits, Attempts, CallFits
  <2>6. TaskFits(c, t, gen)
    BY <2>3, <2>5, CallTaskFits
  <2>7. QED
    BY <1>2, <1>5, <2>2, <2>6, OwnStep
<1>8. CASE auth.verdict # "authorized" /\ auth.verdict \notin AccessErrors
  <2>1. Set(c, Ended(task[c], Raised(auth.verdict)))
    BY <1>5, <1>8, Zenon
  <2>2. QED
    BY <1>2, <1>5, <2>1, EndFits
<1>9. QED
  BY <1>6, <1>7, <1>8

\* What a call's token is.
LEMMA OwnToken ==
  ASSUME BInv, NEW c \in Calls, At(c, "reserve")
  PROVE  /\ ReserveInvocation(c).token = Token(c)
         /\ Token(c) \in Attempts /\ Token(c)[1] = c /\ Token(c)[2] = task[c].attempt
<1>1. task[c].attempt \in 0 .. RESERVE_MAX_ATTEMPTS
  BY CallFacts, Locals DEF BInv
<1>2. QED
  BY <1>1 DEF Token, ReserveInvocation, Attempts

\* The record a call finds with its own token is its own reservation.
LEMMA OwnRecordFits ==
  ASSUME BInv, NEW c \in Calls, At(c, "reserve"), OwnRecord(c)
  PROVE  Returns(task[c].id, task[c].user_id, task[c].plan, gen)
<1> DEFINE id == task[c].id
<1>1. id \in RequestIds /\ gen[id] # Nil /\ gen[id].reservation_token = Token(c)
  BY IInvTyped, CallWorks DEF BInv, At, CallPcs, OwnRecord
<1>2. TokenFits(Token(c), id, gen[id].user_id, gen[id].plan, task[c])
  BY <1>1, OwnToken DEF BInv, TokensFit
<1>3. QED
  BY <1>1, <1>2, OwnToken DEF TokenFits, At, Returns

LEMMA ReserveFitsStep ==
  ASSUME BInv, IInv', NEW c \in Calls, Reserve(c)
  PROVE  BInv'
<1> DEFINE inv == ReserveInvocation(c)
           t == [task[c] EXCEPT !.pc = "provider", !.snap = Nil,
                                !.attempt = 0, !.tries = 0]
<1>1. At(c, "reserve") /\ task[c].pc = "reserve" /\ task[c].pc \in CallPcs
  BY DEF Reserve, At, CallPcs
<1>2. /\ Where(task[c]) = "reserve" /\ c \in Tasks /\ IInv
      /\ task[c] \in CallRecords /\ CallFits(task[c], gen)
      /\ DOMAIN task = Tasks /\ KeysOK
  BY <1>1, CallHere, IInvParts DEF Parts, Others, TypedOthers
<1>3. /\ Fits(inv) /\ inv \in ReserveInvocations /\ inv.script = "RESERVE"
      /\ inv.id = task[c].id /\ inv.user_id = task[c].user_id
      /\ inv.plan = task[c].plan /\ inv.id \in RequestIds
  BY <1>1, ReserveFitsSender DEF ReserveInvocation, ReserveInvocations
<1>4. /\ Execute(inv) /\ Set(c, t) /\ UNCHANGED row /\ late' = late
      /\ \/ ReserveReply(inv) = "OK"
         \/ ReserveReply(inv) = "DUP" /\ OwnRecord(c)
  BY DEF Reserve, network
<1>5. /\ t.pc = "provider" /\ t.auth = task[c].auth /\ t.plan = task[c].plan
      /\ t.id = task[c].id /\ t.user_id = task[c].user_id
  BY <1>2 DEF CallRecords, TaskRecords
<1>6. inv.token = Token(c)
  BY <1>1, OwnToken
<1> HIDE DEF inv, t
<1>7. RESERVE(inv)
  BY <1>3, <1>4 DEF Execute
<1>8. Returns(t.id, t.user_id, t.plan, gen')
  <2>1. CASE ReserveReply(inv) = "OK"
    <3>1. gen' = [gen EXCEPT ![inv.id] = NewRecord(inv)]
      BY <1>7, <2>1 DEF RESERVE
    <3>2. NewRecord(inv) \in Records
      BY <1>3 DEF ReserveInvocations, NewRecord, Records, Statuses
    <3>3. NewRecord(inv).user_id = inv.user_id /\ NewRecord(inv).plan = inv.plan
      BY DEF NewRecord
    <3>4. gen'[inv.id] = NewRecord(inv) /\ NewRecord(inv) # Nil
      BY <1>2, <1>3, <3>1, <3>2, NilAssumption DEF KeysOK
    <3>5. QED
      BY <1>3, <1>5, <3>3, <3>4 DEF Returns
  <2>2. CASE ReserveReply(inv) = "DUP" /\ OwnRecord(c)
    <3>1. gen' = gen
      BY <1>7, <2>2 DEF RESERVE, redis
    <3>2. QED
      BY <1>1, <1>5, <2>2, <3>1, OwnRecordFits DEF Returns
  <2>3. QED
    BY <1>4, <2>1, <2>2
<1>9. Where(t) = "provider"
  BY <1>5 DEF Where, LoaderPcs
<1>10. CallFits(t, gen') /\ TokenMoves(task[c], t)
  <2>1. TokenMoves(task[c], t)
    BY <1>1, <1>2, <1>5, <1>9 DEF TokenMoves, TokenFits
  <2>2. QED
    BY <1>1, <1>2, <1>5, <1>8, <1>9, <2>1 DEF CallFits
<1>11. TaskFits(c, t, gen')
  BY <1>5, <1>10, CallTaskFits
<1>12. SentToken(inv, task')
  <2>1. task'[c] = t
    BY <1>2, <1>4 DEF Set
  <2>2. inv.token \in Attempts /\ inv.token[1] = c
    BY <1>1, <1>6, OwnToken
  <2>3. QED
    BY <1>5, <1>9, <2>1, <2>2 DEF SentToken, TokenFits
<1>13. QED
  BY <1>2, <1>3, <1>4, <1>11, <1>12, RunStep

LEMMA ReserveConflictFits ==
  ASSUME BInv, IInv', NEW c \in Calls, ReserveConflict(c)
  PROVE  BInv'
<1> DEFINE snap == bal[task[c].user_id]
           t == [task[c] EXCEPT !.pc = "authorize", !.snap = snap,
                                !.attempt = @ + 1]
<1>1. task[c].pc = "reserve" /\ task[c].pc \in CallPcs
  BY DEF ReserveConflict, At, CallPcs
<1>2. /\ Where(task[c]) = "reserve" /\ c \in Tasks
      /\ task[c] \in CallRecords /\ task[c].attempt \in Nat
  BY <1>1, CallHere
<1>3. Set(c, t) /\ UNCHANGED <<redis, row>> /\ late' = late
  BY DEF ReserveConflict, network
<1> HIDE DEF snap
<1>4. t.pc = "authorize" /\ t.attempt = task[c].attempt + 1
  BY <1>2 DEF CallRecords, TaskRecords
<1> HIDE DEF t
<1>5. Where(t) = "authorize"
  BY <1>4 DEF Where, LoaderPcs
<1>6. TokenMoves(task[c], t) /\ CallFits(t, gen)
  BY <1>1, <1>2, <1>4, <1>5 DEF TokenMoves, TokenFits, Attempts, CallFits
<1>7. TaskFits(c, t, gen)
  BY <1>4, <1>6, CallTaskFits
<1>8. QED
  BY <1>2, <1>3, <1>7, OwnStep

\* A call goes through ensure_loaded to begin again, or back to what it was ending.
LEMMA CallReloadFits ==
  ASSUME BInv, IInv', NEW c \in Calls, NEW ret,
         \/ ret = "authorize" /\ task[c].pc \in {"reserve", "wait"}
         \/ ret \in {"settle", "refund"} /\ task[c].pc = ret,
         Set(c, Reload(task[c], ret)), UNCHANGED <<redis, row>>, late' = late
  PROVE  BInv'
<1> DEFINE t == Reload(task[c], ret)
<1>1. task[c].pc \in CallPcs
  BY DEF CallPcs
<1>2. /\ Where(task[c]) = task[c].pc /\ c \in Tasks
      /\ task[c] \in CallRecords /\ task[c].attempt \in Nat
      /\ CallFits(task[c], gen)
  BY <1>1, CallHere
<1>3. /\ t.pc = "load" /\ t.ret = ret /\ t.attempt = task[c].attempt + 1
      /\ t.id = task[c].id /\ t.user_id = task[c].user_id /\ t.plan = task[c].plan
      /\ t.charged = task[c].charged /\ t.refund = task[c].refund
  BY <1>2 DEF CallRecords, TaskRecords, Reload
<1>4. Set(c, t)
  OBVIOUS
<1> HIDE DEF t
<1>5. Where(t) = ret
  BY <1>3 DEF Where, LoaderPcs
<1>6. TokenMoves(task[c], t)
  BY <1>2, <1>3, <1>5 DEF TokenMoves, TokenFits, Attempts
<1>7. CallFits(t, gen)
  BY <1>2, <1>3, <1>5 DEF CallFits
<1>8. TaskFits(c, t, gen)
  BY <1>3, <1>6, <1>7, CallTaskFits
<1>9. QED
  BY <1>2, <1>4, <1>8, OwnStep

LEMMA FollowFits ==
  ASSUME BInv, IInv', NEW c \in Calls, task[c].pc \in {"reserve", "denied", "wait"},
         NEW record \in Records,
         \/ Set(c, ResolveDuplicate(c, record))
         \/ Set(c, FollowRecord(task[c], record)),
         UNCHANGED <<redis, row>>, late' = late
  PROVE  BInv'
<1>1. /\ Where(task[c]) = task[c].pc /\ c \in Tasks
      /\ task[c] \in CallRecords /\ task[c].attempt \in Nat
  BY CallHere DEF CallPcs
<1>2. ASSUME NEW outcome, Set(c, Ended(task[c], outcome)) PROVE BInv'
  BY <1>1, <1>2, EndFits
<1>3. ASSUME Set(c, [task[c] EXCEPT !.pc = "wait"]) PROVE BInv'
  <2> DEFINE t == [task[c] EXCEPT !.pc = "wait"]
  <2>1. t.pc = "wait" /\ t.attempt = task[c].attempt
    BY <1>1 DEF CallRecords, TaskRecords
  <2>2. Set(c, t)
    BY <1>3
  <2> HIDE DEF t
  <2>3. Where(t) = "wait"
    BY <2>1 DEF Where, LoaderPcs
  <2>4. TokenMoves(task[c], t) /\ CallFits(t, gen)
    BY <1>1, <2>1, <2>3 DEF TokenMoves, TokenFits, CallFits
  <2>5. TaskFits(c, t, gen)
    BY <2>1, <2>4, CallTaskFits
  <2>6. QED
    BY <1>1, <2>2, <2>5, OwnStep
<1>4. ASSUME Set(c, FollowRecord(task[c], record)) PROVE BInv'
  <2>1. record.status = "done" \/ record.status = "failed" \/ record.status = "running"
    BY DEF Records, Statuses
  <2>2. \/ FollowRecord(task[c], record) = Ended(task[c], Returned(RedeliveredCost(record)))
        \/ FollowRecord(task[c], record) = Ended(task[c], Raised("GenerationFailed"))
        \/ FollowRecord(task[c], record) = [task[c] EXCEPT !.pc = "wait"]
    BY <2>1, Zenon DEF FollowRecord
  <2>3. QED
    BY <1>2, <1>3, <1>4, <2>2
<1>5. QED
  BY <1>2, <1>4 DEF ResolveDuplicate

LEMMA ProviderReturnsFits ==
  ASSUME BInv, IInv', NEW c \in Calls, NEW bill \in Bills, ProviderReturns(c, bill)
  PROVE  BInv'
<1> DEFINE plan == task[c].plan
           policy == task[c].auth.debit_policy
           charged == Charged(bill, plan)
           refund == SurplusRefund(plan, policy, charged)
           t == [task[c] EXCEPT !.pc = "settle", !.charged = charged,
                                !.refund = refund]
<1>1. task[c].pc = "provider" /\ task[c].pc \in CallPcs
  BY DEF ProviderReturns, At, CallPcs
<1>2. /\ Where(task[c]) = "provider" /\ c \in Tasks
      /\ task[c] \in CallRecords /\ CallFits(task[c], gen) /\ plan \in DebitPlans
  BY <1>1, CallHere, CallRecordFields
<1>3. /\ policy \in DebitPolicies
      /\ policy = "PAID_ONLY" => PaidOnly(plan)
      /\ Returns(task[c].id, task[c].user_id, plan, gen)
  BY <1>1, <1>2 DEF CallFits, PaidOnly, Authorizations
<1>4. charged \in 0 .. total_usd(plan)
  BY <1>2, ChargedInPlan, InputsAssumption
<1>5. Set(c, t) /\ UNCHANGED <<redis, row>> /\ late' = late
  BY DEF ProviderReturns, network
<1> HIDE DEF plan, policy, charged
<1>6. /\ refund \in DebitPlans /\ refund.free_requests = 0
      /\ \A b \in Buckets : refund[b] <= plan[b]
      /\ total_usd(refund) + charged = total_usd(plan)
  BY <1>2, <1>3, <1>4, RefundAndCharge
<1> HIDE DEF refund
<1>7. /\ t.pc = "settle" /\ t.plan = plan /\ t.charged = charged /\ t.refund = refund
      /\ t.id = task[c].id /\ t.user_id = task[c].user_id
  BY <1>2 DEF CallRecords, TaskRecords, plan
<1> HIDE DEF t
<1>8. refund \in L!Surpluses(plan)
  BY <1>2, <1>6 DEF L!Surpluses, DebitPlans, Buckets
<1>9. Where(t) = "settle"
  BY <1>7 DEF Where, LoaderPcs
<1>10. Splits(t.id, t.user_id, t.charged, t.refund, gen)
  BY <1>3, <1>6, <1>7, <1>8 DEF Splits, Returns
<1>11. CallFits(t, gen)
  BY <1>3, <1>7, <1>9, <1>10 DEF CallFits
<1>12. TokenMoves(task[c], t)
  BY <1>1, <1>7, <1>9 DEF TokenMoves, TokenFits
<1>13. TaskFits(c, t, gen)
  BY <1>7, <1>11, <1>12, CallTaskFits
<1>14. QED
  BY <1>2, <1>5, <1>13, OwnStep

LEMMA ProviderRaisesFits ==
  ASSUME BInv, IInv', NEW c \in Calls, NEW error \in {"GenerationFailed", "cancelled"},
         ProviderRaises(c, error)
  PROVE  BInv'
<1> DEFINE t == [task[c] EXCEPT !.pc = "refund", !.outcome = Raised(error)]
<1>1. task[c].pc = "provider" /\ task[c].pc \in CallPcs
  BY DEF ProviderRaises, At, CallPcs
<1>2. /\ Where(task[c]) = "provider" /\ c \in Tasks
      /\ task[c] \in CallRecords /\ CallFits(task[c], gen)
  BY <1>1, CallHere
<1>3. Set(c, t) /\ UNCHANGED <<redis, row>> /\ late' = late
  BY DEF ProviderRaises, Caught, network
<1>4. /\ t.pc = "refund" /\ t.plan = task[c].plan
      /\ t.id = task[c].id /\ t.user_id = task[c].user_id
  BY <1>2 DEF CallRecords, TaskRecords
<1> HIDE DEF t
<1>5. Where(t) = "refund"
  BY <1>4 DEF Where, LoaderPcs
<1>6. CallFits(t, gen) /\ TokenMoves(task[c], t)
  BY <1>1, <1>2, <1>4, <1>5 DEF CallFits, TokenMoves, TokenFits
<1>7. TaskFits(c, t, gen)
  BY <1>4, <1>6, CallTaskFits
<1>8. QED
  BY <1>2, <1>3, <1>7, OwnStep

\* A script was the task's last step, or its last before it begins again.
LEMMA LastScriptFits ==
  ASSUME BInv, IInv', NEW a \in Tasks, NEW outcome, Set(a, Ended(task[a], outcome)),
         NEW inv, Fits(inv), inv.script # "RESERVE", Execute(inv),
         UNCHANGED row, late' = late
  PROVE  BInv'
<1> DEFINE u == Ended(task[a], outcome)
<1>1. Set(a, u) /\ TaskFits(a, u, gen')
  BY EndedFits
<1> HIDE DEF u
<1>2. QED
  BY <1>1, RunStep

LEMMA RefundCallFits ==
  ASSUME BInv, IInv', NEW c \in Calls, RefundCall(c)
  PROVE  BInv'
<1> DEFINE inv == RefundInvocation(c)
<1>1. /\ At(c, "refund") /\ Execute(inv) /\ UNCHANGED row /\ late' = late
      /\ Set(c, Ended(task[c], task[c].outcome))
  BY DEF RefundCall, RefundReturns, network
<1>2. Fits(inv) /\ c \in Tasks /\ inv.script # "RESERVE"
  BY <1>1, RefundFitsSender, RolesAssumption DEF RefundInvocation
<1> HIDE DEF inv
<1>3. QED
  BY <1>1, <1>2, LastScriptFits

LEMMA SettleFitsStep ==
  ASSUME BInv, IInv', NEW c \in Calls, Settle(c)
  PROVE  BInv'
<1> DEFINE inv == SettleInvocation(c)
           outcome == Returned(inv.billed_cost_usd)
<1>1. /\ At(c, "settle") /\ Execute(inv) /\ UNCHANGED row /\ late' = late
      /\ Set(c, Ended(task[c], outcome))
  BY DEF Settle, network
<1>2. Fits(inv) /\ c \in Tasks /\ inv.script # "RESERVE"
  BY <1>1, SettleFitsSender, RolesAssumption DEF SettleInvocation
<1> HIDE DEF inv, outcome
<1>3. QED
  BY <1>1, <1>2, LastScriptFits

\* A script whose reply may be lost, with the token it carries.
LEMMA CallSent ==
  ASSUME BInv, NEW c \in Calls, CallSending(c), NEW t, Set(c, t),
         \/ t.pc = "done"
         \/ /\ t.pc = task[c].pc /\ t.attempt = task[c].attempt
            /\ t.id = task[c].id /\ t.user_id = task[c].user_id
            /\ t.plan = task[c].plan
  PROVE  SentToken(CallInvocation(c), task')
<1> DEFINE inv == CallInvocation(c)
<1>1. CASE At(c, "reserve")
  <2>1. ~At(c, "settle") /\ ~At(c, "refund")
    BY <1>1 DEF At
  <2>2. inv = ReserveInvocation(c)
    BY <1>1, <2>1, Zenon DEF CallInvocation
  <2>3. /\ inv.id = task[c].id /\ inv.user_id = task[c].user_id
        /\ inv.plan = task[c].plan /\ inv.token = Token(c)
    BY <1>1, <2>2, OwnToken DEF ReserveInvocation
  <2>4. task'[c] = t /\ task[c].attempt \in Nat /\ task[c].pc = "reserve"
    <3>1. DOMAIN task = Tasks /\ c \in Tasks
      BY IInvParts, RolesAssumption DEF BInv, Parts, Others, TypedOthers
    <3>2. QED
      BY <1>1, <3>1, CallHere DEF Set, At, CallPcs
  <2> HIDE DEF inv
  <2>5. Token(c) \in Attempts /\ Token(c)[1] = c /\ Token(c)[2] = task[c].attempt
    BY <1>1, OwnToken
  <2>6. Where(t) = t.pc
    BY <2>4 DEF Where, LoaderPcs
  <2>7. TokenFits(Token(c), inv.id, inv.user_id, inv.plan, t)
    BY <2>3, <2>4, <2>5, <2>6 DEF TokenFits
  <2>8. QED
    BY <2>3, <2>4, <2>5, <2>7 DEF SentToken, inv
<1>2. CASE ~At(c, "reserve")
  <2>1. inv = SettleInvocation(c) \/ inv = RefundInvocation(c)
    BY <1>2, Zenon DEF CallInvocation, CallSending, At
  <2>2. inv.script # "RESERVE"
    BY <2>1 DEF SettleInvocation, RefundInvocation
  <2>3. QED
    BY <2>2 DEF SentToken
<1>3. QED
  BY <1>1, <1>2

LEMMA CallLosesReplyFits ==
  ASSUME BInv, IInv', NEW c \in Calls, CallLosesReply(c)
  PROVE  BInv'
<1> DEFINE again == [task[c] EXCEPT !.tries = @ + 1]
           over == Ended(task[c], Raised("RedisError"))
           t == IF task[c].tries + 1 < RETRY_ATTEMPTS THEN again ELSE over
           inv == CallInvocation(c)
           sent == {inv}
<1>1. CallSending(c) /\ task[c].pc \in CallPcs
  BY DEF CallLosesReply, CallSending, CallPcs
<1>2. /\ Where(task[c]) = task[c].pc /\ c \in Tasks
      /\ task[c] \in CallRecords /\ CallFits(task[c], gen)
  BY <1>1, CallHere
<1>3. Set(c, t) /\ UNCHANGED <<redis, row>> /\ late' \subseteq late \cup sent
  BY DEF CallLosesReply, LoseReply, SendAndLose, redis
<1>4. Fits(inv)
  BY <1>1, CallSenderFits
<1> HIDE DEF inv
<1>5. over.pc = "done" /\ TaskFits(c, over, gen)
  BY <1>2, EndedFits DEF Ended, Blank
<1>6. /\ again.pc = task[c].pc /\ again.ret = task[c].ret
      /\ again.work = task[c].work /\ again.snap = task[c].snap
      /\ again.auth = task[c].auth /\ again.plan = task[c].plan
      /\ again.id = task[c].id /\ again.user_id = task[c].user_id
      /\ again.charged = task[c].charged /\ again.refund = task[c].refund
      /\ again.attempt = task[c].attempt
  BY <1>2 DEF CallRecords, TaskRecords
<1> HIDE DEF again, over
<1>7. TaskFits(c, again, gen)
  <2>1. Where(again) = Where(task[c])
    BY <1>6 DEF Where
  <2>2. CallFits(again, gen) /\ TokenMoves(task[c], again)
    BY <1>2, <1>6, <2>1 DEF CallFits, TokenMoves, TokenFits
  <2>3. again.pc # "seed"
    BY <1>1, <1>6 DEF CallPcs
  <2>4. QED
    BY <2>2, <2>3, CallTaskFits
<1>8. /\ TaskFits(c, t, gen)
      /\ \/ t.pc = "done"
         \/ /\ t.pc = task[c].pc /\ t.attempt = task[c].attempt
            /\ t.id = task[c].id /\ t.user_id = task[c].user_id
            /\ t.plan = task[c].plan
  BY <1>5, <1>6, <1>7
<1> HIDE DEF t
<1>9. SentToken(inv, task')
  BY <1>1, <1>3, <1>8, CallSent DEF inv
<1>10. \A i \in sent : Fits(i) /\ SentToken(i, task')
  BY <1>4, <1>9
<1> HIDE DEF sent
<1>11. QED
  BY <1>2, <1>3, <1>8, <1>10, SentStep

LEMMA CallAbandonedFits ==
  ASSUME BInv, IInv', NEW c \in Calls, CallAbandoned(c)
  PROVE  BInv'
<1> DEFINE sent == IF CallSending(c) THEN {CallInvocation(c)} ELSE {}
           u == Ended(task[c], Raised("aborted"))
<1>1. Abandon(c, sent) /\ Set(c, u) /\ u.pc = "done" /\ c \in Tasks
  BY RolesAssumption DEF CallAbandoned, Abandon, Ended, Blank
<1> HIDE DEF u
<1>2. CallSending(c) => Fits(CallInvocation(c)) /\ SentToken(CallInvocation(c), task')
  BY <1>1, CallSenderFits, CallSent
<1>3. \A inv \in sent : Fits(inv) /\ SentToken(inv, task')
  BY <1>2
<1> HIDE DEF sent
<1>4. QED
  BY <1>1, <1>3, AbandonFits

LEMMA CallStepFits ==
  ASSUME BInv, IInv', NEW c \in Calls, CallStep(c)
  PROVE  BInv'
<1>1. c \in Tasks
  BY RolesAssumption
<1>2. ASSUME NEW record \in Records, task[c].pc \in {"reserve", "denied", "wait"},
             \/ Set(c, ResolveDuplicate(c, record))
             \/ Set(c, FollowRecord(task[c], record)),
             UNCHANGED <<redis, row, network, lock, provider_calls>>
      PROVE  BInv'
  BY <1>2, FollowFits DEF network
<1>3. ASSUME task[c].pc \in CallPcs, gen[task[c].id] # Nil
      PROVE  gen[task[c].id] \in Records
  BY IInvTyped, <1>3, RecordFound DEF BInv
<1>4. CASE ReserveDuplicate(c)
  <2>1. task[c].pc = "reserve" /\ gen[task[c].id] # Nil
    <3>1. task[c].pc = "reserve" /\ ReserveReply(ReserveInvocation(c)) = "DUP"
      BY <1>4 DEF ReserveDuplicate, At
    <3>2. ReserveInvocation(c).id = task[c].id
      BY DEF ReserveInvocation
    <3>3. gen[ReserveInvocation(c).id] # Nil
      BY <3>1, SMT DEF ReserveReply
    <3>4. QED
      BY <3>1, <3>2, <3>3
  <2>2. QED
    BY <1>2, <1>3, <1>4, <2>1 DEF ReserveDuplicate, CallPcs
<1>5. CASE DeniedOrDuplicate(c)
  <2>1. task[c].pc = "denied" /\ late' = late /\ UNCHANGED <<redis, row>>
    BY <1>5 DEF DeniedOrDuplicate, At, network
  <2>2. CASE gen[task[c].id] = Nil
    BY <1>1, <1>5, <2>1, <2>2, EndFits DEF DeniedOrDuplicate
  <2>3. CASE gen[task[c].id] # Nil
    BY <1>2, <1>3, <1>5, <2>1, <2>3 DEF DeniedOrDuplicate, CallPcs
  <2>4. QED
    BY <2>2, <2>3
<1>6. CASE PollRecord(c)
  <2>1. task[c].pc = "wait" /\ late' = late /\ UNCHANGED <<redis, row>>
    BY <1>6 DEF PollRecord, At, network
  <2>2. CASE gen[task[c].id] = Nil
    BY <1>6, <2>1, <2>2, CallReloadFits DEF PollRecord
  <2>3. CASE gen[task[c].id] # Nil
    BY <1>2, <1>3, <1>6, <2>1, <2>3 DEF PollRecord, CallPcs
  <2>4. QED
    BY <2>2, <2>3
<1>7. CASE ReserveMissing(c)
  BY <1>7, CallReloadFits DEF ReserveMissing, At, network
<1>8. CASE RefundMissing(c)
  BY <1>8, CallReloadFits DEF RefundMissing, At, network
<1>9. CASE SettleMissing(c)
  BY <1>9, CallReloadFits DEF SettleMissing, At, network
<1>10. CASE WaitTimesOut(c) \/ SettleStale(c) \/ GiveUp(c)
  BY <1>1, <1>10, EndFits DEF WaitTimesOut, SettleStale, GiveUp, network
<1>11. CASE Ensure(c)
  BY <1>1, <1>11, EnsureFits
<1>12. CASE CallProgress(c)
  BY <1>4, <1>5, <1>6, <1>7, <1>8, <1>9, <1>10, <1>12, AuthorizeFits,
     ReserveFitsStep, ReserveConflictFits, ProviderReturnsFits, ProviderRaisesFits,
     RefundCallFits, SettleFitsStep DEF CallProgress
<1>13. QED
  BY <1>11, <1>12, ExecuteGenerationFits, CallLosesReplyFits, CallAbandonedFits
  DEF CallStep

-----------------------------------------------------------------------------
(***************************************************************************)
(* The steps of the others.                                                *)
(***************************************************************************)
LEMMA OtherTaskFits ==
  ASSUME NEW a \in TopUps \cup Readers \cup Reapers, NEW t, t.pc # "seed",
         NEW records, a \in Reapers => ReaperFits(t, records)
  PROVE  a \in Tasks /\ TaskFits(a, t, records)
BY RolesAssumption DEF TaskFits, SeedFits

\* Another try of a script keeps what it carries.
LEMMA TriesAgain ==
  ASSUME NEW a \in Tasks, NEW t, RoleOK(a, t)
  PROVE  LET again == [t EXCEPT !.tries = @ + 1]
         IN  /\ again.pc = t.pc /\ again.ret = t.ret /\ again.id = t.id
             /\ again.user_id = t.user_id /\ again.plan = t.plan
<1>1. ASSUME NEW pcs, NEW works, t \in TaskRecords(pcs, works)
      PROVE  LET again == [t EXCEPT !.tries = @ + 1]
             IN  /\ again.pc = t.pc /\ again.ret = t.ret /\ again.id = t.id
                 /\ again.user_id = t.user_id /\ again.plan = t.plan
  BY <1>1 DEF TaskRecords
<1>2. QED
  BY <1>1, RolesAssumption DEF RoleOK

LEMMA OtherLosesReply ==
  ASSUME BInv, IInv', NEW a \in TopUps \cup Reapers, task[a].pc # "seed",
         NEW inv, Fits(inv), inv.script # "RESERVE", LoseReply(a, inv)
  PROVE  BInv'
<1> DEFINE again == [task[a] EXCEPT !.tries = @ + 1]
           over == Ended(task[a], Raised("RedisError"))
           t == IF task[a].tries + 1 < RETRY_ATTEMPTS THEN again ELSE over
           sent == {inv}
<1>1. a \in Tasks /\ RoleOK(a, task[a])
  <2>1. a \in Tasks
    BY RolesAssumption
  <2>2. QED
    BY <2>1, IInvParts DEF BInv, Parts
<1>2. Set(a, t) /\ UNCHANGED <<redis, row>> /\ late' \subseteq late \cup sent
  BY DEF LoseReply, SendAndLose, redis
<1>3. TaskFits(a, over, gen)
  BY <1>1, EndedFits
<1>4. /\ again.pc = task[a].pc /\ again.ret = task[a].ret
      /\ again.id = task[a].id /\ again.user_id = task[a].user_id
      /\ again.plan = task[a].plan
  BY <1>1, TriesAgain
<1> HIDE DEF again, over
<1>5. a \in Reapers => ReaperFits(again, gen)
  BY <1>4 DEF BInv, ReaperFits, Where
<1>6. TaskFits(a, again, gen)
  BY <1>4, <1>5, OtherTaskFits
<1>7. TaskFits(a, t, gen)
  BY <1>3, <1>6
<1> HIDE DEF t
<1>8. \A i \in sent : Fits(i) /\ SentToken(i, task')
  BY DEF SentToken
<1> HIDE DEF sent
<1>9. QED
  BY <1>1, <1>2, <1>7, <1>8, SentStep

LEMMA OtherAbandoned ==
  ASSUME BInv, IInv', NEW a \in Tasks, NEW sent, Abandon(a, sent),
         \A inv \in sent : Fits(inv) /\ inv.script # "RESERVE"
  PROVE  BInv'
<1>1. \A inv \in sent : Fits(inv) /\ SentToken(inv, task')
  BY DEF SentToken
<1>2. QED
  BY <1>1, AbandonFits

LEMMA TopUpStepFits ==
  ASSUME BInv, IInv', NEW t \in TopUps, TopUpStep(t)
  PROVE  BInv'
<1>1. IInv /\ t \in Tasks /\ task[t] \in TaskRecords({"top_up"}, Commands)
  BY TopUpFacts DEF BInv
<1>2. At(t, "top_up") =>
        Fits(TopUpInvocation(t)) /\ TopUpInvocation(t).script = "TOP_UP"
  BY TopUpFitsSender
<1>3. ASSUME NEW command \in Commands, ApplyTopUp(t, command) PROVE BInv'
  <2> DEFINE asked == [task[t] EXCEPT !.work = command]
             begun == [asked EXCEPT !.pc = "top_up", !.id = command.operation_id,
                                    !.user_id = command.user_id]
             u == IF InvalidTopUp(command) THEN Ended(asked, Raised("InvalidInput"))
                                           ELSE begun
  <2>1. Set(t, u) /\ UNCHANGED <<redis, row>> /\ late' = late
    BY <1>3 DEF ApplyTopUp, network
  <2>2. u.pc \in {"done", "top_up"}
    BY <1>1 DEF TaskRecords, Ended, Blank
  <2> HIDE DEF u
  <2>3. t \notin Reapers
    BY RolesAssumption
  <2>4. TaskFits(t, u, gen)
    BY <2>2, <2>3, OtherTaskFits
  <2>5. QED
    BY <1>1, <2>1, <2>4, OwnStep
<1>4. CASE TopUp(t)
  <2> DEFINE inv == TopUpInvocation(t)
  <2>1. /\ Execute(inv) /\ Set(t, Ended(task[t], Returned(0)))
        /\ UNCHANGED row /\ late' = late
        /\ Fits(inv) /\ inv.script # "RESERVE"
    BY <1>2, <1>4 DEF TopUp, network
  <2> HIDE DEF inv
  <2>2. QED
    BY <1>1, <2>1, LastScriptFits
<1>5. CASE TopUpMissing(t)
  <2> DEFINE u == Reload(task[t], "top_up")
  <2>1. Set(t, u) /\ UNCHANGED <<redis, row>> /\ late' = late
    BY <1>5 DEF TopUpMissing, network
  <2>2. u.pc = "load"
    BY <1>1 DEF TaskRecords, Reload
  <2> HIDE DEF u
  <2>3. TaskFits(t, u, gen)
    BY <2>2, OtherTaskFits, RolesAssumption
  <2>4. QED
    BY <1>1, <2>1, <2>3, OwnStep
<1>6. CASE GiveUp(t)
  BY <1>1, <1>6, EndFits DEF GiveUp, network
<1>7. CASE TopUpLosesReply(t)
  <2>1. task[t].pc # "seed"
    BY <1>7 DEF TopUpLosesReply, At
  <2>2. QED
    BY <1>2, <1>7, <2>1, OtherLosesReply DEF TopUpLosesReply
<1>8. CASE TopUpAbandoned(t)
  <2> DEFINE sent == IF At(t, "top_up") THEN {TopUpInvocation(t)} ELSE {}
  <2>1. \A inv \in sent : Fits(inv) /\ inv.script # "RESERVE"
    BY <1>2
  <2>2. Abandon(t, sent)
    BY <1>8 DEF TopUpAbandoned
  <2> HIDE DEF sent
  <2>3. QED
    BY <1>1, <2>1, <2>2, OtherAbandoned
<1>9. CASE Ensure(t)
  BY <1>1, <1>9, EnsureFits
<1>10. QED
  BY <1>3, <1>4, <1>5, <1>6, <1>7, <1>8, <1>9 DEF TopUpStep, TopUpProgress

LEMMA ReaderStepFits ==
  ASSUME BInv, IInv', NEW t \in Readers, ReaderStep(t)
  PROVE  BInv'
<1>1. IInv /\ t \in Tasks /\ task[t] \in TaskRecords({"balance"}, Snapshots)
  BY ReaderFacts DEF BInv
<1>2. ASSUME NEW user \in Users, GetBalance(t, user) PROVE BInv'
  <2> DEFINE u == [task[t] EXCEPT !.pc = "load", !.ret = "balance", !.user_id = user]
  <2>1. Set(t, u) /\ UNCHANGED <<redis, row>> /\ late' = late
    BY <1>2 DEF GetBalance, network
  <2>2. u.pc = "load"
    BY <1>1 DEF TaskRecords
  <2> HIDE DEF u
  <2>3. TaskFits(t, u, gen)
    BY <2>2, OtherTaskFits, RolesAssumption
  <2>4. QED
    BY <1>1, <2>1, <2>3, OwnStep
<1>3. CASE ReturnBalance(t)
  <2> DEFINE asked == [task[t] EXCEPT !.work = task[t].snap]
  <2>1. /\ Set(t, Ended(asked, Returned(0)))
        /\ UNCHANGED <<redis, row>> /\ late' = late
    BY <1>3 DEF ReturnBalance, network
  <2> HIDE DEF asked
  <2>2. QED
    BY <1>1, <2>1, EndFits
<1>4. CASE Ensure(t)
  BY <1>1, <1>4, EnsureFits
<1>5. CASE Abandon(t, {})
  <2> DEFINE sent == {}
  <2>1. Abandon(t, sent) /\ \A inv \in sent : Fits(inv) /\ inv.script # "RESERVE"
    BY <1>5
  <2> HIDE DEF sent
  <2>2. QED
    BY <1>1, <2>1, OtherAbandoned
<1>6. QED
  BY <1>2, <1>3, <1>4, <1>5 DEF ReaderStep

\* A reaper that is between two reservations, or begins again, carries nothing.
LEMMA NextStaleFits ==
  ASSUME NEW r \in Reapers, NEW t, NEW records
  PROVE  /\ r \in Tasks
         /\ TaskFits(r, NextStale(t), records) /\ TaskFits(r, Blank, records)
<1> DEFINE next == [Blank EXCEPT !.pc = "inspect", !.work = t.work]
<1>1. next.pc = "inspect" /\ Blank.pc = "idle"
  BY DEF Blank
<1>2. NextStale(t) = next \/ NextStale(t) = Blank
  BY DEF NextStale
<1> HIDE DEF next
<1>3. ReaperFits(next, records) /\ ReaperFits(Blank, records)
  BY <1>1 DEF ReaperFits, Where, LoaderPcs
<1>4. QED
  BY <1>1, <1>2, <1>3, OtherTaskFits

LEMMA InspectStaleFits ==
  ASSUME BInv, IInv', NEW r \in Reapers, NEW id \in RequestIds, InspectStale(r, id)
  PROVE  BInv'
<1> DEFINE rest == [task[r] EXCEPT !.work = @ \ {id}, !.id = id]
           gone == [rest EXCEPT !.pc = "forget"]
           running == [rest EXCEPT !.pc = "refund", !.plan = gen[id].plan,
                                   !.user_id = gen[id].user_id]
           t == IF gen[id] = Nil \/ gen[id].status # "running" THEN gone ELSE running
<1>1. r \in Tasks /\ task[r] \in ReaperRecords
  BY ReaperFacts DEF BInv
<1>2. Set(r, t) /\ UNCHANGED <<redis, row>> /\ late' = late
  BY DEF InspectStale, network
<1>3. /\ gone.pc = "forget"
      /\ running.pc = "refund" /\ running.id = id
      /\ running.plan = gen[id].plan /\ running.user_id = gen[id].user_id
  BY <1>1 DEF ReaperRecords, TaskRecords
<1> HIDE DEF gone, running
<1>4. t.pc # "seed" /\ ReaperFits(t, gen)
  BY <1>3 DEF ReaperFits, Returns, Where, LoaderPcs
<1> HIDE DEF t
<1>5. TaskFits(r, t, gen)
  BY <1>4, OtherTaskFits
<1>6. QED
  BY <1>1, <1>2, <1>5, OwnStep

LEMMA ForgetFits ==
  ASSUME BInv, IInv', NEW r \in Reapers, Forget(r)
  PROVE  BInv'
<1> DEFINE t == NextStale(task[r])
<1>1. /\ Set(r, t) /\ UNCHANGED <<bal, gen, row>> /\ late' = late
  BY DEF Forget, ForgetInflight, network
<1>2. r \in Tasks /\ TaskFits(r, t, gen')
  BY NextStaleFits
<1> HIDE DEF t
<1>3. Monotone /\ Kept /\ BornTokens
  BY <1>1 DEF Monotone, Kept, BornTokens
<1> DEFINE sent == {}
<1>4. /\ late' \subseteq late \cup sent
      /\ \A i \in sent : SentToken(i, task') /\ InvocationFits(i, gen', bal')
  BY <1>1
<1> HIDE DEF sent
<1>5. QED
  BY <1>1, <1>2, <1>3, <1>4, FitStep

LEMMA ReaperStepFits ==
  ASSUME BInv, IInv', NEW r \in Reapers, ReaperStep(r)
  PROVE  BInv'
<1>1. IInv /\ r \in Tasks /\ task[r] \in ReaperRecords /\ ReaperFits(task[r], gen)
  BY ReaperFacts DEF BInv
<1>2. At(r, "refund") =>
        Fits(RefundInvocation(r)) /\ RefundInvocation(r).script # "RESERVE"
  BY RefundFitsSender DEF RefundInvocation
<1>3. ASSUME NEW batch, StaleInflight(r, batch) PROVE BInv'
  <2> DEFINE t == [task[r] EXCEPT !.pc = "inspect", !.work = batch]
  <2>1. Set(r, t) /\ UNCHANGED <<redis, row>> /\ late' = late
    BY <1>3 DEF StaleInflight, network
  <2>2. t.pc = "inspect"
    BY <1>1 DEF ReaperRecords, TaskRecords
  <2> HIDE DEF t
  <2>3. ReaperFits(t, gen)
    BY <2>2 DEF ReaperFits, Where, LoaderPcs
  <2>4. TaskFits(r, t, gen)
    BY <2>2, <2>3, OtherTaskFits
  <2>5. QED
    BY <1>1, <2>1, <2>4, OwnStep
<1>4. CASE RefundStale(r)
  <2> DEFINE inv == RefundInvocation(r)
             t == NextStale(task[r])
  <2>1. /\ Execute(inv) /\ Set(r, t) /\ UNCHANGED row /\ late' = late
        /\ Fits(inv) /\ inv.script # "RESERVE"
    BY <1>2, <1>4 DEF RefundStale, RefundReturns, network
  <2>2. TaskFits(r, t, gen')
    BY NextStaleFits
  <2> HIDE DEF inv, t
  <2>3. QED
    BY <1>1, <2>1, <2>2, RunStep
<1>5. CASE RefundMissing(r)
  <2> DEFINE t == Reload(task[r], "refund")
  <2>1. Set(r, t) /\ UNCHANGED <<redis, row>> /\ late' = late /\ task[r].pc = "refund"
    BY <1>5 DEF RefundMissing, network, At
  <2>2. /\ t.pc = "load" /\ t.ret = "refund" /\ t.id = task[r].id
        /\ t.user_id = task[r].user_id /\ t.plan = task[r].plan
    BY <1>1 DEF ReaperRecords, TaskRecords, Reload
  <2> HIDE DEF t
  <2>3. ReaperFits(t, gen)
    BY <1>1, <2>1, <2>2 DEF ReaperFits, Where, LoaderPcs
  <2>4. TaskFits(r, t, gen)
    BY <2>2, <2>3, OtherTaskFits
  <2>5. QED
    BY <1>1, <2>1, <2>4, OwnStep
<1>6. CASE GiveUp(r)
  BY <1>1, <1>6, EndFits DEF GiveUp, network
<1>7. CASE RestartReaper(r)
  <2>1. TaskFits(r, Blank, gen) /\ Set(r, Blank)
    BY <1>7, NextStaleFits DEF RestartReaper
  <2>2. QED
    BY <1>1, <1>7, <2>1, OwnStep DEF RestartReaper, network
<1>8. CASE ReaperLosesReply(r)
  <2>1. task[r].pc # "seed"
    BY <1>8 DEF ReaperLosesReply, At
  <2>2. QED
    BY <1>2, <1>8, <2>1, OtherLosesReply DEF ReaperLosesReply
<1>9. CASE ReaperAbandoned(r)
  <2> DEFINE sent == IF At(r, "refund") THEN {RefundInvocation(r)} ELSE {}
  <2>1. \A inv \in sent : Fits(inv) /\ inv.script # "RESERVE"
    BY <1>2
  <2>2. Abandon(r, sent)
    BY <1>9 DEF ReaperAbandoned
  <2> HIDE DEF sent
  <2>3. QED
    BY <1>1, <2>1, <2>2, OtherAbandoned
<1>10. CASE Ensure(r)
  BY <1>1, <1>10, EnsureFits
<1>11. QED
  BY <1>3, <1>4, <1>5, <1>6, <1>7, <1>8, <1>9, <1>10, InspectStaleFits, ForgetFits
  DEF ReaperStep, ReaperProgress

-----------------------------------------------------------------------------
(***************************************************************************)
(* BInv is an invariant.                                                   *)
(***************************************************************************)

\* A step nobody takes: a late script lands, a lock expires, nothing happens.
LEMMA NobodyFits ==
  ASSUME BInv, IInv', Monotone, Kept, BornTokens, UNCHANGED <<row, task>>,
         late' \subseteq late
  PROVE  BInv'
<1>1. KeysOK /\ KeysOK' /\ IInv
  <2>1. IInv /\ Parts
    BY IInvParts DEF BInv
  <2>2. Parts'
    BY IInvParts, PTL
  <2>3. QED
    BY <2>1, <2>2 DEF Parts
<1>2. \A c \in Calls : CallFits(task[c], gen')
  BY <1>1, EndingIds, CallFitsStill DEF BInv
<1>3. \A r \in Reapers : ReaperFits(task[r], gen')
  BY <1>1, EndingIds, ReaperFitsStill DEF BInv
<1>4. \A inv \in late' : InvocationFits(inv, gen', bal')
  BY <1>1, LateOneFits, FitsStill
<1>5. TokensFit'
  <2>1. ASSUME NEW id \in RequestIds, gen'[id] # Nil
        PROVE  LET token == gen'[id].reservation_token
               IN  /\ token \in Attempts
                   /\ TokenFits(token, id, gen'[id].user_id, gen'[id].plan,
                                task'[token[1]])
    <3>1. CASE gen[id] = Nil
      BY <2>1, <3>1 DEF BornTokens
    <3>2. CASE gen[id] # Nil
      BY <2>1, <3>2 DEF Kept, BInv, TokensFit
    <3>3. QED
      BY <3>1, <3>2
  <2>2. ASSUME NEW inv \in late', inv.script = "RESERVE"
        PROVE  /\ inv.token \in Attempts
               /\ TokenFits(inv.token, inv.id, inv.user_id, inv.plan,
                            task'[inv.token[1]])
    BY <2>2 DEF BInv, TokensFit
  <2>3. QED
    BY <2>1, <2>2 DEF TokensFit
<1>6. \A a \in Tasks : SeedFits(task'[a], row')
  BY DEF BInv
<1>7. QED
  BY <1>2, <1>3, <1>4, <1>5, <1>6 DEF BInv

LEMMA LandFits ==
  ASSUME BInv, IInv', NEW inv \in late, Land(inv), UNCHANGED task
  PROVE  BInv'
<1>1. KeysOK /\ Fits(inv)
  BY IInvParts, LateOneFits DEF BInv, Parts
<1>2. Execute(inv) /\ inv \in Invocations /\ (inv.script = "RESERVE" => Applicable(inv))
  BY <1>1 DEF Land, Fits
<1>3. Monotone /\ Kept /\ Born(inv)
  BY <1>1, <1>2, ExecuteStep, KeysParts, ExecuteKeeps
<1>4. BornTokens
  <2>1. SUFFICES ASSUME NEW id \in RequestIds, gen[id] = Nil, gen'[id] # Nil
                 PROVE  LET token == gen'[id].reservation_token
                        IN  /\ token \in Attempts
                            /\ TokenFits(token, id, gen'[id].user_id,
                                         gen'[id].plan, task'[token[1]])
    BY DEF BornTokens
  <2>2. inv.script = "RESERVE" /\ id = inv.id /\ gen'[id] = NewRecord(inv)
    BY <1>3, <2>1 DEF Born
  <2>3. /\ gen'[id].reservation_token = inv.token
        /\ gen'[id].user_id = inv.user_id
        /\ gen'[id].plan = inv.plan
    BY <2>2 DEF NewRecord
  <2>4. /\ inv.token \in Attempts
        /\ TokenFits(inv.token, inv.id, inv.user_id, inv.plan, task[inv.token[1]])
    BY <2>2 DEF BInv, TokensFit
  <2>5. QED
    BY <2>2, <2>3, <2>4
<1>5. UNCHANGED row /\ late' \subseteq late
  BY DEF Land
<1>6. QED
  BY <1>3, <1>4, <1>5, NobodyFits

LEMMA NothingFits ==
  ASSUME BInv, IInv', UNCHANGED <<redis, row, task, late>>
  PROVE  BInv'
<1>1. KeysOK
  BY IInvParts DEF BInv, Parts
<1>2. Monotone /\ Kept /\ BornTokens
  BY <1>1, KeepKeys DEF redis, Kept, BornTokens
<1>3. QED
  BY <1>2, NobodyFits

LEMMA InitFits == Init => BInv
<1> SUFFICES ASSUME Init PROVE BInv
  OBVIOUS
<1>1. IInv
  BY InitOK
<1>2. /\ \A a \in Tasks : task[a] = Blank
      /\ \A id \in RequestIds : gen[id] = Nil
      /\ late = {} /\ Blank.pc = "idle"
  BY DEF Init, StoreInit, Blank
<1>3. Calls \subseteq Tasks /\ Reapers \subseteq Tasks
  BY RolesAssumption
<1>4. Where(Blank) = "idle"
  BY <1>2 DEF Where, LoaderPcs
<1>5. CallFits(Blank, gen) /\ ReaperFits(Blank, gen) /\ SeedFits(Blank, row)
  BY <1>2, <1>4 DEF CallFits, ReaperFits, SeedFits
<1>6. TokensFit
  BY <1>2 DEF TokensFit
<1>7. QED
  BY <1>1, <1>2, <1>3, <1>5, <1>6 DEF BInv

LEMMA NextFits == BInv /\ [Next]_vars => BInv'
<1> SUFFICES ASSUME BInv, [Next]_vars PROVE BInv'
  OBVIOUS
<1>1. IInv'
  BY NextOK DEF BInv
<1>2. CASE UNCHANGED vars
  BY <1>1, <1>2, NothingFits DEF vars, network
<1>3. ASSUME NEW c \in Calls, CallStep(c) PROVE BInv'
  BY <1>1, <1>3, CallStepFits
<1>4. ASSUME NEW t \in TopUps, TopUpStep(t) PROVE BInv'
  BY <1>1, <1>4, TopUpStepFits
<1>5. ASSUME NEW t \in Readers, ReaderStep(t) PROVE BInv'
  BY <1>1, <1>5, ReaderStepFits
<1>6. ASSUME NEW r \in Reapers, ReaperStep(r) PROVE BInv'
  BY <1>1, <1>6, ReaperStepFits
<1>7. ASSUME NEW u \in Users, LockExpires(u) PROVE BInv'
  BY <1>1, <1>7, NothingFits DEF LockExpires
<1>8. ASSUME NEW inv \in late, Land(inv), UNCHANGED <<task, lock, provider_calls>>
      PROVE  BInv'
  BY <1>1, <1>8, LandFits
<1>9. QED
  BY <1>2, <1>3, <1>4, <1>5, <1>6, <1>7, <1>8 DEF Next, Quiet

\* BInv holds in every reachable state: whoever will end a reservation, a call,
\* a reaper or a script on its way, carries the amounts of that reservation.
THEOREM BInvInvariant == Spec => []BInv
BY InitFits, NextFits, PTL DEF Spec

-----------------------------------------------------------------------------
(***************************************************************************)
(* The ledger's own policy, on purses, is the service's, on balances.      *)
(***************************************************************************)
LEMMA SameOrder ==
  ASSUME NEW policy
  PROVE  L!ChargeOrder(policy) = ChargeOrder(policy)
BY DEF L!ChargeOrder, ChargeOrder

LEMMA SameWalk ==
  ASSUME NEW available, NEW order, NEW amount
  PROVE  L!Walk(available, order, amount) = Walk(available, order, amount)
<1>1. \A i : L!FirstBuckets(available, order, i) = FirstBuckets(available, order, i)
  BY DEF L!FirstBuckets, FirstBuckets, L!Has, Has
<1>2. \A i : L!Wanted(available, order, amount, i) = Wanted(available, order, amount, i)
  BY <1>1 DEF L!Wanted, Wanted, L!Greater, Greater
<1>3. \A i, b : L!TakenInRound(available, order, amount, i, b)
                  = TakenInRound(available, order, amount, i, b)
  BY <1>2 DEF L!TakenInRound, TakenInRound
<1>4. QED
  BY <1>2, <1>3 DEF L!Walk, Walk, L!Buckets, Buckets

LEMMA SameTerms ==
  ASSUME NEW request, NEW balance
  PROVE  L!Terms(request, balance) = Terms(request, balance)
BY DEF L!Terms, Terms

LEMMA SameAuthorize ==
  ASSUME NEW request, NEW balance
  PROVE  L!Authorize(request, balance) = Authorize(request, balance)
<1>1. L!BuildPlan(balance, Terms(request, balance))
        = BuildPlan(balance, Terms(request, balance))
  BY SameOrder, SameWalk DEF L!BuildPlan, BuildPlan
<1>2. L!InvalidBalance(balance) <=> InvalidBalance(balance)
  BY DEF L!InvalidBalance, InvalidBalance, L!Buckets, Buckets
<1>3. L!ConditionalFreeDenied(request, balance) <=> ConditionalFreeDenied(request, balance)
  BY DEF L!ConditionalFreeDenied, ConditionalFreeDenied
<1>4. \A terms : L!NoRequestsLeft(terms, balance) <=> NoRequestsLeft(terms, balance)
  BY DEF L!NoRequestsLeft, NoRequestsLeft
<1> DEFINE terms == Terms(request, balance)
           walk == BuildPlan(balance, terms)
<1>5. L!PlanOf(walk.used, terms.free_requests) = PlanOf(walk.used, terms.free_requests)
  BY DEF L!PlanOf, PlanOf
<1>6. L!Terms(request, balance) = terms /\ L!BuildPlan(balance, terms) = walk
  BY <1>1, SameTerms
<1> HIDE DEF terms, walk
<1>7. QED
  BY <1>2, <1>3, <1>4, <1>5, <1>6
  DEF L!Authorize, Authorize, L!Refused, Refused, terms, walk

\* The version of a balance is nothing to the policy.
LEMMA PurseWalk ==
  ASSUME NEW balance, NEW policy, NEW amount
  PROVE  Walk(PurseOf(balance), ChargeOrder(policy), amount)
           = Walk(balance, ChargeOrder(policy), amount)
<1> DEFINE p == PurseOf(balance)
           order == ChargeOrder(policy)
<1>1. p.free_usd = balance.free_usd /\ p.bonus_usd = balance.bonus_usd
      /\ p.paid_usd = balance.paid_usd
  BY DEF PurseOf
<1>2. \A i \in DOMAIN order : order[i] \in Buckets
  <2>1. \/ order = <<"paid_usd">>
        \/ order = <<"paid_usd", "free_usd", "bonus_usd">>
        \/ order = <<"free_usd", "bonus_usd", "paid_usd">>
    BY Zenon DEF ChargeOrder
  <2> HIDE DEF order
  <2>2. QED
    BY <2>1 DEF Buckets
<1> HIDE DEF p, order
<1>3. \A i : Has(p, order, i) = Has(balance, order, i)
  BY <1>1, <1>2 DEF Has, Buckets
<1>4. \A i : FirstBuckets(p, order, i) = FirstBuckets(balance, order, i)
  BY <1>3 DEF FirstBuckets
<1>5. \A i : Wanted(p, order, amount, i) = Wanted(balance, order, amount, i)
  BY <1>4 DEF Wanted
<1>6. \A i, b : TakenInRound(p, order, amount, i, b)
                  = TakenInRound(balance, order, amount, i, b)
  BY <1>5 DEF TakenInRound
<1>7. QED
  BY <1>5, <1>6 DEF Walk, p, order

LEMMA PurseAuthorize ==
  ASSUME NEW request, NEW balance
  PROVE  Authorize(request, PurseOf(balance)) = Authorize(request, balance)
<1> DEFINE p == PurseOf(balance)
<1>1. p.free_usd = balance.free_usd /\ p.bonus_usd = balance.bonus_usd
      /\ p.paid_usd = balance.paid_usd /\ p.free_requests = balance.free_requests
  BY DEF PurseOf
<1> HIDE DEF p
<1>2. Terms(request, p) = Terms(request, balance)
  BY <1>1 DEF Terms
<1>3. \A terms : BuildPlan(p, terms) = BuildPlan(balance, terms)
  BY PurseWalk DEF BuildPlan, p
<1>4. InvalidBalance(p) <=> InvalidBalance(balance)
  BY <1>1 DEF InvalidBalance, Buckets
<1>5. ConditionalFreeDenied(request, p) <=> ConditionalFreeDenied(request, balance)
  BY <1>1 DEF ConditionalFreeDenied
<1>6. \A terms : NoRequestsLeft(terms, p) <=> NoRequestsLeft(terms, balance)
  BY <1>1 DEF NoRequestsLeft
<1> DEFINE terms == Terms(request, balance)
           walk == BuildPlan(balance, terms)
<1>7. Terms(request, p) = terms /\ BuildPlan(p, terms) = walk
  BY <1>2, <1>3
<1> HIDE DEF terms, walk
<1>8. QED
  BY <1>4, <1>5, <1>6, <1>7 DEF Authorize, terms, walk, p

-----------------------------------------------------------------------------
(***************************************************************************)
(* What a step does to the money: nothing, a script that fits, or a seed.  *)
(***************************************************************************)
Moves ==
  \/ UNCHANGED <<bal, gen, topup>>
  \/ \E inv \in Invocations : Fits(inv) /\ Execute(inv)
  \/ \E u \in Users : Seeds(u)

LEMMA RunMoves ==
  ASSUME NEW inv, Fits(inv), Execute(inv)
  PROVE  Moves
BY DEF Moves, Fits

LEMMA EnsureMoves ==
  ASSUME BInv, NEW a \in Tasks, Ensure(a)
  PROVE  Moves /\ row' = row
<1>1. CASE Seed(a)
  BY <1>1, SeedIsRow DEF Moves
<1>2. CASE ~Seed(a)
  BY <1>2 DEF Ensure, Load, TryAcquireLoadLock, LoadTimesOut, Recheck, LoadFromDb,
              ReleaseLoadLock, redis, Moves
<1>3. QED
  BY <1>1, <1>2

LEMMA RefundMoves ==
  ASSUME BInv, NEW a \in Calls \cup Reapers, NEW next, RefundReturns(a, next)
  PROVE  Moves /\ row' = row
BY RefundFitsSender, RunMoves DEF RefundReturns

LEMMA CallMovesMoney ==
  ASSUME BInv, NEW c \in Calls, CallStep(c)
  PROVE  Moves /\ row' = row
<1>1. CASE Ensure(c)
  BY <1>1, EnsureMoves, RolesAssumption
<1>2. CASE Reserve(c)
  BY <1>2, ReserveFitsSender, RunMoves DEF Reserve
<1>3. CASE Settle(c)
  BY <1>3, SettleFitsSender, RunMoves DEF Settle
<1>4. CASE RefundCall(c)
  BY <1>4, RefundMoves DEF RefundCall
<1>5. CASE CallProgress(c) /\ ~Reserve(c) /\ ~Settle(c) /\ ~RefundCall(c)
  BY <1>5 DEF CallProgress, AuthorizeSnapshot, ReserveConflict, ReserveMissing,
       ReserveDuplicate, DeniedOrDuplicate, PollRecord, WaitTimesOut,
       ProviderReturns, ProviderRaises, RefundMissing, SettleStale, SettleMissing,
       GiveUp, redis, Moves
<1>6. CASE \E request \in Requests : ExecuteGeneration(c, request)
  BY <1>6 DEF ExecuteGeneration, redis, Moves
<1>7. CASE CallLosesReply(c) \/ CallAbandoned(c)
  BY <1>7 DEF CallLosesReply, LoseReply, SendAndLose, CallAbandoned, Abandon,
              redis, Moves
<1>8. QED
  BY <1>1, <1>2, <1>3, <1>4, <1>5, <1>6, <1>7 DEF CallStep, CallProgress

LEMMA TopUpMovesMoney ==
  ASSUME BInv, NEW t \in TopUps, TopUpStep(t)
  PROVE  Moves /\ row' = row
<1>1. CASE Ensure(t)
  BY <1>1, EnsureMoves, RolesAssumption
<1>2. CASE TopUp(t)
  BY <1>2, TopUpFitsSender, RunMoves DEF TopUp
<1>3. CASE ~Ensure(t) /\ ~TopUp(t)
  BY <1>3 DEF TopUpStep, TopUpProgress, ApplyTopUp, TopUpMissing, GiveUp,
       TopUpLosesReply, LoseReply, SendAndLose, TopUpAbandoned, Abandon, redis, Moves
<1>4. QED
  BY <1>1, <1>2, <1>3

LEMMA ReaderMovesMoney ==
  ASSUME BInv, NEW t \in Readers, ReaderStep(t)
  PROVE  Moves /\ row' = row
<1>1. CASE Ensure(t)
  BY <1>1, EnsureMoves, RolesAssumption
<1>2. CASE ~Ensure(t)
  BY <1>2 DEF ReaderStep, GetBalance, ReturnBalance, Abandon, redis, Moves
<1>3. QED
  BY <1>1, <1>2

LEMMA ReaperMovesMoney ==
  ASSUME BInv, NEW r \in Reapers, ReaperStep(r)
  PROVE  Moves /\ row' = row
<1>1. CASE Ensure(r)
  BY <1>1, EnsureMoves, RolesAssumption
<1>2. CASE RefundStale(r)
  BY <1>2, RefundMoves DEF RefundStale
<1>3. CASE ~Ensure(r) /\ ~RefundStale(r)
  BY <1>3 DEF ReaperStep, ReaperProgress, StaleInflight, InspectStale, Forget,
       ForgetInflight, RefundMissing, GiveUp, RestartReaper, ReaperLosesReply,
       LoseReply, SendAndLose, ReaperAbandoned, Abandon, redis, Moves
<1>4. QED
  BY <1>1, <1>2, <1>3

LEMMA MoneyMoves ==
  ASSUME BInv, [Next]_vars
  PROVE  Moves /\ row' = row
<1>1. CASE UNCHANGED vars
  BY <1>1 DEF vars, redis, Moves
<1>2. ASSUME NEW u \in Users, LockExpires(u) PROVE Moves /\ row' = row
  BY <1>2 DEF LockExpires, redis, Moves
<1>3. ASSUME NEW inv \in late, Land(inv) PROVE Moves /\ row' = row
  BY <1>3, LateOneFits, RunMoves DEF Land
<1>4. QED
  BY <1>1, <1>2, <1>3, CallMovesMoney, TopUpMovesMoney, ReaderMovesMoney,
     ReaperMovesMoney DEF Next, Quiet

\* What a step does to the records.
LEMMA MovesRecords ==
  ASSUME BInv, Moves
  PROVE  Kept /\ (gen' = gen \/ \E inv \in Invocations :
                                 Fits(inv) /\ Execute(inv) /\ Born(inv))
<1>1. KeysOK
  BY IInvParts DEF BInv, Parts
<1>2. CASE gen' = gen
  BY <1>2 DEF Kept
<1>3. ASSUME NEW inv \in Invocations, Fits(inv), Execute(inv)
      PROVE  Kept /\ Born(inv)
  BY <1>1, <1>3, KeysParts, ExecuteKeeps
<1>4. QED
  BY <1>2, <1>3 DEF Moves, Seeds

\* The replies by which a script changes anything.
LEMMA ReserveOK ==
  ASSUME NEW inv, ReserveReply(inv) = "OK"
  PROVE  /\ gen[inv.id] = Nil /\ bal[inv.user_id] # Nil
         /\ bal[inv.user_id].version = inv.version
<1>1. gen[inv.id] = Nil
  BY Zenon DEF ReserveReply
<1>2. bal[inv.user_id] # Nil
  BY <1>1, SMT DEF ReserveReply
<1>3. QED
  BY <1>1, <1>2, SMT DEF ReserveReply

LEMMA TopUpOK ==
  ASSUME NEW inv, TopUpReply(inv) = "OK"
  PROVE  inv.id \notin topup /\ bal[inv.user_id] # Nil
<1>1. inv.id \notin topup
  BY Zenon DEF TopUpReply
<1>2. QED
  BY <1>1, SMT DEF TopUpReply

-----------------------------------------------------------------------------
(***************************************************************************)
(* What follows for the records and the balances.                          *)
(***************************************************************************)

\* A record that has ended stays as it ended, and keeps its plan (SETTLE and
\* REFUND change a running record only).
THEOREM EndsAreFinal == Spec => RecordsEndOnce
<1> DEFINE A == \A id \in RequestIds : gen[id] # Nil =>
                  /\ gen'[id] # Nil
                  /\ gen[id].status # "running" => gen'[id] = gen[id]
                  /\ gen'[id].plan = gen[id].plan
<1>1. BInv /\ [Next]_vars => A
  BY MoneyMoves, MovesRecords DEF Kept
<1>2. Spec => []BInv
  BY BInvInvariant
<1> HIDE DEF A
<1>3. Spec => [][A]_vars
  BY <1>1, <1>2, PTL DEF Spec
<1>4. QED
  BY <1>3 DEF A, RecordsEndOnce

\* A new record's plan is the plan the policy makes of the balance it was taken
\* from, for a request somebody sent: RESERVE compares nothing but versions.
LEMMA BornPoliced ==
  ASSUME BInv, [Next]_vars, NEW id \in RequestIds, gen[id] = Nil, gen'[id] # Nil
  PROVE  \E request \in Requests :
           /\ request.client_request_id = id
           /\ SamePayload(request, gen'[id])
           /\ LET auth == Authorize(request, bal[request.user_id])
              IN  /\ auth.verdict = "authorized"
                  /\ gen'[id].plan = auth.debit_plan
                  /\ gen'[id].authorized_cost_usd = auth.estimated_cost_usd
<1>1. PICK inv \in Invocations : Fits(inv) /\ Execute(inv) /\ Born(inv)
  BY MoneyMoves, MovesRecords
<1>2. inv.script = "RESERVE" /\ id = inv.id /\ gen'[id] = NewRecord(inv)
  BY <1>1 DEF Born
<1>3. ReserveReply(inv) = "OK"
  BY <1>1, <1>2 DEF Execute, RESERVE, redis
<1>4. bal[inv.user_id].version = inv.version
  BY <1>3, ReserveOK
<1>5. PICK request \in Requests :
        /\ request.client_request_id = inv.id
        /\ request.user_id = inv.user_id
        /\ SamePayload(request, NewRecord(inv))
        /\ LET auth == Authorize(request, bal[inv.user_id])
           IN  /\ auth.verdict = "authorized"
               /\ auth.debit_plan = inv.plan
               /\ auth.estimated_cost_usd = inv.authorized_cost_usd
  BY <1>1, <1>2, <1>4 DEF Fits, InvocationFits, ReserveFits
<1>6. /\ NewRecord(inv).plan = inv.plan
      /\ NewRecord(inv).authorized_cost_usd = inv.authorized_cost_usd
  BY DEF NewRecord
<1>7. QED
  BY <1>2, <1>5, <1>6

\* Every plan that is applied is the policy's (authorize, on the balance the
\* compare-and-set of RESERVE lets through).
THEOREM PlansPoliced == Spec => PlansArePoliced
<1> DEFINE A == \A id \in RequestIds : (gen[id] = Nil /\ gen'[id] # Nil) =>
                  \E request \in Requests :
                    /\ request.client_request_id = id
                    /\ SamePayload(request, gen'[id])
                    /\ LET auth == Authorize(request, bal[request.user_id])
                       IN  /\ auth.verdict = "authorized"
                           /\ gen'[id].plan = auth.debit_plan
                           /\ gen'[id].authorized_cost_usd = auth.estimated_cost_usd
<1>1. BInv /\ [Next]_vars => A
  BY BornPoliced
<1>2. Spec => []BInv
  BY BInvInvariant
<1> HIDE DEF A
<1>3. Spec => [][A]_vars
  BY <1>1, <1>2, PTL DEF Spec
<1>4. QED
  BY <1>3 DEF A, PlansArePoliced

\* A script moves the balance of its user only, and marks it.
LEMMA ScriptMarks ==
  ASSUME NEW inv, inv \in Invocations, Execute(inv), KeysOK,
         NEW u \in Users, bal'[u] # bal[u]
  PROVE  u = inv.user_id /\ u \in dirty'
<1>1. inv.script \in {"RESERVE", "SETTLE", "REFUND", "TOP_UP"}
  BY DEF Invocations, ReserveInvocations, SettleInvocations, RefundInvocations,
         TopUpInvocations
<1>2. CASE inv.script = "RESERVE"
  BY <1>2 DEF Execute, RESERVE, redis, KeysOK
<1>3. CASE inv.script = "SETTLE"
  BY <1>3 DEF Execute, SETTLE, redis, KeysOK
<1>4. CASE inv.script = "REFUND"
  BY <1>4 DEF Execute, REFUND, redis, KeysOK
<1>5. CASE inv.script = "TOP_UP"
  BY <1>5 DEF Execute, TOP_UP, redis, KeysOK
<1>6. QED
  BY <1>1, <1>2, <1>3, <1>4, <1>5

\* Whatever moves a balance moves its version up and marks the user dirty (the
\* HINCRBYs and SADDs of the four scripts; SEED_IF_ABSENT moves none).
THEOREM ChangesSeen == Spec => ChangesAreSeen
<1> DEFINE A == \A u \in Users : (bal[u] # Nil /\ bal'[u] # bal[u]) =>
                  bal'[u] # Nil /\ bal'[u].version > bal[u].version /\ u \in dirty'
<1>1. BInv /\ [Next]_vars => A
  <2> SUFFICES ASSUME BInv, [Next]_vars, NEW u \in Users,
                      bal[u] # Nil, bal'[u] # bal[u]
               PROVE  bal'[u] # Nil /\ bal'[u].version > bal[u].version /\ u \in dirty'
    OBVIOUS
  <2>1. KeysOK /\ KeysOK'
    <3>1. Parts
      BY IInvParts DEF BInv
    <3>2. IInv'
      BY NextOK DEF BInv
    <3>3. Parts'
      BY <3>2, IInvParts, PTL
    <3>4. QED
      BY <3>1, <3>3 DEF Parts
  <2>2. PICK inv \in Invocations : Fits(inv) /\ Execute(inv)
    BY <2>1, MoneyMoves DEF Moves, Seeds, KeysOK
  <2>3. Monotone
    BY <2>1, <2>2, ExecuteStep DEF Fits
  <2>4. bal[u].version \in Int /\ bal'[u].version \in Int
    BY <2>1, <2>3 DEF KeysOK, Snapshots, Monotone
  <2>5. bal'[u] # Nil /\ bal[u].version < bal'[u].version
    BY <2>3 DEF Monotone
  <2>6. QED
    BY <2>1, <2>2, <2>4, <2>5, ScriptMarks
<1>2. Spec => []BInv
  BY BInvInvariant
<1> HIDE DEF A
<1>3. Spec => [][A]_vars
  BY <1>1, <1>2, PTL DEF Spec
<1>4. QED
  BY <1>3 DEF A, ChangesAreSeen

\* No loader, however late, puts a row over a balance that is there
\* (SEED_IF_ABSENT).
THEOREM SeedsNeverOverwrite == Spec => SeedNeverOverwrites
<1>1. Spec => [][\A u \in Users : (bal[u] # Nil /\ bal'[u] # bal[u]) =>
                   bal'[u] # Nil /\ bal'[u].version > bal[u].version /\ u \in dirty'
                ]_vars
  BY ChangesSeen DEF ChangesAreSeen
<1> DEFINE A == \A u \in Users : (bal[u] # Nil /\ bal'[u] # bal[u]) =>
                  bal'[u] # Nil /\ bal'[u].version > bal[u].version /\ u \in dirty'
           B == \A u \in Users : (bal[u] # Nil /\ bal'[u] # bal[u]) =>
                  bal'[u] # Nil /\ bal'[u].version > bal[u].version
<1>2. [A]_vars => [B]_bal
  BY DEF vars, redis
<1>3. Spec => [][A]_vars
  BY <1>1
<1> HIDE DEF A, B
<1>4. Spec => [][B]_bal
  BY <1>2, <1>3, PTL
<1>5. QED
  BY <1>4 DEF B, SeedNeverOverwrites

-----------------------------------------------------------------------------
(***************************************************************************)
(* Loaders take turns.                                                     *)
(***************************************************************************)

\* No script and no fault puts a balance where there is none.
ColdStays == \A u \in Users : bal[u] = Nil => bal'[u] = Nil

LEMMA ScriptColdStays ==
  ASSUME KeysOK, NEW inv \in Invocations, Execute(inv)
  PROVE  ColdStays
<1>1. ASSUME NEW u, u \in Users => bal[u] # Nil, NEW b, bal' = [bal EXCEPT ![u] = b]
      PROVE  ColdStays
  BY <1>1 DEF ColdStays, KeysOK
<1>2. bal' = bal => ColdStays
  BY DEF ColdStays
<1>3. CASE inv \in ReserveInvocations
  <2>1. RESERVE(inv)
    BY <1>3 DEF Execute, ReserveInvocations
  <2>2. QED
    BY <1>1, <1>2, <2>1, ReserveOK DEF RESERVE, redis
<1>4. CASE inv \in SettleInvocations
  <2>1. SETTLE(inv) /\ inv.id \in RequestIds
    BY <1>4 DEF Execute, SettleInvocations
  <2>2. QED
    BY <1>1, <1>2, <2>1, KeysParts, EndsRunning DEF SETTLE, redis
<1>5. CASE inv \in RefundInvocations
  <2>1. REFUND(inv) /\ inv.id \in RequestIds
    BY <1>5 DEF Execute, RefundInvocations
  <2>2. QED
    BY <1>1, <1>2, <2>1, KeysParts, EndsRunning DEF REFUND, redis
<1>6. CASE inv \in TopUpInvocations
  <2>1. TOP_UP(inv)
    BY <1>6 DEF Execute, TopUpInvocations
  <2>2. QED
    BY <1>1, <1>2, <2>1, TopUpOK DEF TOP_UP, redis
<1>7. QED
  BY <1>3, <1>4, <1>5, <1>6 DEF Invocations

\* Only a moves, and not to a place under the lock.
Elsewhere(a) ==
  /\ \A b \in Tasks \ {a} : task'[b] = task[b]
  /\ task'[a].pc \notin UnderLock
  /\ lock' = lock
  /\ ColdStays
  /\ faults' = 0 => faults = 0

LEMMA ElsewhereTurns ==
  ASSUME IInv, LoadersInTurn, NEW a \in Tasks, Elsewhere(a)
  PROVE  LoadersInTurn'
<1>1. \A b \in Tasks : task[b].pc \in UnderLock => task[b].user_id \in Users
  BY LoaderFacts DEF UnderLock, LoaderPcs
<1>2. QED
  BY <1>1 DEF Elsewhere, LoadersInTurn, ColdStays, UnderLock

\* The kinds of step that go elsewhere.
LEMMA SetElsewhere ==
  ASSUME IInv, NEW a \in Tasks, NEW t, Set(a, t), t.pc \notin UnderLock,
         bal' = bal \/ ColdStays,
         lock' = lock, faults' = faults \/ faults' = faults + 1
  PROVE  Elsewhere(a)
<1>1. DOMAIN task = Tasks /\ faults \in Nat
  BY IInvParts, MaxFaultsAssumption DEF Parts, Others, TypedOthers
<1>2. QED
  BY <1>1 DEF Set, Elsewhere, ColdStays

LEMMA EndedElsewhere ==
  ASSUME NEW t, NEW o
  PROVE  Ended(t, o).pc \notin UnderLock
BY DEF Ended, Blank, UnderLock

LEMMA TaskHasPc ==
  ASSUME IInv, NEW a \in Tasks
  PROVE  "pc" \in DOMAIN task[a] /\ "user_id" \in DOMAIN task[a]
<1>1. RoleOK(a, task[a])
  BY IInvParts DEF Parts
<1>2. QED
  BY <1>1, RolesAssumption DEF RoleOK, TaskRecords

LEMMA ReloadElsewhere ==
  ASSUME IInv, NEW a \in Tasks, NEW ret
  PROVE  Reload(task[a], ret).pc \notin UnderLock
<1>1. "pc" \in DOMAIN task[a]
  BY TaskHasPc
<1>2. QED
  BY <1>1 DEF Reload, UnderLock

LEMMA LostElsewhere ==
  ASSUME IInv, NEW a \in Tasks, NEW inv, LoseReply(a, inv),
         task[a].pc \notin UnderLock
  PROVE  Elsewhere(a)
<1> DEFINE again == [task[a] EXCEPT !.tries = @ + 1]
<1>1. again.pc = task[a].pc
  BY TaskHasPc
<1>2. /\ Set(a, again) \/ Set(a, Ended(task[a], Raised("RedisError")))
      /\ bal' = bal /\ lock' = lock /\ faults' = faults + 1
  BY DEF LoseReply, SendAndLose, redis
<1> HIDE DEF again
<1>3. QED
  BY <1>1, <1>2, EndedElsewhere, SetElsewhere

LEMMA AbandonElsewhere ==
  ASSUME IInv, NEW a \in Tasks, NEW sent, Abandon(a, sent)
  PROVE  Elsewhere(a)
BY EndedElsewhere, SetElsewhere DEF Abandon, redis

\* What a task does outside ensure_loaded.
CallWorksOn(c) ==
  \/ \E request \in Requests : ExecuteGeneration(c, request)
  \/ CallProgress(c) \/ CallLosesReply(c) \/ CallAbandoned(c)

LEMMA CallElsewhere ==
  ASSUME IInv, NEW c \in Calls, CallWorksOn(c)
  PROVE  Elsewhere(c)
<1>1. c \in Tasks /\ KeysOK /\ task[c] \in CallRecords /\ "pc" \in DOMAIN task[c]
  BY CallFacts, TaskHasPc, IInvParts, RolesAssumption DEF Parts
<1>2. ASSUME NEW t, Set(c, t), t.pc \notin UnderLock, UNCHANGED <<redis, network, lock>>
      PROVE  Elsewhere(c)
  BY <1>1, <1>2, SetElsewhere DEF redis, network
<1>3. ASSUME NEW o, Set(c, Ended(task[c], o)), UNCHANGED <<redis, network, lock>>
      PROVE  Elsewhere(c)
  BY <1>2, <1>3, EndedElsewhere
<1>4. ASSUME NEW t, Set(c, t), t.pc \notin UnderLock, NEW inv \in Invocations,
             Execute(inv), UNCHANGED <<network, lock>>
      PROVE  Elsewhere(c)
  BY <1>1, <1>4, ScriptColdStays, SetElsewhere DEF network
<1>5. ASSUME NEW request \in Requests, ExecuteGeneration(c, request)
      PROVE  Elsewhere(c)
  <2> DEFINE asked == [task[c] EXCEPT !.work = request]
             going == [asked EXCEPT !.pc = "load", !.ret = "authorize",
                                    !.user_id = request.user_id,
                                    !.id = request.client_request_id]
  <2>1. "pc" \in DOMAIN asked
    BY <1>1
  <2> HIDE DEF asked
  <2>2. going.pc \notin UnderLock
    BY <2>1 DEF UnderLock
  <2>3. Ended(asked, Raised("InvalidInput")).pc \notin UnderLock
    BY EndedElsewhere
  <2>4. UNCHANGED <<redis, network, lock>>
    BY <1>5 DEF ExecuteGeneration
  <2>5. CASE request.model_name \in DOMAIN MODELS
    <3>1. Set(c, going)
      BY <1>5, <2>5 DEF ExecuteGeneration, asked
    <3> HIDE DEF going
    <3>2. QED
      BY <1>2, <2>2, <2>4, <3>1
  <2>6. CASE request.model_name \notin DOMAIN MODELS
    <3>1. Set(c, Ended(asked, Raised("InvalidInput")))
      BY <1>5, <2>6 DEF ExecuteGeneration, asked
    <3>2. QED
      BY <1>2, <2>3, <2>4, <3>1
  <2>7. QED
    BY <2>5, <2>6
<1>6. CASE AuthorizeSnapshot(c)
  <2> DEFINE auth == Authorize(Request(c), task[c].snap)
             t1 == [task[c] EXCEPT !.pc = "reserve", !.auth = auth,
                                   !.plan = auth.debit_plan, !.tries = 0]
             t2 == [task[c] EXCEPT !.pc = "denied", !.auth = auth]
             t3 == Ended(task[c], Raised(auth.verdict))
  <2>1. t1.pc \notin UnderLock /\ t2.pc \notin UnderLock
    BY <1>1 DEF UnderLock
  <2>2. t3.pc \notin UnderLock
    BY EndedElsewhere
  <2>3. UNCHANGED <<redis, network, lock>>
    BY <1>6 DEF AuthorizeSnapshot
  <2>4. Set(c, CASE auth.verdict = "authorized" -> t1
                 [] auth.verdict \in AccessErrors -> t2
                 [] OTHER -> t3)
    BY <1>6 DEF AuthorizeSnapshot
  <2> HIDE DEF auth, t1, t2, t3
  <2>5. "authorized" \notin AccessErrors
    BY DEF AccessErrors
  <2>6. Set(c, t1) \/ Set(c, t2) \/ Set(c, t3)
    BY <2>4, <2>5
  <2>7. QED
    BY <1>2, <2>1, <2>2, <2>3, <2>6
<1>7. CASE Reserve(c)
  <2> DEFINE t == [task[c] EXCEPT !.pc = "provider", !.snap = Nil,
                                  !.attempt = 0, !.tries = 0]
  <2>1. t.pc \notin UnderLock
    BY <1>1 DEF UnderLock
  <2>2. /\ Set(c, t) /\ Execute(ReserveInvocation(c)) /\ At(c, "reserve")
        /\ UNCHANGED <<network, lock>>
    BY <1>7 DEF Reserve
  <2>3. ReserveInvocation(c) \in Invocations
    BY <2>2, ReserveInvocationOK, ReserveInvocationKind
  <2> HIDE DEF t
  <2>4. QED
    BY <1>4, <2>1, <2>2, <2>3
<1>8. CASE ReserveConflict(c)
  <2> DEFINE t == [task[c] EXCEPT !.pc = "authorize",
                                  !.snap = bal[task[c].user_id], !.attempt = @ + 1]
  <2>1. t.pc \notin UnderLock
    BY <1>1 DEF UnderLock
  <2>2. Set(c, t) /\ UNCHANGED <<redis, network, lock>>
    BY <1>8 DEF ReserveConflict
  <2> HIDE DEF t
  <2>3. QED
    BY <1>2, <2>1, <2>2
<1>9. CASE ReserveMissing(c) \/ SettleMissing(c) \/ RefundMissing(c)
  <2>1. PICK ret : Set(c, Reload(task[c], ret)) /\ UNCHANGED <<redis, network, lock>>
    BY <1>9 DEF ReserveMissing, SettleMissing, RefundMissing
  <2>2. QED
    BY <1>1, <1>2, <2>1, ReloadElsewhere
<1>10. ASSUME NEW record, NEW t, t = FollowRecord(task[c], record),
              record.status \in Statuses
       PROVE  t.pc \notin UnderLock
  <2>1. \/ \E o : t = Ended(task[c], o)
        \/ t = [task[c] EXCEPT !.pc = "wait"]
    BY <1>10 DEF FollowRecord, Statuses
  <2>2. QED
    BY <1>1, <2>1, EndedElsewhere DEF UnderLock
<1>11. ASSUME NEW record, record.status \in Statuses
       PROVE  ResolveDuplicate(c, record).pc \notin UnderLock
  BY <1>10, <1>11, EndedElsewhere DEF ResolveDuplicate
<1>12. ASSUME task[c].id \in RequestIds, gen[task[c].id] # Nil
       PROVE  gen[task[c].id].status \in Statuses
  BY <1>1, <1>12 DEF KeysOK, Records
<1>13. CASE ReserveDuplicate(c)
  <2>1. /\ Set(c, ResolveDuplicate(c, gen[task[c].id]))
        /\ UNCHANGED <<redis, network, lock>>
        /\ At(c, "reserve")
        /\ ReserveReply(ReserveInvocation(c)) = "DUP"
    BY <1>13 DEF ReserveDuplicate
  <2>2. task[c].id \in RequestIds /\ gen[task[c].id] # Nil
    BY IInvTyped, <2>1, DuplicateFound, CallWorks, InputsAssumption DEF At, CallPcs
  <2>3. QED
    BY <1>2, <1>11, <1>12, <2>1, <2>2
<1>14. CASE DeniedOrDuplicate(c)
  <2>1. /\ At(c, "denied")
        /\ UNCHANGED <<redis, network, lock>>
        /\ \/ \E o : Set(c, Ended(task[c], o))
           \/ /\ gen[task[c].id] # Nil
              /\ Set(c, ResolveDuplicate(c, gen[task[c].id]))
    BY <1>14 DEF DeniedOrDuplicate
  <2>2. task[c].id \in RequestIds
    BY IInvTyped, <2>1, CallWorks, InputsAssumption DEF At, CallPcs
  <2>3. QED
    BY <1>2, <1>3, <1>11, <1>12, <2>1, <2>2
<1>15. CASE PollRecord(c)
  <2>1. /\ At(c, "wait")
        /\ UNCHANGED <<redis, network, lock>>
        /\ \/ Set(c, Reload(task[c], "authorize"))
           \/ /\ gen[task[c].id] # Nil
              /\ Set(c, FollowRecord(task[c], gen[task[c].id]))
    BY <1>15 DEF PollRecord
  <2>2. task[c].id \in RequestIds
    BY IInvTyped, <2>1, CallWorks, InputsAssumption DEF At, CallPcs
  <2>3. QED
    BY <1>1, <1>2, <1>10, <1>12, <2>1, <2>2, ReloadElsewhere
<1>16. CASE WaitTimesOut(c) \/ SettleStale(c) \/ GiveUp(c)
  BY <1>3, <1>16 DEF WaitTimesOut, SettleStale, GiveUp
<1>17. ASSUME NEW bill \in Bills, ProviderReturns(c, bill) PROVE Elsewhere(c)
  <2> DEFINE charged == Charged(bill, task[c].plan)
             t == [task[c] EXCEPT
                     !.pc = "settle", !.charged = charged,
                     !.refund = SurplusRefund(task[c].plan,
                                              task[c].auth.debit_policy, charged)]
  <2>1. t.pc \notin UnderLock
    BY <1>1 DEF UnderLock
  <2>2. Set(c, t) /\ UNCHANGED <<redis, network, lock>>
    BY <1>17 DEF ProviderReturns
  <2> HIDE DEF t
  <2>3. QED
    BY <1>2, <2>1, <2>2
<1>18. ASSUME NEW error, ProviderRaises(c, error) PROVE Elsewhere(c)
  <2> DEFINE t == [task[c] EXCEPT !.pc = "refund", !.outcome = Raised(error)]
  <2>1. t.pc \notin UnderLock
    BY <1>1 DEF UnderLock
  <2>2. /\ Set(c, t) \/ Set(c, Ended(task[c], Raised(error)))
        /\ UNCHANGED <<redis, network, lock>>
    BY <1>18 DEF ProviderRaises
  <2> HIDE DEF t
  <2>3. QED
    BY <1>2, <1>3, <2>1, <2>2
<1>19. CASE RefundCall(c)
  <2>1. /\ Set(c, Ended(task[c], task[c].outcome)) /\ Execute(RefundInvocation(c))
        /\ UNCHANGED <<network, lock>> /\ At(c, "refund")
    BY <1>19 DEF RefundCall, RefundReturns
  <2>2. QED
    BY IInvTyped, <1>4, <2>1, CallRefundOK, EndedElsewhere
<1>20. CASE Settle(c)
  <2>1. /\ \E o : Set(c, Ended(task[c], o))
        /\ Execute(SettleInvocation(c))
        /\ UNCHANGED <<network, lock>> /\ At(c, "settle")
    BY <1>20 DEF Settle
  <2>2. QED
    BY IInvTyped, <1>4, <2>1, CallSettleOK, EndedElsewhere
<1>21. CASE CallLosesReply(c)
  BY <1>1, <1>21, LostElsewhere DEF CallLosesReply, CallSending, UnderLock
<1>22. CASE CallAbandoned(c)
  BY <1>1, <1>22, AbandonElsewhere DEF CallAbandoned
<1>23. QED
  BY <1>5, <1>6, <1>7, <1>8, <1>9, <1>13, <1>14, <1>15, <1>16, <1>17, <1>18,
     <1>19, <1>20, <1>21, <1>22 DEF CallWorksOn, CallProgress

TopUpWorksOn(t) ==
  \/ \E command \in Commands : ApplyTopUp(t, command)
  \/ TopUpProgress(t) \/ TopUpLosesReply(t) \/ TopUpAbandoned(t)

LEMMA TopUpElsewhere ==
  ASSUME IInv, NEW t \in TopUps, TopUpWorksOn(t)
  PROVE  Elsewhere(t)
<1>1. t \in Tasks /\ KeysOK /\ "pc" \in DOMAIN task[t]
  BY TopUpFacts, TaskHasPc, IInvParts DEF Parts
<1>2. ASSUME NEW command \in Commands, ApplyTopUp(t, command) PROVE Elsewhere(t)
  <2> DEFINE asked == [task[t] EXCEPT !.work = command]
             begun == [asked EXCEPT !.pc = "top_up", !.id = command.operation_id,
                                    !.user_id = command.user_id]
  <2>1. "pc" \in DOMAIN asked
    BY <1>1
  <2> HIDE DEF asked
  <2>2. begun.pc \notin UnderLock
    BY <2>1 DEF UnderLock
  <2>3. UNCHANGED <<redis, network, lock>>
    BY <1>2 DEF ApplyTopUp
  <2>4. CASE InvalidTopUp(command)
    <3>1. Set(t, Ended(asked, Raised("InvalidInput")))
      BY <1>2, <2>4 DEF ApplyTopUp, asked
    <3>2. QED
      BY <1>1, <2>3, <3>1, EndedElsewhere, SetElsewhere DEF redis, network
  <2>5. CASE ~InvalidTopUp(command)
    <3>1. Set(t, begun)
      BY <1>2, <2>5 DEF ApplyTopUp, asked
    <3> HIDE DEF begun
    <3>2. QED
      BY <1>1, <2>2, <2>3, <3>1, SetElsewhere DEF redis, network
  <2>6. QED
    BY <2>4, <2>5
<1>3. CASE TopUp(t)
  <2>1. /\ At(t, "top_up") /\ Execute(TopUpInvocation(t))
        /\ Set(t, Ended(task[t], Returned(0)))
        /\ UNCHANGED <<network, lock>>
    BY <1>3 DEF TopUp
  <2>2. ColdStays
    BY IInvTyped, <1>1, <2>1, TopUpInvocationOK, ScriptColdStays
  <2>3. QED
    BY <1>1, <2>1, <2>2, EndedElsewhere, SetElsewhere DEF network
<1>4. CASE TopUpMissing(t)
  <2>1. Set(t, Reload(task[t], "top_up")) /\ UNCHANGED <<redis, network, lock>>
    BY <1>4 DEF TopUpMissing
  <2>2. QED
    BY <1>1, <2>1, ReloadElsewhere, SetElsewhere DEF redis, network
<1>5. CASE GiveUp(t)
  <2>1. /\ Set(t, Ended(task[t], Raised("BalanceContention")))
        /\ UNCHANGED <<redis, network, lock>>
    BY <1>5 DEF GiveUp
  <2>2. QED
    BY <1>1, <2>1, EndedElsewhere, SetElsewhere DEF redis, network
<1>6. CASE TopUpLosesReply(t)
  BY <1>1, <1>6, LostElsewhere DEF TopUpLosesReply, At, UnderLock
<1>7. CASE TopUpAbandoned(t)
  BY <1>1, <1>7, AbandonElsewhere DEF TopUpAbandoned
<1>8. QED
  BY <1>2, <1>3, <1>4, <1>5, <1>6, <1>7 DEF TopUpWorksOn, TopUpProgress

ReaderWorksOn(t) ==
  \/ \E user \in Users : GetBalance(t, user)
  \/ ReturnBalance(t) \/ Abandon(t, {})

LEMMA ReaderElsewhere ==
  ASSUME IInv, NEW t \in Readers, ReaderWorksOn(t)
  PROVE  Elsewhere(t)
<1>1. t \in Tasks /\ "pc" \in DOMAIN task[t]
  BY ReaderFacts, TaskHasPc
<1>2. ASSUME NEW user \in Users, GetBalance(t, user) PROVE Elsewhere(t)
  <2> DEFINE u == [task[t] EXCEPT !.pc = "load", !.ret = "balance", !.user_id = user]
  <2>1. u.pc \notin UnderLock
    BY <1>1 DEF UnderLock
  <2>2. Set(t, u) /\ UNCHANGED <<redis, network, lock>>
    BY <1>2 DEF GetBalance
  <2> HIDE DEF u
  <2>3. QED
    BY <1>1, <2>1, <2>2, SetElsewhere DEF redis, network
<1>3. CASE ReturnBalance(t)
  <2> DEFINE u == [task[t] EXCEPT !.work = task[t].snap]
  <2>1. Set(t, Ended(u, Returned(0))) /\ UNCHANGED <<redis, network, lock>>
    BY <1>3 DEF ReturnBalance
  <2> HIDE DEF u
  <2>2. QED
    BY <1>1, <2>1, EndedElsewhere, SetElsewhere DEF redis, network
<1>4. CASE Abandon(t, {})
  BY <1>1, <1>4, AbandonElsewhere
<1>5. QED
  BY <1>2, <1>3, <1>4 DEF ReaderWorksOn

ReaperWorksOn(r) ==
  \/ \E batch \in SUBSET inflight : StaleInflight(r, batch)
  \/ ReaperProgress(r) \/ ReaperLosesReply(r) \/ ReaperAbandoned(r)

LEMMA ReaperElsewhere ==
  ASSUME IInv, NEW r \in Reapers, ReaperWorksOn(r)
  PROVE  Elsewhere(r)
<1>1. r \in Tasks /\ KeysOK /\ "pc" \in DOMAIN task[r]
  BY ReaperFacts, TaskHasPc
<1>2. NextStale(task[r]).pc \notin UnderLock /\ Blank.pc \notin UnderLock
  BY DEF NextStale, Blank, UnderLock
<1>3. ASSUME NEW t, Set(r, t), t.pc \notin UnderLock, UNCHANGED <<bal, network, lock>>
      PROVE  Elsewhere(r)
  BY <1>1, <1>3, SetElsewhere DEF network
<1>4. ASSUME NEW batch, StaleInflight(r, batch) PROVE Elsewhere(r)
  <2> DEFINE t == [task[r] EXCEPT !.pc = "inspect", !.work = batch]
  <2>1. t.pc \notin UnderLock
    BY <1>1 DEF UnderLock
  <2>2. Set(r, t) /\ UNCHANGED <<bal, network, lock>>
    BY <1>4 DEF StaleInflight, redis
  <2> HIDE DEF t
  <2>3. QED
    BY <1>3, <2>1, <2>2
<1>5. ASSUME NEW id, InspectStale(r, id) PROVE Elsewhere(r)
  <2> DEFINE rest == [task[r] EXCEPT !.work = @ \ {id}, !.id = id]
             gone == [rest EXCEPT !.pc = "forget"]
             running == [rest EXCEPT !.pc = "refund", !.plan = gen[id].plan,
                                     !.user_id = gen[id].user_id]
  <2>1. gone.pc \notin UnderLock /\ running.pc \notin UnderLock
    BY <1>1 DEF UnderLock
  <2>2. /\ Set(r, gone) \/ Set(r, running)
        /\ UNCHANGED <<bal, network, lock>>
    BY <1>5 DEF InspectStale, redis
  <2> HIDE DEF gone, running
  <2>3. QED
    BY <1>3, <2>1, <2>2
<1>6. CASE Forget(r)
  BY <1>2, <1>3, <1>6 DEF Forget, ForgetInflight
<1>7. CASE RefundStale(r)
  <2>1. /\ At(r, "refund") /\ Execute(RefundInvocation(r))
        /\ Set(r, NextStale(task[r])) /\ UNCHANGED <<network, lock>>
    BY <1>7 DEF RefundStale, RefundReturns
  <2>2. ColdStays
    BY IInvTyped, <1>1, <2>1, ReaperRefundOK, ScriptColdStays
  <2>3. QED
    BY <1>1, <1>2, <2>1, <2>2, SetElsewhere DEF network
<1>8. CASE RefundMissing(r)
  <2>1. Set(r, Reload(task[r], "refund")) /\ UNCHANGED <<bal, network, lock>>
    BY <1>8 DEF RefundMissing, redis
  <2>2. QED
    BY <1>1, <1>3, <2>1, ReloadElsewhere
<1>9. CASE GiveUp(r)
  BY <1>3, <1>9, EndedElsewhere DEF GiveUp, redis
<1>10. CASE RestartReaper(r)
  BY <1>2, <1>3, <1>10 DEF RestartReaper, redis
<1>11. CASE ReaperLosesReply(r)
  BY <1>1, <1>11, LostElsewhere DEF ReaperLosesReply, At, UnderLock
<1>12. CASE ReaperAbandoned(r)
  BY <1>1, <1>12, AbandonElsewhere DEF ReaperAbandoned
<1>13. QED
  BY <1>4, <1>5, <1>6, <1>7, <1>8, <1>9, <1>10, <1>11, <1>12 DEF ReaperWorksOn, ReaperProgress

\* In ensure_loaded a task touches no lock but its own and a free one, and no
\* balance under somebody else's.
TurnKept(a) ==
  /\ \A b \in Tasks \ {a} : task'[b] = task[b]
  /\ \A u \in Users : lock[u] \notin {a, Nil} => lock'[u] = lock[u] /\ bal'[u] = bal[u]
  /\ task'[a].pc \in UnderLock => lock'[task'[a].user_id] = a
  /\ task'[a].pc \in {"select", "seed"} => bal'[task'[a].user_id] = Nil

LEMMA KeptTurns ==
  ASSUME IInv, LoadersInTurn, NEW a \in Tasks, faults = 0 => TurnKept(a),
         faults' = faults
  PROVE  LoadersInTurn'
<1>1. \A b \in Tasks : task[b].pc \in UnderLock => task[b].user_id \in Users
  BY LoaderFacts DEF UnderLock, LoaderPcs
<1>2. Nil \notin Tasks
  BY RolesAssumption
<1>3. SUFFICES ASSUME faults = 0, NEW b \in Tasks
               PROVE  /\ task'[b].pc \in UnderLock => lock'[task'[b].user_id] = b
                      /\ task'[b].pc \in {"select", "seed"} => bal'[task'[b].user_id] = Nil
  BY DEF LoadersInTurn
<1>4. CASE b = a
  BY <1>3, <1>4 DEF TurnKept
<1>5. CASE b # a
  <2>1. task'[b] = task[b]
    BY <1>3, <1>5 DEF TurnKept
  <2>2. CASE task[b].pc \in UnderLock
    <3>1. lock[task[b].user_id] = b /\ task[b].user_id \in Users
      BY <1>1, <1>3, <2>2 DEF LoadersInTurn
    <3>2. lock'[task[b].user_id] = b /\ bal'[task[b].user_id] = bal[task[b].user_id]
      BY <1>2, <1>3, <1>5, <3>1 DEF TurnKept
    <3>3. QED
      BY <1>3, <2>1, <3>2 DEF LoadersInTurn
  <2>3. QED
    BY <2>1, <2>2 DEF UnderLock
<1>6. QED
  BY <1>4, <1>5

LEMMA EnsureTurns ==
  ASSUME IInv, LoadersInTurn, NEW a \in Tasks, Ensure(a)
  PROVE  LoadersInTurn'
<1> DEFINE u == task[a].user_id
<1>1. /\ task[a].pc \in LoaderPcs /\ DOMAIN task = Tasks
      /\ DOMAIN bal = Users /\ DOMAIN lock = Users
      /\ "pc" \in DOMAIN task[a] /\ "user_id" \in DOMAIN task[a]
  BY TaskHasPc, IInvParts
  DEF Ensure, Load, TryAcquireLoadLock, LoadTimesOut, Recheck, LoadFromDb, Seed,
      ReleaseLoadLock, At, LoaderPcs, Parts, Others, TypedOthers, KeysOK
<1>2. u \in Users /\ task[a].ret \notin UnderLock
  BY <1>1, LoaderFacts DEF LoaderPcs, UnderLock
<1> HIDE DEF u
<1>3. ASSUME NEW t, Set(a, t), t.pc \notin UnderLock, UNCHANGED <<redis, network, lock>>
      PROVE  LoadersInTurn'
  BY <1>3, SetElsewhere, ElsewhereTurns DEF redis, network
<1>4. ASSUME NEW t, Set(a, t), t.user_id = u, faults' = faults,
             faults = 0 =>
               /\ \A v \in Users : lock[v] \notin {a, Nil} =>
                                     lock'[v] = lock[v] /\ bal'[v] = bal[v]
               /\ t.pc \in UnderLock => lock'[u] = a
               /\ t.pc \in {"select", "seed"} => bal'[u] = Nil
      PROVE  LoadersInTurn'
  <2>1. task'[a] = t /\ \A b \in Tasks \ {a} : task'[b] = task[b]
    BY <1>1, <1>4 DEF Set
  <2>2. faults = 0 => TurnKept(a)
    BY <1>4, <2>1 DEF TurnKept
  <2>3. QED
    BY <1>4, <2>2, KeptTurns
<1>5. CASE Load(a)
  <2> DEFINE t1 == [task[a] EXCEPT !.pc = task[a].ret, !.snap = bal[task[a].user_id]]
             t2 == [task[a] EXCEPT !.pc = "lock"]
  <2>1. t1.pc \notin UnderLock /\ t2.pc \notin UnderLock
    BY <1>1, <1>2 DEF UnderLock
  <2>2. Set(a, t1) \/ Set(a, t2)
    BY <1>5 DEF Load, Goto
  <2>3. UNCHANGED <<redis, network, lock>>
    BY <1>5 DEF Load
  <2> HIDE DEF t1, t2
  <2>4. QED
    BY <1>3, <2>1, <2>2, <2>3
<1>6. CASE TryAcquireLoadLock(a)
  <2> DEFINE t1 == [task[a] EXCEPT !.pc = "recheck"]
             t2 == [task[a] EXCEPT !.pc = "load"]
  <2>1. t1.pc = "recheck" /\ t1.user_id = u /\ t2.pc \notin UnderLock
    BY <1>1 DEF UnderLock, u
  <2>2. UNCHANGED <<redis, network>>
    BY <1>6 DEF TryAcquireLoadLock
  <2>3. CASE lock[u] = Nil
    <3>1. Set(a, t1) /\ lock' = [lock EXCEPT ![u] = a]
      BY <1>6, <2>3 DEF TryAcquireLoadLock, Goto, u
    <3> HIDE DEF t1
    <3>2. \A v \in Users : lock[v] \notin {a, Nil} => lock'[v] = lock[v] /\ bal'[v] = bal[v]
      BY <2>2, <2>3, <3>1 DEF redis
    <3>3. lock'[u] = a
      BY <1>1, <1>2, <3>1
    <3>4. QED
      BY <1>4, <2>1, <2>2, <3>1, <3>2, <3>3 DEF network
  <2>4. CASE lock[u] # Nil
    <3>1. Set(a, t2) /\ lock' = lock
      BY <1>6, <2>4 DEF TryAcquireLoadLock, Goto, u
    <3> HIDE DEF t2
    <3>2. QED
      BY <1>3, <2>1, <2>2, <3>1
  <2>5. QED
    BY <2>3, <2>4
<1>7. CASE LoadTimesOut(a)
  BY <1>3, <1>7, EndedElsewhere DEF LoadTimesOut
<1>8. CASE Recheck(a)
  <2> DEFINE t1 == [task[a] EXCEPT !.pc = "release", !.snap = bal[task[a].user_id]]
             t2 == [task[a] EXCEPT !.pc = "select"]
  <2>1. /\ t1.pc = "release" /\ t1.user_id = u
        /\ t2.pc = "select" /\ t2.user_id = u
    BY <1>1 DEF u
  <2>2. UNCHANGED <<redis, network, lock>>
    BY <1>8 DEF Recheck
  <2>3. faults = 0 => lock[u] = a
    BY <1>8 DEF Recheck, At, LoadersInTurn, UnderLock, u
  <2>4. CASE bal[u] # Nil
    <3>1. Set(a, t1)
      BY <1>8, <2>4 DEF Recheck, LoadedMeanwhile, u
    <3> HIDE DEF t1
    <3>2. QED
      BY <1>4, <2>1, <2>2, <2>3, <3>1 DEF redis, network
  <2>5. CASE bal[u] = Nil
    <3>1. Set(a, t2)
      BY <1>8, <2>5 DEF Recheck, LoadedMeanwhile, Goto, u
    <3> HIDE DEF t2
    <3>2. QED
      BY <1>4, <2>1, <2>2, <2>3, <2>5, <3>1 DEF redis, network
  <2>6. QED
    BY <2>4, <2>5
<1>9. CASE LoadFromDb(a)
  <2> DEFINE t == [task[a] EXCEPT !.pc = "seed",
                                  !.snap = StoredBalance(task[a].user_id)]
  <2>1. t.pc = "seed" /\ t.user_id = u
    BY <1>1 DEF u
  <2>2. Set(a, t) /\ UNCHANGED <<redis, network, lock>>
    BY <1>9 DEF LoadFromDb
  <2> HIDE DEF t
  <2>3. faults = 0 => lock[u] = a /\ bal[u] = Nil
    BY <1>9 DEF LoadFromDb, At, LoadersInTurn, UnderLock, u
  <2>4. QED
    BY <1>4, <2>1, <2>2, <2>3 DEF redis, network
<1>10. CASE Seed(a)
  <2> DEFINE t == [task[a] EXCEPT !.pc = "release", !.snap = Nil]
  <2>1. t.pc = "release" /\ t.user_id = u
    BY <1>1 DEF u
  <2>2. Set(a, t) /\ UNCHANGED <<network, lock>>
    BY <1>10 DEF Seed
  <2> HIDE DEF t
  <2>3. faults = 0 => lock[u] = a
    BY <1>10 DEF Seed, At, LoadersInTurn, UnderLock, u
  <2>4. \A v \in Users : v # u => bal'[v] = bal[v]
    BY <1>1, <1>2, <1>10 DEF Seed, SEED_IF_ABSENT, u
  <2>5. QED
    BY <1>4, <2>1, <2>2, <2>3, <2>4 DEF network
<1>11. CASE ReleaseLoadLock(a)
  <2> DEFINE t == [task[a] EXCEPT !.pc = IF task[a].snap = Nil THEN "load"
                                                               ELSE task[a].ret]
  <2>1. t.pc \notin UnderLock /\ t.user_id = u
    BY <1>1, <1>2 DEF UnderLock, u
  <2>2. Set(a, t) /\ UNCHANGED <<redis, network>>
    BY <1>11 DEF ReleaseLoadLock, Goto
  <2> HIDE DEF t
  <2>3. \A v \in Users : lock[v] # a => lock'[v] = lock[v]
    BY <1>1, <1>11 DEF ReleaseLoadLock
  <2>4. t.pc \notin {"select", "seed"}
    BY <2>1 DEF UnderLock
  <2>5. QED
    BY <1>4, <2>1, <2>2, <2>3, <2>4 DEF redis, network
<1>12. QED
  BY <1>5, <1>6, <1>7, <1>8, <1>9, <1>10, <1>11 DEF Ensure

\* A lock expires under a living holder only by a fault.
LEMMA ExpiryTurns ==
  ASSUME IInv, LoadersInTurn, NEW u \in Users, LockExpires(u)
  PROVE  LoadersInTurn'
<1>1. /\ lock' = [lock EXCEPT ![u] = Nil] /\ task' = task /\ bal' = bal
      /\ faults \in Nat /\ DOMAIN lock = Users
  BY IInvParts, MaxFaultsAssumption DEF LockExpires, redis, Parts, Others, TypedOthers
<1>2. CASE \E a \in Tasks : Holding(a, u)
  BY <1>1, <1>2 DEF LockExpires, LoadersInTurn
<1>3. CASE ~\E a \in Tasks : Holding(a, u)
  <2>1. faults' = faults
    BY <1>3 DEF LockExpires
  <2>2. \A b \in Tasks : (faults = 0 /\ task[b].pc \in UnderLock) =>
          /\ lock[task[b].user_id] = b
          /\ task[b].user_id # u
    BY <1>3 DEF LoadersInTurn, Holding, UnderLock
  <2>3. \A b \in Tasks : task[b].pc \in UnderLock => task[b].user_id \in Users
    BY LoaderFacts DEF UnderLock, LoaderPcs
  <2>4. QED
    BY <1>1, <2>1, <2>2, <2>3 DEF LoadersInTurn
<1>4. QED
  BY <1>2, <1>3

\* Nobody moves.
LEMMA NobodyTurns ==
  ASSUME IInv, LoadersInTurn, ColdStays, UNCHANGED <<task, lock, faults>>
  PROVE  LoadersInTurn'
<1>1. \A b \in Tasks : task[b].pc \in UnderLock => task[b].user_id \in Users
  BY LoaderFacts DEF UnderLock, LoaderPcs
<1>2. QED
  BY <1>1 DEF LoadersInTurn, ColdStays, UnderLock

LEMMA InitTurns == Init => LoadersInTurn
BY DEF Init, LoadersInTurn, Blank, UnderLock

LEMMA NextTurns == IInv /\ LoadersInTurn /\ [Next]_vars => LoadersInTurn'
<1> SUFFICES ASSUME IInv, LoadersInTurn, [Next]_vars PROVE LoadersInTurn'
  OBVIOUS
<1>1. \A a \in Calls \cup TopUps \cup Readers \cup Reapers : a \in Tasks
  BY RolesAssumption
<1>2. ASSUME NEW a \in Tasks, Ensure(a) PROVE LoadersInTurn'
  BY <1>2, EnsureTurns
<1>3. ASSUME NEW c \in Calls, CallStep(c) PROVE LoadersInTurn'
  BY <1>1, <1>2, <1>3, CallElsewhere, ElsewhereTurns DEF CallStep, CallWorksOn
<1>4. ASSUME NEW t \in TopUps, TopUpStep(t) PROVE LoadersInTurn'
  BY <1>1, <1>2, <1>4, TopUpElsewhere, ElsewhereTurns DEF TopUpStep, TopUpWorksOn
<1>5. ASSUME NEW t \in Readers, ReaderStep(t) PROVE LoadersInTurn'
  BY <1>1, <1>2, <1>5, ReaderElsewhere, ElsewhereTurns DEF ReaderStep, ReaderWorksOn
<1>6. ASSUME NEW r \in Reapers, ReaperStep(r) PROVE LoadersInTurn'
  BY <1>1, <1>2, <1>6, ReaperElsewhere, ElsewhereTurns DEF ReaperStep, ReaperWorksOn
<1>7. ASSUME NEW u \in Users, LockExpires(u) PROVE LoadersInTurn'
  BY <1>7, ExpiryTurns
<1>8. ASSUME NEW inv \in late, Land(inv), UNCHANGED <<task, lock>> PROVE LoadersInTurn'
  <2>1. inv \in Invocations /\ KeysOK
    BY <1>8, IInvParts DEF Parts, Others, TypedOthers
  <2>2. ColdStays
    BY <1>8, <2>1, ScriptColdStays DEF Land
  <2>3. QED
    BY <1>8, <2>2, NobodyTurns DEF Land
<1>9. CASE UNCHANGED vars
  BY <1>9, NobodyTurns DEF vars, redis, network, ColdStays
<1>10. QED
  BY <1>3, <1>4, <1>5, <1>6, <1>7, <1>8, <1>9 DEF Next, Quiet

\* OneSelect: under a lock nobody outlived, PostgreSQL is asked by one loader at a
\* time and only for a balance Redis does not have (BalanceLoader.ensure_loaded).
THEOREM LoadsOnce == Spec => []OneSelect
<1>1. IInv /\ LoadersInTurn => OneSelect
  BY DEF LoadersInTurn, OneSelect, UnderLock
<1>2. QED
  BY <1>1, IInvInvariant, InitTurns, NextTurns, PTL DEF Spec

-----------------------------------------------------------------------------
(***************************************************************************)
(* The refinement.                                                         *)
(***************************************************************************)
ThePurse == [u \in Users |-> Purse(u)]
TheEntry == [id \in RequestIds |-> EntryOf(gen[id])]

\* A purse is counted in whole micros, and is the balance when there is one.
LEMMA Purses ==
  ASSUME KeysOK, Others, NEW u \in Users
  PROVE  /\ bal[u] # Nil => Purse(u) = PurseOf(bal[u]) /\ bal[u] \in Snapshots
         /\ \E b \in Snapshots : Purse(u) = PurseOf(b)
<1>1. bal[u] # Nil => bal[u] \in Snapshots
  BY DEF KeysOK
<1>2. StoredBalance(u) \in Snapshots
  BY DEF Others, TypedOthers, StoredBalance, Zero, Balances, Snapshots
<1>3. QED
  BY <1>1, <1>2 DEF Purse

LEMMA PurseMoves ==
  ASSUME KeysOK, row' = row, NEW u \in Users, NEW b, b # Nil,
         bal' = [bal EXCEPT ![u] = b]
  PROVE  ThePurse' = [ThePurse EXCEPT ![u] = PurseOf(b)]
<1>1. \A v \in Users : bal'[v] = IF v = u THEN b ELSE bal[v]
  BY DEF KeysOK
<1>2. ThePurse' = [v \in Users |-> PurseOf(IF bal'[v] = Nil THEN
                    (IF row'[v] = Nil THEN Zero ELSE row'[v]) ELSE bal'[v])]
  BY DEF ThePurse, Purse, StoredBalance
<1>3. ThePurse = [v \in Users |-> PurseOf(IF bal[v] = Nil THEN
                    (IF row[v] = Nil THEN Zero ELSE row[v]) ELSE bal[v])]
  BY DEF ThePurse, Purse, StoredBalance
<1>4. QED
  BY <1>1, <1>2, <1>3

LEMMA PurseStays ==
  ASSUME bal' = bal, row' = row
  PROVE  ThePurse' = ThePurse
BY DEF ThePurse, Purse, StoredBalance

LEMMA EntryMoves ==
  ASSUME KeysOK, NEW id \in RequestIds, NEW r, gen' = [gen EXCEPT ![id] = r]
  PROVE  TheEntry' = [TheEntry EXCEPT ![id] = EntryOf(r)]
<1>1. \A i \in RequestIds : gen'[i] = IF i = id THEN r ELSE gen[i]
  BY DEF KeysOK
<1>2. \A i \in RequestIds :
        EntryOf(gen'[i]) = IF i = id THEN EntryOf(r) ELSE EntryOf(gen[i])
  BY <1>1
<1>3. TheEntry' = [i \in RequestIds |-> EntryOf(gen'[i])]
  BY DEF TheEntry
<1>4. TheEntry' = [i \in RequestIds |->
                    IF i = id THEN EntryOf(r) ELSE EntryOf(gen[i])]
  BY <1>2, <1>3
<1>5. QED
  BY <1>4 DEF TheEntry

LEMMA EntryStays ==
  ASSUME gen' = gen
  PROVE  TheEntry' = TheEntry
BY DEF TheEntry

LEMMA EntryOfRecord ==
  ASSUME NEW r \in Records
  PROVE  /\ EntryOf(r) # Nil
         /\ EntryOf(r) = [state |-> StateOf(r.status), user_id |-> r.user_id,
                          plan |-> r.plan, charged |-> r.billed_cost_usd]
         /\ r.status = "running" => EntryOf(r).state = "held"
<1>1. r # Nil
  BY NilAssumption
<1>2. EntryOf(r) = [state |-> StateOf(r.status), user_id |-> r.user_id,
                    plan |-> r.plan, charged |-> r.billed_cost_usd]
  BY <1>1 DEF EntryOf
<1>3. /\ StateOf("running") = "held" /\ StateOf("done") = "charged"
      /\ StateOf("failed") = "returned"
  BY DEF StateOf
<1>4. EntryOf(r) \in L!Entries
  BY <1>2, <1>3 DEF Records, Statuses, L!Entries, L!DebitPlans, DebitPlans
<1>5. QED
  BY <1>2, <1>3, <1>4, EntriesAssumption

LEMMA States ==
  /\ StateOf("running") = "held" /\ StateOf("done") = "charged"
  /\ StateOf("failed") = "returned"
BY DEF StateOf

LEMMA CreditedPurse ==
  ASSUME NEW b \in Snapshots, NEW p \in DebitPlans
  PROVE  /\ PurseOf(Credited(b, p)) = L!Plus(PurseOf(b), p)
         /\ PurseOf(Debited(b, p)) = L!Minus(PurseOf(b), p)
         /\ Credited(b, p) # Nil /\ Debited(b, p) # Nil
<1>1. Credited(b, p) \in Snapshots /\ Debited(b, p) \in Snapshots
  BY DEF Credited, Debited, Negated, Snapshots, DebitPlans
<1>2. PurseOf(Credited(b, p)) = L!Plus(PurseOf(b), p)
  BY DEF PurseOf, Credited, L!Plus
<1>3. PurseOf(Debited(b, p)) = L!Minus(PurseOf(b), p)
  BY DEF PurseOf, Credited, Debited, Negated, L!Minus, Snapshots, DebitPlans
<1>4. QED
  BY <1>1, <1>2, <1>3, NilAssumption

\* A balance a script has credited or debited is the purse plus or minus the plan.
LEMMA PurseShifts ==
  ASSUME KeysOK, row' = row, NEW u \in Users, NEW p \in DebitPlans,
         bal[u] \in Snapshots, ThePurse[u] = PurseOf(bal[u])
  PROVE  /\ bal' = [bal EXCEPT ![u] = Credited(bal[u], p)]
            => ThePurse' = [ThePurse EXCEPT ![u] = L!Plus(ThePurse[u], p)]
         /\ bal' = [bal EXCEPT ![u] = Debited(bal[u], p)]
            => ThePurse' = [ThePurse EXCEPT ![u] = L!Minus(ThePurse[u], p)]
<1>1. ASSUME NEW b, b # Nil, NEW m, PurseOf(b) = m, bal' = [bal EXCEPT ![u] = b]
      PROVE  ThePurse' = [ThePurse EXCEPT ![u] = m]
  BY <1>1, PurseMoves
<1> DEFINE b1 == Credited(bal[u], p)
           b2 == Debited(bal[u], p)
           m1 == L!Plus(ThePurse[u], p)
           m2 == L!Minus(ThePurse[u], p)
<1>2. b1 # Nil /\ PurseOf(b1) = m1 /\ b2 # Nil /\ PurseOf(b2) = m2
  BY CreditedPurse
<1> HIDE DEF b1, b2, m1, m2
<1>3. bal' = [bal EXCEPT ![u] = b1] => ThePurse' = [ThePurse EXCEPT ![u] = m1]
  BY <1>1, <1>2
<1>4. bal' = [bal EXCEPT ![u] = b2] => ThePurse' = [ThePurse EXCEPT ![u] = m2]
  BY <1>1, <1>2
<1>5. QED
  BY <1>3, <1>4 DEF b1, b2, m1, m2

\* What a new reservation does is hold.
LEMMA ReserveHolds ==
  ASSUME KeysOK, Others, row' = row, NEW inv \in ReserveInvocations, Fits(inv),
         RESERVE(inv), ReserveReply(inv) = "OK"
  PROVE  \E request \in Requests :
           /\ L!Hold(request)
           /\ L!Authorize(request, ThePurse[request.user_id]).debit_plan
                \in DebitPlans
<1> DEFINE u == inv.user_id
           b == bal[u]
<1>1. /\ u \in Users /\ inv.id \in RequestIds /\ inv.plan \in DebitPlans
      /\ inv.script = "RESERVE"
  BY DEF ReserveInvocations
<1>2. gen[inv.id] = Nil /\ b # Nil /\ b.version = inv.version
  BY ReserveOK
<1>3. PICK request \in Requests :
        /\ request.client_request_id = inv.id
        /\ request.user_id = inv.user_id
        /\ LET auth == Authorize(request, b)
           IN  /\ auth.verdict = "authorized"
               /\ auth.debit_plan = inv.plan
  BY <1>1, <1>2 DEF Fits, InvocationFits, ReserveFits
<1>4. ThePurse[u] = PurseOf(b) /\ b \in Snapshots
  BY <1>1, <1>2, Purses DEF ThePurse
<1>5. L!Authorize(request, ThePurse[u]) = Authorize(request, b)
  BY <1>4, SameAuthorize, PurseAuthorize
<1>6. ThePurse' = [ThePurse EXCEPT ![u] = L!Minus(ThePurse[u], inv.plan)]
  <2>1. bal' = [bal EXCEPT ![u] = Debited(b, inv.plan)]
    BY DEF RESERVE
  <2>2. QED
    BY <1>1, <1>4, <2>1, PurseShifts
<1>7. NewRecord(inv) \in Records
  BY <1>1 DEF ReserveInvocations, NewRecord, Records, Statuses
<1>8. EntryOf(NewRecord(inv)) = L!Entry("held", u, inv.plan, 0)
  BY <1>7, EntryOfRecord, States DEF NewRecord, L!Entry
<1>9. TheEntry[inv.id] = Nil
  BY <1>1, <1>2 DEF TheEntry, EntryOf
<1>10. TheEntry' = [TheEntry EXCEPT ![inv.id] = L!Entry("held", u, inv.plan, 0)]
  <2>1. gen' = [gen EXCEPT ![inv.id] = NewRecord(inv)]
    BY DEF RESERVE
  <2>2. QED
    BY <1>1, <1>8, <2>1, EntryMoves
<1>11. topup' = topup
  BY DEF RESERVE
<1> HIDE DEF u, b
<1>12. L!Hold(request)
  BY <1>3, <1>5, <1>6, <1>9, <1>10, <1>11 DEF L!Hold, ThePurse, TheEntry, u
<1>13. L!Authorize(request, ThePurse[request.user_id]).debit_plan = inv.plan
  BY <1>3, <1>5 DEF u
<1>14. QED
  BY <1>1, <1>12, <1>13

\* The entry of a running record, and what ends it.
LEMMA RunningHeld ==
  ASSUME KeysOK, NEW id \in RequestIds, gen[id] # Nil, gen[id].status = "running"
  PROVE  /\ gen[id] \in Records /\ L!Held(id)
         /\ TheEntry[id] = [state |-> "held", user_id |-> gen[id].user_id,
                            plan |-> gen[id].plan,
                            charged |-> gen[id].billed_cost_usd]
<1>1. gen[id] \in Records
  BY DEF KeysOK
<1>2. TheEntry[id] = EntryOf(gen[id])
  BY DEF TheEntry
<1>3. TheEntry[id] # Nil /\ TheEntry[id].state = "held"
  BY <1>1, <1>2, EntryOfRecord
<1>4. L!Held(id)
  BY <1>3 DEF L!Held, TheEntry
<1>5. QED
  BY <1>1, <1>2, <1>4, EntryOfRecord, States

\* What a settlement does is charge.
LEMMA SettleCharges ==
  ASSUME KeysOK, Others, row' = row, NEW inv \in SettleInvocations, Fits(inv),
         SETTLE(inv), SettleReply(inv) = "OK"
  PROVE  \E id \in RequestIds :
           /\ L!Held(id)
           /\ \E refund \in L!Surpluses(TheEntry[id].plan) : L!Charge(id, refund)
<1> DEFINE id == inv.id
           r == gen[id]
           u == inv.user_id
           refund == inv.refund
<1>1. /\ u \in Users /\ id \in RequestIds /\ refund \in DebitPlans
      /\ inv.script = "SETTLE" /\ inv.billed_cost_usd \in Nat
  BY DEF SettleInvocations
<1>2. /\ r # Nil /\ r.status = "running" /\ (HasRefund(inv) => bal[u] # Nil)
      /\ r \in Records /\ L!Held(id)
      /\ TheEntry[id] = [state |-> "held", user_id |-> r.user_id,
                         plan |-> r.plan, charged |-> r.billed_cost_usd]
  BY <1>1, KeysParts, EndsRunning, RunningHeld
<1>3. /\ r.user_id = u /\ refund \in L!Surpluses(r.plan)
      /\ total_usd(refund) + inv.billed_cost_usd = total_usd(r.plan)
  BY <1>1 DEF Fits, InvocationFits, Splits
<1>4. ThePurse' = [ThePurse EXCEPT ![u] = L!Plus(ThePurse[u], refund)]
  <2>1. CASE HasRefund(inv)
    <3>1. bal' = [bal EXCEPT ![u] = Credited(bal[u], refund)]
      BY <2>1 DEF SETTLE
    <3>2. ThePurse[u] = PurseOf(bal[u]) /\ bal[u] \in Snapshots
      BY <1>1, <1>2, <2>1, Purses DEF ThePurse
    <3>3. QED
      BY <1>1, <3>1, <3>2, PurseShifts
  <2>2. CASE ~HasRefund(inv)
    <3>1. bal' = bal
      BY <2>2 DEF SETTLE
    <3>2. /\ refund.free_usd = 0 /\ refund.bonus_usd = 0 /\ refund.paid_usd = 0
          /\ refund.free_requests = 0
      BY <1>3, <2>2 DEF HasRefund, L!Surpluses
    <3>3. PICK b \in Snapshots : ThePurse[u] = PurseOf(b)
      BY <1>1, Purses DEF ThePurse
    <3>4. L!Plus(ThePurse[u], refund) = ThePurse[u]
      BY <3>2, <3>3 DEF L!Plus, PurseOf, Snapshots
    <3>5. ThePurse' = ThePurse
      BY <3>1, PurseStays
    <3>6. ThePurse = [ThePurse EXCEPT ![u] = ThePurse[u]]
      BY DEF ThePurse
    <3>7. QED
      BY <3>4, <3>5, <3>6
  <2>3. QED
    BY <2>1, <2>2
<1>5. gen' = [gen EXCEPT ![id] = SettledRecord(r, inv)] /\ topup' = topup
  BY DEF SETTLE
<1>6. EntryOf(SettledRecord(r, inv))
        = [state |-> "charged", user_id |-> r.user_id, plan |-> r.plan,
           charged |-> inv.billed_cost_usd]
  <2>1. /\ SettledRecord(r, inv) \in Records
        /\ SettledRecord(r, inv).status = "done"
        /\ SettledRecord(r, inv).user_id = r.user_id
        /\ SettledRecord(r, inv).plan = r.plan
        /\ SettledRecord(r, inv).billed_cost_usd = inv.billed_cost_usd
    <3>1. total_usd(refund) \in Nat
      BY <1>1 DEF total_usd, DebitPlans
    <3>2. QED
      BY <1>1, <1>2, <3>1 DEF SettledRecord, Records, Statuses
  <2>2. QED
    BY <2>1, EntryOfRecord, States
<1>7. TheEntry' = [TheEntry EXCEPT ![id] =
                     [state |-> "charged", user_id |-> r.user_id, plan |-> r.plan,
                      charged |-> inv.billed_cost_usd]]
  BY <1>1, <1>5, <1>6, EntryMoves
<1>8. L!total_usd(r.plan) - L!total_usd(refund) = inv.billed_cost_usd
  <2>1. total_usd(refund) \in Nat /\ total_usd(r.plan) \in Nat
    BY <1>1, <1>2 DEF total_usd, DebitPlans, Records
  <2>2. L!total_usd(r.plan) = total_usd(r.plan) /\ L!total_usd(refund) = total_usd(refund)
    BY DEF L!total_usd, total_usd
  <2>3. QED
    BY <1>1, <1>3, <2>1, <2>2
<1>9. TheEntry' = [TheEntry EXCEPT ![id] =
                     L!Entry("charged", TheEntry[id].user_id, TheEntry[id].plan,
                             L!total_usd(TheEntry[id].plan) - L!total_usd(refund))]
  <2> DEFINE billed == L!total_usd(TheEntry[id].plan) - L!total_usd(refund)
  <2>1. TheEntry[id].plan = r.plan /\ TheEntry[id].user_id = r.user_id
    BY <1>2
  <2>2. billed = inv.billed_cost_usd
    BY <1>8, <2>1
  <2> HIDE DEF id, r, refund, billed
  <2>3. TheEntry' = [TheEntry EXCEPT ![id] =
                       L!Entry("charged", TheEntry[id].user_id, TheEntry[id].plan,
                               billed)]
    BY <1>7, <2>1, <2>2 DEF L!Entry
  <2>4. QED
    BY <2>3 DEF billed
<1>10. refund \in L!Surpluses(TheEntry[id].plan)
  BY <1>2, <1>3
<1>11. TheEntry[id].user_id = u
  BY <1>2, <1>3
<1> HIDE DEF r, u
<1>12. L!Charge(id, refund)
  BY <1>2, <1>4, <1>5, <1>9, <1>10, <1>11 DEF L!Charge, ThePurse, TheEntry
<1>13. QED
  BY <1>1, <1>2, <1>10, <1>12

\* What a refund does is return.
LEMMA RefundGivesBack ==
  ASSUME KeysOK, Others, row' = row, NEW inv \in RefundInvocations, Fits(inv),
         REFUND(inv), RefundReply(inv) = "OK"
  PROVE  \E id \in RequestIds : L!Held(id) /\ L!Return(id)
<1> DEFINE id == inv.id
           r == gen[id]
           u == inv.user_id
<1>1. u \in Users /\ id \in RequestIds /\ inv.plan \in DebitPlans /\ inv.script = "REFUND"
  BY DEF RefundInvocations
<1>2. /\ r # Nil /\ r.status = "running" /\ bal[u] # Nil
      /\ r \in Records /\ L!Held(id)
      /\ TheEntry[id] = [state |-> "held", user_id |-> r.user_id,
                         plan |-> r.plan, charged |-> r.billed_cost_usd]
  BY <1>1, KeysParts, EndsRunning, RunningHeld
<1>3. r.user_id = u /\ r.plan = inv.plan
  BY <1>1 DEF Fits, InvocationFits, Returns
<1>4. ThePurse' = [ThePurse EXCEPT ![u] = L!Plus(ThePurse[u], inv.plan)]
  <2>1. bal' = [bal EXCEPT ![u] = Credited(bal[u], inv.plan)]
    BY DEF REFUND
  <2>2. ThePurse[u] = PurseOf(bal[u]) /\ bal[u] \in Snapshots
    BY <1>1, <1>2, Purses DEF ThePurse
  <2>3. QED
    BY <1>1, <2>1, <2>2, PurseShifts
<1>5. gen' = [gen EXCEPT ![id] = [r EXCEPT !.status = "failed"]] /\ topup' = topup
  BY DEF REFUND
<1>6. EntryOf([r EXCEPT !.status = "failed"])
        = [state |-> "returned", user_id |-> r.user_id, plan |-> r.plan,
           charged |-> r.billed_cost_usd]
  <2> DEFINE f == [r EXCEPT !.status = "failed"]
  <2>1. /\ f \in Records /\ f.status = "failed" /\ f.user_id = r.user_id
        /\ f.plan = r.plan /\ f.billed_cost_usd = r.billed_cost_usd
    BY <1>2 DEF Records, Statuses
  <2> HIDE DEF f
  <2>2. EntryOf(f) = [state |-> "returned", user_id |-> r.user_id, plan |-> r.plan,
                      charged |-> r.billed_cost_usd]
    BY <2>1, EntryOfRecord, States
  <2>3. QED
    BY <2>2 DEF f
<1>7. TheEntry' = [TheEntry EXCEPT ![id] =
                     [state |-> "returned", user_id |-> r.user_id, plan |-> r.plan,
                      charged |-> r.billed_cost_usd]]
  BY <1>1, <1>5, <1>6, EntryMoves
<1>8. TheEntry' = [TheEntry EXCEPT ![id] =
                     L!Entry("returned", TheEntry[id].user_id, TheEntry[id].plan,
                             TheEntry[id].charged)]
  <2> HIDE DEF id, r
  <2>1. QED
    BY <1>2, <1>7 DEF L!Entry
<1>9. TheEntry[id].user_id = u /\ TheEntry[id].plan = inv.plan
  BY <1>2, <1>3
<1> HIDE DEF r, u
<1>10. L!Return(id)
  BY <1>2, <1>4, <1>5, <1>8, <1>9 DEF L!Return, ThePurse, TheEntry
<1>11. QED
  BY <1>1, <1>2, <1>10

LEMMA TopUpCredits ==
  ASSUME KeysOK, Others, row' = row, NEW inv \in TopUpInvocations, Fits(inv),
         TOP_UP(inv), TopUpReply(inv) = "OK"
  PROVE  \E command \in Commands : L!TopUp(command)
<1> DEFINE u == inv.user_id
<1>1. u \in Users /\ inv.amounts \in DebitPlans /\ inv.script = "TOP_UP"
  BY DEF TopUpInvocations
<1>2. PICK command \in Commands :
        /\ command.operation_id = inv.id /\ command.user_id = u
        /\ CommandAmounts(command) = inv.amounts
  BY <1>1 DEF Fits, InvocationFits, TopUpFits
<1>3. inv.id \notin topup /\ bal[u] # Nil
  BY TopUpOK
<1>4. L!Credit(command) = inv.amounts
  BY <1>2 DEF L!Credit, CommandAmounts
<1>5. ThePurse' = [ThePurse EXCEPT ![u] = L!Plus(ThePurse[u], inv.amounts)]
  <2>1. bal' = [bal EXCEPT ![u] = Credited(bal[u], inv.amounts)]
    BY DEF TOP_UP
  <2>2. ThePurse[u] = PurseOf(bal[u]) /\ bal[u] \in Snapshots
    BY <1>1, <1>3, Purses DEF ThePurse
  <2>3. QED
    BY <1>1, <2>1, <2>2, PurseShifts
<1>6. topup' = topup \cup {inv.id} /\ gen' = gen
  BY DEF TOP_UP
<1>7. TheEntry' = TheEntry
  BY <1>6, EntryStays
<1> HIDE DEF u
<1>8. L!TopUp(command)
  BY <1>2, <1>3, <1>4, <1>5, <1>6, <1>7 DEF L!TopUp, ThePurse, TheEntry
<1>9. QED
  BY <1>8

LEMMA LedgerStays ==
  ASSUME UNCHANGED <<bal, gen, topup, row>>
  PROVE  UNCHANGED L!ledgerVars
BY PurseStays, EntryStays DEF L!ledgerVars, ThePurse, TheEntry

LEMMA SeedsStays ==
  ASSUME KeysOK, Others, row' = row, NEW u \in Users, Seeds(u)
  PROVE  UNCHANGED L!ledgerVars
<1>1. StoredBalance(u) # Nil
  BY NilAssumption DEF Others, TypedOthers, StoredBalance, Zero, Balances, Snapshots
<1>2. ThePurse' = [ThePurse EXCEPT ![u] = PurseOf(StoredBalance(u))]
  BY <1>1, PurseMoves DEF Seeds
<1>3. ThePurse[u] = PurseOf(StoredBalance(u))
  BY DEF ThePurse, Purse, Seeds
<1>4. ThePurse' = ThePurse
  BY <1>2, <1>3 DEF ThePurse
<1>5. TheEntry' = TheEntry /\ topup' = topup
  BY EntryStays DEF Seeds
<1>6. QED
  BY <1>4, <1>5 DEF L!ledgerVars, ThePurse, TheEntry

LEMMA ScriptLedger ==
  ASSUME KeysOK, Others, row' = row, NEW inv \in Invocations, Fits(inv), Execute(inv)
  PROVE  L!Next \/ UNCHANGED L!ledgerVars
<1>1. ASSUME UNCHANGED redis PROVE UNCHANGED L!ledgerVars
  BY <1>1, LedgerStays DEF redis
<1>2. CASE inv \in ReserveInvocations
  <2>1. RESERVE(inv)
    BY <1>2 DEF Execute, ReserveInvocations
  <2>2. CASE ReserveReply(inv) = "OK"
    BY <1>2, <2>1, <2>2, ReserveHolds DEF L!Next
  <2>3. CASE ReserveReply(inv) # "OK"
    BY <1>1, <2>1, <2>3 DEF RESERVE
  <2>4. QED
    BY <2>2, <2>3
<1>3. CASE inv \in SettleInvocations
  <2>1. SETTLE(inv)
    BY <1>3 DEF Execute, SettleInvocations
  <2>2. CASE SettleReply(inv) = "OK"
    BY <1>3, <2>1, <2>2, SettleCharges DEF L!Next, TheEntry
  <2>3. CASE SettleReply(inv) # "OK"
    BY <1>1, <2>1, <2>3 DEF SETTLE
  <2>4. QED
    BY <2>2, <2>3
<1>4. CASE inv \in RefundInvocations
  <2>1. REFUND(inv)
    BY <1>4 DEF Execute, RefundInvocations
  <2>2. CASE RefundReply(inv) = "OK"
    BY <1>4, <2>1, <2>2, RefundGivesBack DEF L!Next
  <2>3. CASE RefundReply(inv) # "OK"
    BY <1>1, <2>1, <2>3 DEF REFUND
  <2>4. QED
    BY <2>2, <2>3
<1>5. CASE inv \in TopUpInvocations
  <2>1. TOP_UP(inv)
    BY <1>5 DEF Execute, TopUpInvocations
  <2>2. CASE TopUpReply(inv) = "OK"
    BY <1>5, <2>1, <2>2, TopUpCredits DEF L!Next
  <2>3. CASE TopUpReply(inv) # "OK"
    BY <1>1, <2>1, <2>3 DEF TOP_UP
  <2>4. QED
    BY <2>2, <2>3
<1>6. QED
  BY <1>2, <1>3, <1>4, <1>5 DEF Invocations

LEMMA InitLedger == Init => L!Init
<1> SUFFICES ASSUME Init PROVE L!Init
  OBVIOUS
<1>1. \A u \in Users : StoredBalance(u) \in Balances
  BY RowsAssumption DEF Init, StoredBalance, Zero, Balances
<1>2. \A u \in Users : Purse(u) = PurseOf(StoredBalance(u))
  BY DEF Init, Purse, Warm
<1>3. \A u \in Users : Purse(u) \in L!Amounts
  BY <1>1, <1>2 DEF PurseOf, Balances, L!Amounts
<1>4. \A id \in RequestIds : EntryOf(gen[id]) = Nil
  BY DEF Init, StoreInit, EntryOf
<1>5. topup = {}
  BY DEF Init, StoreInit
<1>6. QED
  BY <1>3, <1>4, <1>5 DEF L!Init

LEMMA NextLedger ==
  ASSUME BInv, [Next]_vars
  PROVE  L!Next \/ UNCHANGED L!ledgerVars
<1>1. KeysOK /\ Others /\ Moves /\ row' = row
  BY IInvParts, MoneyMoves DEF BInv, Parts
<1>2. CASE UNCHANGED <<bal, gen, topup>>
  BY <1>1, <1>2, LedgerStays
<1>3. CASE \E inv \in Invocations : Fits(inv) /\ Execute(inv)
  BY <1>1, <1>3, ScriptLedger
<1>4. CASE \E u \in Users : Seeds(u)
  BY <1>1, <1>4, SeedsStays
<1>5. QED
  BY <1>1, <1>2, <1>3, <1>4 DEF Moves

\* Billing implements Ledger: every script that changes money is one step of it,
\* and everything else the service does is none.
THEOREM ImplementsLedger == Spec => LedgerSpec
<1>1. BInv /\ [Next]_vars => [L!Next]_(L!ledgerVars)
  BY NextLedger
<1>2. Spec => []BInv
  BY BInvInvariant
<1>3. QED
  BY <1>1, <1>2, InitLedger, PTL DEF Spec, LedgerSpec, L!Spec

-----------------------------------------------------------------------------
(***************************************************************************)
(* Sums over finite sets.  The induction is on sets of numbers and sets of *)
(* sets: the least element that is not in one of them.                     *)
(***************************************************************************)
LEMMA CountInduction ==
  ASSUME NEW P, 0 \in P, \A n \in Nat : n \in P => n + 1 \in P
  PROVE  Nat \subseteq P
<1> DEFINE Bad == {n \in Nat : n \notin P}
<1>1. SUFFICES ASSUME Bad # {} PROVE FALSE
  OBVIOUS
<1>2. PICK n \in Bad : \A m \in Bad : ~(<<m, n>> \in OpToRel(<, Nat))
  BY <1>1, NatLessThanWellFounded, WFMin
<1>3. \A m \in Nat : m < n => m \in P
  BY <1>2 DEF OpToRel
<1>4. n # 0 /\ n \in Nat
  OBVIOUS
<1>5. n - 1 \in Nat /\ n - 1 < n /\ (n - 1) + 1 = n
  BY <1>4
<1>6. QED
  BY <1>3, <1>5

\* What holds of a set when it holds of all its smaller subsets.
LEMMA SubsetInduction ==
  ASSUME NEW S, IsFiniteSet(S), NEW P,
         \A T \in SUBSET S :
           (\A U \in SUBSET T : U # T => U \in P) => T \in P
  PROVE  SUBSET S \subseteq P
<1>1. IsWellFoundedOn(StrictSubsetOrdering(S), SUBSET S)
  BY FS_StrictSubsetOrderingWellFounded, FS_FiniteSubsetsOfFinite
<1> DEFINE Bad == {T \in SUBSET S : T \notin P}
<1>2. SUFFICES ASSUME Bad # {} PROVE FALSE
  BY <1>2
<1>3. PICK T \in Bad : \A U \in Bad : ~(<<U, T>> \in StrictSubsetOrdering(S))
  <2>1. Bad \subseteq SUBSET S
    OBVIOUS
  <2> HIDE DEF Bad
  <2>2. QED
    BY <1>1, <1>2, <2>1, WFMin
<1>4. \A U \in SUBSET T : U # T => U \in P
  BY <1>3 DEF StrictSubsetOrdering
<1>5. QED
  BY <1>3, <1>4

First(T) == CHOOSE x \in T : TRUE

Fold(f, s, T) == IF T = {} THEN 0 ELSE f[First(T)] + s[T \ {First(T)}]

\* The function that the sum over S is defined by.
Sums(f, S) == CHOOSE s : s = [T \in SUBSET S |-> Fold(f, s, T)]

LEMMA SumIsSums ==
  ASSUME NEW f, NEW S
  PROVE  SumFunctionOnSet(f, S) = Sums(f, S)[S]
BY DEF SumFunctionOnSet, FoldFunctionOnSet, MapThenFoldSet, Sums, Fold, First

LEMMA Smaller ==
  ASSUME NEW S, IsFiniteSet(S), S # {}
  PROVE  /\ First(S) \in S
         /\ IsFiniteSet(S \ {First(S)})
         /\ Cardinality(S \ {First(S)}) = Cardinality(S) - 1
BY FS_RemoveElement DEF First

\* There is such a function.
LEMMA SumsUnfold ==
  ASSUME NEW S, IsFiniteSet(S), NEW f
  PROVE  Sums(f, S) = [T \in SUBSET S |-> Fold(f, Sums(f, S), T)]
<1> DEFINE Upto(n) == {T \in SUBSET S : Cardinality(T) <= n}
           P == {n \in Nat : \E s : s = [T \in Upto(n) |-> Fold(f, s, T)]}
<1>1. \A T \in SUBSET S : IsFiniteSet(T) /\ Cardinality(T) \in Nat
  BY FS_Subset, FS_CardinalityType
<1>2. \A T \in SUBSET S : T # {} =>
        /\ T \ {First(T)} \in SUBSET S
        /\ Cardinality(T \ {First(T)}) = Cardinality(T) - 1
  BY <1>1, Smaller
<1>3. 0 \in P
  <2> DEFINE s == [T \in Upto(0) |-> 0]
  <2>1. \A T \in Upto(0) : T = {}
    BY <1>1, FS_EmptySet
  <2>2. s = [T \in Upto(0) |-> Fold(f, s, T)]
    BY <2>1 DEF Fold
  <2> QED
    BY <2>2
<1>4. ASSUME NEW n \in Nat, n \in P PROVE n + 1 \in P
  <2>1. PICK s : s = [T \in Upto(n) |-> Fold(f, s, T)]
    BY <1>4
  <2> DEFINE r == [T \in Upto(n + 1) |-> Fold(f, s, T)]
  <2>2. \A T \in Upto(n + 1) : T # {} =>
          T \ {First(T)} \in Upto(n) /\ T \ {First(T)} \in Upto(n + 1)
    BY <1>1, <1>2
  <2>3. \A T \in Upto(n) : T \in Upto(n + 1) /\ s[T] = Fold(f, s, T)
    BY <1>1, <2>1
  <2>4. \A T \in Upto(n) : r[T] = s[T]
    BY <2>3
  <2>5. \A T \in Upto(n + 1) : Fold(f, s, T) = Fold(f, r, T)
    BY <2>2, <2>4 DEF Fold
  <2>6. r = [T \in Upto(n + 1) |-> Fold(f, r, T)]
    BY <2>5
  <2>7. \E q : q = [T \in Upto(n + 1) |-> Fold(f, q, T)]
    BY <2>6
  <2>8. QED
    BY <2>7
<1>5. Cardinality(S) \in P
  BY <1>1, <1>3, <1>4, CountInduction
<1>6. Upto(Cardinality(S)) = SUBSET S
  BY <1>1, FS_Subset
<1>7. \E s : s = [T \in SUBSET S |-> Fold(f, s, T)]
  BY <1>5, <1>6
<1>8. QED
  BY <1>7 DEF Sums

\* The sums over the parts of a set do not depend on the set.
LEMMA SumsAgree ==
  ASSUME NEW S, IsFiniteSet(S), NEW T \in SUBSET S, NEW f
  PROVE  Sums(f, S)[T] = Sums(f, T)[T]
<1> DEFINE a == Sums(f, S)
           b == Sums(f, T)
           P == {U \in SUBSET T : a[U] = b[U]}
<1>1. IsFiniteSet(T)
  BY FS_Subset
<1>2. /\ a = [U \in SUBSET S |-> Fold(f, a, U)]
      /\ b = [U \in SUBSET T |-> Fold(f, b, U)]
  BY <1>1, SumsUnfold
<1> HIDE DEF a, b
<1>3. \A U \in SUBSET T : a[U] = Fold(f, a, U) /\ b[U] = Fold(f, b, U)
  BY <1>2
<1>4. ASSUME NEW U \in SUBSET T, \A V \in SUBSET U : V # U => V \in P
      PROVE  U \in P
  <2>1. CASE U = {}
    BY <1>3, <2>1 DEF Fold
  <2>2. CASE U # {}
    <3>1. U \ {First(U)} \in P
      BY <1>4, <2>2 DEF First
    <3>2. QED
      BY <1>3, <2>2, <3>1 DEF Fold
  <2>3. QED
    BY <2>1, <2>2
<1>5. T \in P
  <2> HIDE DEF P
  <2>1. SUBSET T \subseteq P
    BY <1>1, <1>4, SubsetInduction
  <2>2. QED
    BY <2>1
<1>6. QED
  BY <1>5 DEF a, b

LEMMA SumFirst ==
  ASSUME NEW S, IsFiniteSet(S), NEW f
  PROVE  /\ S = {} => SumFunctionOnSet(f, S) = 0
         /\ S # {} => SumFunctionOnSet(f, S)
                        = f[First(S)] + SumFunctionOnSet(f, S \ {First(S)})
<1>1. Sums(f, S)[S] = Fold(f, Sums(f, S), S)
  <2> DEFINE s == Sums(f, S)
  <2>1. s = [T \in SUBSET S |-> Fold(f, s, T)]
    BY SumsUnfold
  <2> HIDE DEF s
  <2>2. s[S] = Fold(f, s, S)
    BY <2>1
  <2>3. QED
    BY <2>2 DEF s
<1>2. Sums(f, S)[S \ {First(S)}] = Sums(f, S \ {First(S)})[S \ {First(S)}]
  BY SumsAgree
<1>3. QED
  BY <1>1, <1>2, SumIsSums DEF Fold

LEMMA SumInt ==
  ASSUME NEW S, IsFiniteSet(S), NEW f, \A x \in S : f[x] \in Int
  PROVE  SumFunctionOnSet(f, S) \in Int
<1> DEFINE P == {T \in SUBSET S : SumFunctionOnSet(f, T) \in Int}
<1>1. ASSUME NEW T \in SUBSET S, \A U \in SUBSET T : U # T => U \in P
      PROVE  T \in P
  <2>1. IsFiniteSet(T)
    BY FS_Subset
  <2>2. CASE T = {}
    BY <2>1, <2>2, SumFirst
  <2>3. CASE T # {}
    <3>1. First(T) \in T /\ T \ {First(T)} \in P
      BY <1>1, <2>3 DEF First
    <3>2. SumFunctionOnSet(f, T) = f[First(T)] + SumFunctionOnSet(f, T \ {First(T)})
      BY <2>1, <2>3, SumFirst
    <3>3. f[First(T)] \in Int /\ SumFunctionOnSet(f, T \ {First(T)}) \in Int
      BY <3>1
    <3>4. QED
      BY <3>2, <3>3
  <2>4. QED
    BY <2>2, <2>3
<1>2. S \in P
  <2> HIDE DEF P
  <2>1. SUBSET S \subseteq P
    BY <1>1, SubsetInduction
  <2>2. QED
    BY <2>1
<1>3. QED
  BY <1>2

\* Any element may come first.
LEMMA SumAny ==
  ASSUME NEW S, IsFiniteSet(S), NEW f, \A x \in S : f[x] \in Int, NEW z \in S
  PROVE  SumFunctionOnSet(f, S) = f[z] + SumFunctionOnSet(f, S \ {z})
<1> DEFINE Sum(T) == SumFunctionOnSet(f, T)
           P == {T \in SUBSET S : \A x \in T : Sum(T) = f[x] + Sum(T \ {x})}
<1>1. \A T \in SUBSET S : IsFiniteSet(T) /\ Sum(T) \in Int
  BY FS_Subset, SumInt
<1>2. \A T \in SUBSET S : T # {} => First(T) \in T /\ Sum(T) = f[First(T)] + Sum(T \ {First(T)})
  BY <1>1, SumFirst DEF First
<1> HIDE DEF Sum
<1>3. ASSUME NEW T \in SUBSET S, \A U \in SUBSET T : U # T => U \in P
      PROVE  T \in P
  <2> SUFFICES ASSUME NEW x \in T PROVE Sum(T) = f[x] + Sum(T \ {x})
    OBVIOUS
  <2> DEFINE y == First(T)
  <2>1. y \in T /\ Sum(T) = f[y] + Sum(T \ {y})
    BY <1>2
  <2> HIDE DEF y
  <2>2. CASE x = y
    BY <2>1, <2>2
  <2>3. CASE x # y
    <3>1. T \ {y} \in P /\ T \ {x} \in P /\ x \in T \ {y} /\ y \in T \ {x}
      BY <1>3, <2>1, <2>3
    <3>2. (T \ {y}) \ {x} = (T \ {x}) \ {y}
      OBVIOUS
    <3>3. Sum(T \ {y}) = f[x] + Sum((T \ {x}) \ {y})
      BY <3>1, <3>2
    <3>4. Sum(T \ {x}) = f[y] + Sum((T \ {x}) \ {y})
      BY <3>1
    <3>5. Sum((T \ {x}) \ {y}) \in Int /\ f[x] \in Int /\ f[y] \in Int
      BY <1>1, <2>1
    <3>6. QED
      BY <2>1, <3>3, <3>4, <3>5
  <2>4. QED
    BY <2>2, <2>3
<1>4. S \in P
  <2> HIDE DEF P
  <2>1. SUBSET S \subseteq P
    BY <1>3, SubsetInduction
  <2>2. QED
    BY <2>1
<1>5. QED
  BY <1>4 DEF Sum

\* Only the values matter.
LEMMA SumSame ==
  ASSUME NEW S, IsFiniteSet(S), NEW f, NEW g, \A x \in S : f[x] = g[x]
  PROVE  SumFunctionOnSet(f, S) = SumFunctionOnSet(g, S)
<1> DEFINE P == {T \in SUBSET S : SumFunctionOnSet(f, T) = SumFunctionOnSet(g, T)}
<1>1. ASSUME NEW T \in SUBSET S, \A U \in SUBSET T : U # T => U \in P
      PROVE  T \in P
  <2>1. IsFiniteSet(T)
    BY FS_Subset
  <2>2. CASE T = {}
    BY <2>1, <2>2, SumFirst
  <2>3. CASE T # {}
    <3>1. First(T) \in T /\ T \ {First(T)} \in P
      BY <1>1, <2>3 DEF First
    <3>2. QED
      BY <2>1, <2>3, <3>1, SumFirst
  <2>4. QED
    BY <2>2, <2>3
<1>2. S \in P
  <2> HIDE DEF P
  <2>1. SUBSET S \subseteq P
    BY <1>1, SubsetInduction
  <2>2. QED
    BY <2>1
<1>3. QED
  BY <1>2

\* A function that gets one more value, or another value in one place.
LEMMA SumGrows ==
  ASSUME NEW S, IsFiniteSet(S), NEW x, x \notin S, NEW f, NEW g,
         DOMAIN f = S, DOMAIN g = S \cup {x}, g[x] \in Int,
         \A y \in S : g[y] = f[y] /\ f[y] \in Int
  PROVE  /\ SumFunction(g) = SumFunction(f) + g[x]
         /\ SumFunction(f) \in Int /\ SumFunction(g) \in Int
<1>1. IsFiniteSet(S \cup {x})
  BY FS_AddElement
<1>2. (S \cup {x}) \ {x} = S
  OBVIOUS
<1>3. SumFunctionOnSet(g, S \cup {x}) = g[x] + SumFunctionOnSet(g, S)
  <2>1. \A y \in S \cup {x} : g[y] \in Int
    OBVIOUS
  <2>2. SumFunctionOnSet(g, S \cup {x}) = g[x] + SumFunctionOnSet(g, (S \cup {x}) \ {x})
    BY <1>1, <2>1, SumAny
  <2>3. QED
    BY <1>2, <2>2
<1>4. SumFunctionOnSet(g, S) = SumFunctionOnSet(f, S)
  BY SumSame
<1>5. SumFunctionOnSet(f, S) \in Int
  BY SumInt
<1>6. QED
  BY <1>3, <1>4, <1>5 DEF SumFunction

LEMMA SumChanges ==
  ASSUME NEW S, IsFiniteSet(S), NEW x \in S, NEW f, NEW g,
         DOMAIN f = S, DOMAIN g = S,
         \A y \in S : f[y] \in Int /\ g[y] \in Int /\ (y # x => g[y] = f[y])
  PROVE  /\ SumFunction(g) = SumFunction(f) - f[x] + g[x]
         /\ SumFunction(f) \in Int /\ SumFunction(g) \in Int
<1>1. SumFunctionOnSet(f, S) = f[x] + SumFunctionOnSet(f, S \ {x})
  BY SumAny
<1>2. SumFunctionOnSet(g, S) = g[x] + SumFunctionOnSet(g, S \ {x})
  BY SumAny
<1>3. IsFiniteSet(S \ {x})
  BY FS_RemoveElement
<1>4. SumFunctionOnSet(f, S \ {x}) = SumFunctionOnSet(g, S \ {x})
  BY <1>3, SumSame
<1>5. SumFunctionOnSet(f, S \ {x}) \in Int
  BY <1>3, SumInt
<1>6. QED
  BY <1>1, <1>2, <1>4, <1>5 DEF SumFunction

LEMMA SumEmpty ==
  ASSUME NEW f, DOMAIN f = {}
  PROVE  SumFunction(f) = 0
BY FS_EmptySet, SumFirst DEF SumFunction
-----------------------------------------------------------------------------
(***************************************************************************)
(* Totals per user: own says whose a thing is, val what it counts for.     *)
(***************************************************************************)
OwnedBy(own, u) == {i \in DOMAIN own : own[i] = u}

Total(own, val, u) == SumFunction([i \in OwnedBy(own, u) |-> val[i]])

LEMMA TotalInt ==
  ASSUME NEW own, NEW val, NEW u, IsFiniteSet(OwnedBy(own, u)),
         \A i \in OwnedBy(own, u) : val[i] \in Int
  PROVE  Total(own, val, u) \in Int
BY SumInt DEF Total, SumFunction

\* A thing that was not this user's is added.
Grows(own, val, own2, val2, x, u) ==
  /\ IsFiniteSet(OwnedBy(own, u)) /\ \A i \in OwnedBy(own, u) : val[i] \in Int
  /\ x \notin OwnedBy(own, u) /\ DOMAIN own2 = DOMAIN own \cup {x}
  /\ \A i \in DOMAIN own \ {x} : own2[i] = own[i] /\ val2[i] = val[i]
  /\ val2[x] \in Int

LEMMA TotalGrows ==
  ASSUME NEW own, NEW val, NEW own2, NEW val2, NEW x, NEW u,
         Grows(own, val, own2, val2, x, u)
  PROVE  /\ IsFiniteSet(OwnedBy(own2, u))
         /\ own2[x] = u  => Total(own2, val2, u) = Total(own, val, u) + val2[x]
         /\ own2[x] # u  => Total(own2, val2, u) = Total(own, val, u)
<1> USE DEF Grows
<1> DEFINE S == OwnedBy(own, u)
           f == [i \in S |-> val[i]]
           g == [i \in OwnedBy(own2, u) |-> val2[i]]
<1>1. CASE own2[x] = u
  <2>1. OwnedBy(own2, u) = S \cup {x}
    BY <1>1 DEF OwnedBy
  <2>2. IsFiniteSet(S \cup {x})
    BY FS_AddElement
  <2>3. /\ DOMAIN f = S /\ DOMAIN g = S \cup {x} /\ g[x] = val2[x]
        /\ \A y \in S : g[y] = f[y] /\ f[y] \in Int
    BY <2>1 DEF OwnedBy
  <2>4. Total(own, val, u) = SumFunction(f) /\ Total(own2, val2, u) = SumFunction(g)
    BY DEF Total
  <2>5. IsFiniteSet(S) /\ x \notin S /\ g[x] \in Int
    <3>1. g[x] = val2[x] /\ val2[x] \in Int
      BY <2>3
    <3>2. QED
      BY <3>1
  <2> HIDE DEF S, f, g, Grows
  <2>6. SumFunction(g) = SumFunction(f) + g[x]
    BY <2>3, <2>5, SumGrows
  <2>7. QED
    BY <1>1, <2>1, <2>2, <2>3, <2>4, <2>6
<1>2. CASE own2[x] # u
  <2>1. OwnedBy(own2, u) = S
    BY <1>2 DEF OwnedBy
  <2>2. f = g
    BY <2>1 DEF OwnedBy
  <2>3. QED
    BY <1>2, <2>1, <2>2 DEF Total
<1>3. QED
  BY <1>1, <1>2

\* A thing comes to count for something else.
Changes(own, val, val2, x, u) ==
  /\ IsFiniteSet(OwnedBy(own, u))
  /\ \A i \in OwnedBy(own, u) : val[i] \in Int /\ val2[i] \in Int
  /\ \A i \in OwnedBy(own, u) \ {x} : val2[i] = val[i]

LEMMA TotalChanges ==
  ASSUME NEW own, NEW val, NEW val2, NEW x, NEW u, Changes(own, val, val2, x, u)
  PROVE  /\ x \in OwnedBy(own, u) =>
              Total(own, val2, u) = Total(own, val, u) - val[x] + val2[x]
         /\ x \notin OwnedBy(own, u) => Total(own, val2, u) = Total(own, val, u)
<1> DEFINE S == OwnedBy(own, u)
           f == [i \in S |-> val[i]]
           g == [i \in S |-> val2[i]]
<1>0. /\ IsFiniteSet(S)
      /\ \A i \in S : val[i] \in Int /\ val2[i] \in Int
      /\ \A i \in S \ {x} : val2[i] = val[i]
  BY DEF Changes
<1> HIDE DEF S
<1>1. CASE x \in S
  <2>1. /\ DOMAIN f = S /\ DOMAIN g = S /\ f[x] = val[x] /\ g[x] = val2[x]
        /\ \A y \in S : f[y] \in Int /\ g[y] \in Int /\ (y # x => g[y] = f[y])
    BY <1>0, <1>1
  <2>2. Total(own, val, u) = SumFunction(f) /\ Total(own, val2, u) = SumFunction(g)
    BY DEF Total, S
  <2>3. IsFiniteSet(S) /\ x \in S
    BY <1>0, <1>1
  <2> HIDE DEF f, g
  <2>4. SumFunction(g) = SumFunction(f) - f[x] + g[x]
    BY <2>1, <2>3, SumChanges
  <2>5. QED
    BY <2>1, <2>2, <2>3, <2>4 DEF S
<1>2. CASE x \notin S
  <2>1. f = g
    BY <1>0, <1>2
  <2>2. QED
    BY <1>2, <2>1 DEF Total, S
<1>3. QED
  BY <1>1, <1>2 DEF S

LEMMA TotalEmpty ==
  ASSUME NEW own, NEW val, NEW u, \A i \in DOMAIN own : own[i] # u
  PROVE  IsFiniteSet(OwnedBy(own, u)) /\ Total(own, val, u) = 0
<1>1. OwnedBy(own, u) = {}
  BY DEF OwnedBy
<1>2. QED
  BY <1>1, FS_EmptySet, SumEmpty DEF Total
-----------------------------------------------------------------------------
(***************************************************************************)
(* The books.  What is said of them is said of the ledger's state: the     *)
(* purses, the entries, and the command behind each credit.                *)
(***************************************************************************)
CostOf(e) ==
  CASE e.state = "held"     -> total_usd(e.plan)
    [] e.state = "charged"  -> e.charged
    [] e.state = "returned" -> 0

TakenOf(e) == IF e.state = "returned" THEN 0 ELSE e.plan.free_requests

Payers(entry) ==
  [id \in RequestIds |-> IF entry[id] = Nil THEN Nil ELSE entry[id].user_id]
Costs(entry) ==
  [id \in RequestIds |-> IF entry[id] = Nil THEN 0 ELSE CostOf(entry[id])]
Takings(entry) ==
  [id \in RequestIds |-> IF entry[id] = Nil THEN 0 ELSE TakenOf(entry[id])]

Payees(commandOf) == [op \in DOMAIN commandOf |-> commandOf[op].user_id]
Credits(commandOf) ==
  [op \in DOMAIN commandOf |-> total_usd(CommandAmounts(commandOf[op]))]
Grants(commandOf) ==
  [op \in DOMAIN commandOf |-> CommandAmounts(commandOf[op]).free_requests]

Balanced(was, has, entry, commandOf, u) ==
  /\ IsFiniteSet(OwnedBy(Payers(entry), u))
  /\ IsFiniteSet(OwnedBy(Payees(commandOf), u))
  /\ total_usd(has) = total_usd(was)
                        + Total(Payees(commandOf), Credits(commandOf), u)
                        - Total(Payers(entry), Costs(entry), u)
  /\ has.free_requests = was.free_requests
                           + Total(Payees(commandOf), Grants(commandOf), u)
                           - Total(Payers(entry), Takings(entry), u)

\* The inductive invariant behind Conservation.
Books ==
  \E commandOf \in [topup -> Commands] :
    /\ \A op \in topup : commandOf[op].operation_id = op
    /\ \A u \in Users :
         Balanced(StoredBalance(u), ThePurse[u], TheEntry, commandOf, u)

\* What is added up are numbers.
EntriesCount(entry) ==
  \A id \in RequestIds : entry[id] # Nil =>
    entry[id].user_id \in Users
      /\ CostOf(entry[id]) \in Int /\ TakenOf(entry[id]) \in Int

CommandsCount(commandOf) ==
  \A op \in DOMAIN commandOf :
    /\ total_usd(CommandAmounts(commandOf[op])) \in Int
    /\ CommandAmounts(commandOf[op]).free_requests \in Int

IsCounted(balance) == total_usd(balance) \in Int /\ balance.free_requests \in Int

LEMMA EntryTotals ==
  ASSUME NEW entry, EntriesCount(entry), NEW u,
         IsFiniteSet(OwnedBy(Payers(entry), u))
  PROVE  /\ Total(Payers(entry), Costs(entry), u) \in Int
         /\ Total(Payers(entry), Takings(entry), u) \in Int
<1>1. \A id \in OwnedBy(Payers(entry), u) :
        Costs(entry)[id] \in Int /\ Takings(entry)[id] \in Int
  BY DEF EntriesCount, OwnedBy, Payers, Costs, Takings
<1>2. QED
  BY <1>1, TotalInt

LEMMA CommandTotals ==
  ASSUME NEW commandOf, CommandsCount(commandOf), NEW u,
         IsFiniteSet(OwnedBy(Payees(commandOf), u))
  PROVE  /\ Total(Payees(commandOf), Credits(commandOf), u) \in Int
         /\ Total(Payees(commandOf), Grants(commandOf), u) \in Int
<1>1. \A op \in OwnedBy(Payees(commandOf), u) :
        Credits(commandOf)[op] \in Int /\ Grants(commandOf)[op] \in Int
  BY DEF CommandsCount, OwnedBy, Payees, Credits, Grants
<1>2. QED
  BY <1>1, TotalInt

\* A new entry of u's costs what it holds, and nobody else.
LEMMA NewEntryTotals ==
  ASSUME NEW entry, EntriesCount(entry), NEW id \in RequestIds, entry[id] = Nil,
         NEW e, e # Nil, CostOf(e) \in Int, TakenOf(e) \in Int,
         NEW entry2, entry2 = [i \in RequestIds |-> IF i = id THEN e ELSE entry[i]],
         NEW u \in Users, IsFiniteSet(OwnedBy(Payers(entry), u))
  PROVE  /\ IsFiniteSet(OwnedBy(Payers(entry2), u))
         /\ Total(Payers(entry2), Costs(entry2), u)
              = Total(Payers(entry), Costs(entry), u)
                  + (IF e.user_id = u THEN CostOf(e) ELSE 0)
         /\ Total(Payers(entry2), Takings(entry2), u)
              = Total(Payers(entry), Takings(entry), u)
                  + (IF e.user_id = u THEN TakenOf(e) ELSE 0)
<1> DEFINE own == Payers(entry)
           own2 == Payers(entry2)
           cost == Costs(entry)
           cost2 == Costs(entry2)
           taken == Takings(entry)
           taken2 == Takings(entry2)
<1>1. /\ id \notin OwnedBy(own, u)
      /\ DOMAIN own2 = DOMAIN own \cup {id}
      /\ own2[id] = e.user_id
  BY NilAssumption DEF OwnedBy, Payers
<1>2. /\ \A i \in OwnedBy(own, u) : cost[i] \in Int
      /\ \A i \in DOMAIN own \ {id} : own2[i] = own[i] /\ cost2[i] = cost[i]
      /\ cost2[id] = CostOf(e) /\ cost2[id] \in Int
  BY DEF EntriesCount, OwnedBy, Payers, Costs
<1>3. /\ \A i \in OwnedBy(own, u) : taken[i] \in Int
      /\ \A i \in DOMAIN own \ {id} : own2[i] = own[i] /\ taken2[i] = taken[i]
      /\ taken2[id] = TakenOf(e) /\ taken2[id] \in Int
  BY DEF EntriesCount, OwnedBy, Payers, Takings
<1>4. Total(own, cost, u) \in Int /\ Total(own, taken, u) \in Int
  BY EntryTotals
<1> HIDE DEF own, own2, cost, cost2, taken, taken2
<1>5. IsFiniteSet(OwnedBy(own, u))
  BY DEF own
<1>6. /\ IsFiniteSet(OwnedBy(own2, u))
      /\ own2[id] = u => Total(own2, cost2, u) = Total(own, cost, u) + cost2[id]
      /\ own2[id] # u => Total(own2, cost2, u) = Total(own, cost, u)
  <2>1. Grows(own, cost, own2, cost2, id, u)
    BY <1>1, <1>2, <1>5 DEF Grows
  <2>2. QED
    BY <2>1, TotalGrows
<1>7. /\ own2[id] = u => Total(own2, taken2, u) = Total(own, taken, u) + taken2[id]
      /\ own2[id] # u => Total(own2, taken2, u) = Total(own, taken, u)
  <2>1. Grows(own, taken, own2, taken2, id, u)
    BY <1>1, <1>3, <1>5 DEF Grows
  <2>2. QED
    BY <2>1, TotalGrows
<1>8. /\ Total(own2, cost2, u) = Total(own, cost, u)
           + (IF e.user_id = u THEN CostOf(e) ELSE 0)
      /\ Total(own2, taken2, u) = Total(own, taken, u)
           + (IF e.user_id = u THEN TakenOf(e) ELSE 0)
  BY <1>1, <1>2, <1>3, <1>4, <1>6, <1>7
<1>9. QED
  BY <1>6, <1>8 DEF own, own2, cost, cost2, taken, taken2

\* An entry that ends comes to cost its user something else.
LEMMA EndedEntryTotals ==
  ASSUME NEW entry, EntriesCount(entry), NEW id \in RequestIds, entry[id] # Nil,
         NEW e, e # Nil, CostOf(e) \in Int, TakenOf(e) \in Int,
         e.user_id = entry[id].user_id,
         NEW entry2, entry2 = [i \in RequestIds |-> IF i = id THEN e ELSE entry[i]],
         NEW u \in Users, IsFiniteSet(OwnedBy(Payers(entry), u))
  PROVE  /\ IsFiniteSet(OwnedBy(Payers(entry2), u))
         /\ Total(Payers(entry2), Costs(entry2), u)
              = Total(Payers(entry), Costs(entry), u)
                  + (IF e.user_id = u THEN CostOf(e) - CostOf(entry[id]) ELSE 0)
         /\ Total(Payers(entry2), Takings(entry2), u)
              = Total(Payers(entry), Takings(entry), u)
                  + (IF e.user_id = u THEN TakenOf(e) - TakenOf(entry[id]) ELSE 0)
<1> DEFINE own == Payers(entry)
           cost == Costs(entry)
           cost2 == Costs(entry2)
           taken == Takings(entry)
           taken2 == Takings(entry2)
<1>1. Payers(entry2) = own
  BY DEF Payers
<1>2. /\ \A i \in OwnedBy(own, u) :
           cost[i] \in Int /\ cost2[i] \in Int /\ (i # id => cost2[i] = cost[i])
      /\ \A i \in OwnedBy(own, u) :
           taken[i] \in Int /\ taken2[i] \in Int /\ (i # id => taken2[i] = taken[i])
  BY NilAssumption DEF EntriesCount, OwnedBy, Payers, Costs, Takings
<1>3. /\ id \in OwnedBy(own, u) <=> e.user_id = u
      /\ cost[id] = CostOf(entry[id]) /\ cost2[id] = CostOf(e)
      /\ taken[id] = TakenOf(entry[id]) /\ taken2[id] = TakenOf(e)
      /\ cost[id] \in Int /\ cost2[id] \in Int
      /\ taken[id] \in Int /\ taken2[id] \in Int
  BY DEF EntriesCount, OwnedBy, Payers, Costs, Takings
<1>4. Total(own, cost, u) \in Int /\ Total(own, taken, u) \in Int
  BY EntryTotals
<1> HIDE DEF own, cost, cost2, taken, taken2
<1>5. IsFiniteSet(OwnedBy(own, u))
  BY DEF own
<1>6. /\ id \in OwnedBy(own, u) =>
           Total(own, cost2, u) = Total(own, cost, u) - cost[id] + cost2[id]
      /\ id \notin OwnedBy(own, u) => Total(own, cost2, u) = Total(own, cost, u)
  <2>1. Changes(own, cost, cost2, id, u)
    BY <1>2, <1>5 DEF Changes
  <2>2. QED
    BY <2>1, TotalChanges
<1>7. /\ id \in OwnedBy(own, u) =>
           Total(own, taken2, u) = Total(own, taken, u) - taken[id] + taken2[id]
      /\ id \notin OwnedBy(own, u) => Total(own, taken2, u) = Total(own, taken, u)
  <2>1. Changes(own, taken, taken2, id, u)
    BY <1>2, <1>5 DEF Changes
  <2>2. QED
    BY <2>1, TotalChanges
<1>8. /\ Total(own, cost2, u) = Total(own, cost, u)
           + (IF e.user_id = u THEN CostOf(e) - CostOf(entry[id]) ELSE 0)
      /\ Total(own, taken2, u) = Total(own, taken, u)
           + (IF e.user_id = u THEN TakenOf(e) - TakenOf(entry[id]) ELSE 0)
  BY <1>3, <1>4, <1>6, <1>7
<1>9. QED
  BY <1>1, <1>5, <1>8 DEF own, cost, cost2, taken, taken2
\* A credit counts for the user of its command.
LEMMA NewCreditTotals ==
  ASSUME NEW c, CommandsCount(c), NEW op, op \notin DOMAIN c,
         NEW command, total_usd(CommandAmounts(command)) \in Int,
         CommandAmounts(command).free_requests \in Int,
         NEW c2, c2 = [o \in DOMAIN c \cup {op} |-> IF o = op THEN command ELSE c[o]],
         NEW u, IsFiniteSet(OwnedBy(Payees(c), u))
  PROVE  /\ IsFiniteSet(OwnedBy(Payees(c2), u))
         /\ Total(Payees(c2), Credits(c2), u)
              = Total(Payees(c), Credits(c), u)
                  + (IF command.user_id = u
                       THEN total_usd(CommandAmounts(command)) ELSE 0)
         /\ Total(Payees(c2), Grants(c2), u)
              = Total(Payees(c), Grants(c), u)
                  + (IF command.user_id = u
                       THEN CommandAmounts(command).free_requests ELSE 0)
<1> DEFINE own == Payees(c)
           own2 == Payees(c2)
           usd == Credits(c)
           usd2 == Credits(c2)
           free == Grants(c)
           free2 == Grants(c2)
<1>1. /\ op \notin OwnedBy(own, u)
      /\ DOMAIN own2 = DOMAIN own \cup {op}
      /\ own2[op] = command.user_id
  BY DEF OwnedBy, Payees
<1>2. /\ \A o \in OwnedBy(own, u) : usd[o] \in Int
      /\ \A o \in DOMAIN own \ {op} : own2[o] = own[o] /\ usd2[o] = usd[o]
      /\ usd2[op] = total_usd(CommandAmounts(command)) /\ usd2[op] \in Int
  BY DEF CommandsCount, OwnedBy, Payees, Credits
<1>3. /\ \A o \in OwnedBy(own, u) : free[o] \in Int
      /\ \A o \in DOMAIN own \ {op} : own2[o] = own[o] /\ free2[o] = free[o]
      /\ free2[op] = CommandAmounts(command).free_requests /\ free2[op] \in Int
  BY DEF CommandsCount, OwnedBy, Payees, Grants
<1>4. Total(own, usd, u) \in Int /\ Total(own, free, u) \in Int
  BY CommandTotals
<1> HIDE DEF own, own2, usd, usd2, free, free2
<1>5. IsFiniteSet(OwnedBy(own, u))
  BY DEF own
<1>6. /\ IsFiniteSet(OwnedBy(own2, u))
      /\ own2[op] = u => Total(own2, usd2, u) = Total(own, usd, u) + usd2[op]
      /\ own2[op] # u => Total(own2, usd2, u) = Total(own, usd, u)
  <2>1. Grows(own, usd, own2, usd2, op, u)
    BY <1>1, <1>2, <1>5 DEF Grows
  <2>2. QED
    BY <2>1, TotalGrows
<1>7. /\ own2[op] = u => Total(own2, free2, u) = Total(own, free, u) + free2[op]
      /\ own2[op] # u => Total(own2, free2, u) = Total(own, free, u)
  <2>1. Grows(own, free, own2, free2, op, u)
    BY <1>1, <1>3, <1>5 DEF Grows
  <2>2. QED
    BY <2>1, TotalGrows
<1>8. /\ Total(own2, usd2, u) = Total(own, usd, u)
           + (IF command.user_id = u THEN total_usd(CommandAmounts(command)) ELSE 0)
      /\ Total(own2, free2, u) = Total(own, free, u)
           + (IF command.user_id = u THEN CommandAmounts(command).free_requests ELSE 0)
  BY <1>1, <1>2, <1>3, <1>4, <1>6, <1>7
<1>9. QED
  BY <1>6, <1>8 DEF own, own2, usd, usd2, free, free2

-----------------------------------------------------------------------------
(***************************************************************************)
(* The ledger's steps keep the books.                                      *)
(***************************************************************************)
LEMMA EntriesTyped ==
  ASSUME KeysOK
  PROVE  /\ EntriesCount(TheEntry)
         /\ \A id \in RequestIds : TheEntry[id] # Nil =>
              /\ TheEntry[id].user_id \in Users
              /\ TheEntry[id].plan \in DebitPlans
              /\ TheEntry[id].charged \in Nat
              /\ TheEntry[id].state \in {"held", "charged", "returned"}
<1>1. \A id \in RequestIds : TheEntry[id] # Nil =>
        /\ TheEntry[id].user_id \in Users
        /\ TheEntry[id].plan \in DebitPlans
        /\ TheEntry[id].charged \in Nat
        /\ TheEntry[id].state \in {"held", "charged", "returned"}
  <2> SUFFICES ASSUME NEW id \in RequestIds, TheEntry[id] # Nil
               PROVE  /\ TheEntry[id].user_id \in Users
                      /\ TheEntry[id].plan \in DebitPlans
                      /\ TheEntry[id].charged \in Nat
                      /\ TheEntry[id].state \in {"held", "charged", "returned"}
    OBVIOUS
  <2>1. TheEntry[id] = EntryOf(gen[id]) /\ gen[id] # Nil
    BY DEF TheEntry, EntryOf
  <2>2. gen[id] \in Records
    BY <2>1 DEF KeysOK
  <2>3. EntryOf(gen[id]) = [state |-> StateOf(gen[id].status),
                            user_id |-> gen[id].user_id, plan |-> gen[id].plan,
                            charged |-> gen[id].billed_cost_usd]
    BY <2>2, EntryOfRecord
  <2>4. StateOf(gen[id].status) \in {"held", "charged", "returned"}
    BY <2>2, States DEF Records, Statuses
  <2>5. QED
    BY <2>1, <2>2, <2>3, <2>4 DEF Records
<1>2. ASSUME NEW id \in RequestIds, TheEntry[id] # Nil
      PROVE  CostOf(TheEntry[id]) \in Int /\ TakenOf(TheEntry[id]) \in Int
  <2>1. total_usd(TheEntry[id].plan) \in Int /\ TheEntry[id].plan.free_requests \in Int
    BY <1>1, <1>2 DEF total_usd, DebitPlans
  <2>2. QED
    BY <1>1, <1>2, <2>1 DEF CostOf, TakenOf
<1>3. QED
  BY <1>1, <1>2 DEF EntriesCount

LEMMA EntriesCounted == KeysOK => EntriesCount(TheEntry)
BY EntriesTyped

LEMMA CommandsTyped ==
  /\ \A command \in Commands : IsCounted(CommandAmounts(command))
  /\ \A S : \A commandOf \in [S -> Commands] : CommandsCount(commandOf)
<1>1. \A command \in Commands : IsCounted(CommandAmounts(command))
  BY InputsAssumption, GrainAssumption DEF IsCounted, CommandAmounts, total_usd
<1>2. QED
  BY <1>1 DEF CommandsCount, IsCounted

LEMMA PursesCount ==
  ASSUME KeysOK, Others, NEW u \in Users
  PROVE  /\ IsCounted(ThePurse[u]) /\ IsCounted(StoredBalance(u))
         /\ ThePurse[u] \in [free_usd : Int, bonus_usd : Int, paid_usd : Int,
                             free_requests : Int]
<1>1. PICK b \in Snapshots : ThePurse[u] = PurseOf(b)
  BY Purses DEF ThePurse
<1>2. ThePurse[u] \in [free_usd : Int, bonus_usd : Int, paid_usd : Int,
                       free_requests : Int]
  BY <1>1 DEF PurseOf, Snapshots
<1>3. StoredBalance(u) \in Snapshots
  BY DEF Others, TypedOthers, StoredBalance, Zero, Balances, Snapshots
<1>4. QED
  BY <1>2, <1>3 DEF IsCounted, total_usd, Snapshots

\* An entry takes from the purse what it costs more than before.
LEMMA EntryKeepsBooks ==
  ASSUME KeysOK, KeysOK', Others, row' = row, topup' = topup, Books,
         NEW id \in RequestIds, NEW e, e # Nil, NEW p,
         NEW cost \in Int, NEW taken \in Int,
         TheEntry' = [TheEntry EXCEPT ![id] = e],
         TheEntry[id] # Nil => TheEntry[id].user_id = e.user_id,
         cost = IF TheEntry[id] = Nil THEN 0 ELSE CostOf(TheEntry[id]),
         taken = IF TheEntry[id] = Nil THEN 0 ELSE TakenOf(TheEntry[id]),
         ThePurse' = [ThePurse EXCEPT ![e.user_id] = p],
         total_usd(p) = total_usd(ThePurse[e.user_id]) + cost - CostOf(e),
         p.free_requests = ThePurse[e.user_id].free_requests + taken - TakenOf(e)
  PROVE  Books'
<1>1. PICK c \in [topup -> Commands] :
        /\ \A op \in topup : c[op].operation_id = op
        /\ \A u \in Users :
             Balanced(StoredBalance(u), ThePurse[u], TheEntry, c, u)
  BY DEF Books
<1>2. EntriesCount(TheEntry) /\ EntriesCount(TheEntry') /\ CommandsCount(c)
  <2>1. EntriesCount(TheEntry)'
    BY EntriesCounted, PTL
  <2>2. EntriesCount(TheEntry')
    BY <2>1 DEF EntriesCount
  <2>3. QED
    BY <2>2, EntriesTyped, CommandsTyped
<1> DEFINE entry == TheEntry
           entry2 == TheEntry'
           purse2 == ThePurse'
<1>3. entry2 = [i \in RequestIds |-> IF i = id THEN e ELSE entry[i]]
  BY DEF TheEntry
<1>4. e.user_id \in Users /\ CostOf(e) \in Int /\ TakenOf(e) \in Int
  BY <1>2, <1>3 DEF EntriesCount
<1>5. ASSUME NEW u \in Users
      PROVE  Balanced(StoredBalance(u), purse2[u], entry2, c, u)
  <2>1. Balanced(StoredBalance(u), ThePurse[u], entry, c, u)
    BY <1>1
  <2>2. IsFiniteSet(OwnedBy(Payers(entry), u)) /\ IsFiniteSet(OwnedBy(Payees(c), u))
    BY <2>1 DEF Balanced
  <2>3. /\ IsFiniteSet(OwnedBy(Payers(entry2), u))
        /\ Total(Payers(entry2), Costs(entry2), u)
             = Total(Payers(entry), Costs(entry), u)
                 + (IF e.user_id = u THEN CostOf(e) - cost ELSE 0)
        /\ Total(Payers(entry2), Takings(entry2), u)
             = Total(Payers(entry), Takings(entry), u)
                 + (IF e.user_id = u THEN TakenOf(e) - taken ELSE 0)
    <3> HIDE DEF entry, entry2
    <3>0. EntriesCount(entry)
      BY <1>2 DEF entry
    <3>1. CASE entry[id] = Nil
      <4>1. cost = 0 /\ taken = 0
        BY <3>1 DEF entry
      <4>2. QED
        BY <1>3, <1>4, <2>2, <3>0, <3>1, <4>1, NewEntryTotals
    <3>2. CASE entry[id] # Nil
      <4>1. /\ cost = CostOf(entry[id]) /\ taken = TakenOf(entry[id])
            /\ e.user_id = entry[id].user_id
        BY <3>2 DEF entry
      <4>2. QED
        BY <1>3, <1>4, <2>2, <3>0, <3>2, <4>1, EndedEntryTotals
    <3>3. QED
      BY <3>1, <3>2
  <2>4. /\ purse2[u] = IF u = e.user_id THEN p ELSE ThePurse[u]
        /\ IsCounted(ThePurse[u]) /\ IsCounted(StoredBalance(u))
    BY PursesCount DEF ThePurse
  <2>5. /\ Total(Payers(entry), Costs(entry), u) \in Int
        /\ Total(Payers(entry), Takings(entry), u) \in Int
        /\ Total(Payees(c), Credits(c), u) \in Int
        /\ Total(Payees(c), Grants(c), u) \in Int
    BY <1>2, <2>2, EntryTotals, CommandTotals
  <2> HIDE DEF entry, entry2, purse2
  <2>6. CASE u = e.user_id
    BY <1>4, <2>1, <2>2, <2>3, <2>4, <2>5, <2>6 DEF Balanced, IsCounted
  <2>7. CASE u # e.user_id
    BY <2>1, <2>2, <2>3, <2>4, <2>5, <2>7 DEF Balanced
  <2>8. QED
    BY <2>6, <2>7
<1>6. \A u \in Users : StoredBalance(u)' = StoredBalance(u)
  BY DEF StoredBalance
<1>7. QED
  BY <1>1, <1>5, <1>6 DEF Books

LEMMA PlanArithmetic ==
  ASSUME NEW b \in [free_usd : Int, bonus_usd : Int, paid_usd : Int,
                    free_requests : Int],
         NEW p \in [free_usd : Int, bonus_usd : Int, paid_usd : Int,
                    free_requests : Int]
  PROVE  /\ total_usd(p) \in Int
         /\ total_usd(L!Plus(b, p)) = total_usd(b) + total_usd(p)
         /\ L!Plus(b, p).free_requests = b.free_requests + p.free_requests
         /\ total_usd(L!Minus(b, p)) = total_usd(b) - total_usd(p)
         /\ L!Minus(b, p).free_requests = b.free_requests - p.free_requests
BY DEF total_usd, L!Plus, L!Minus

LEMMA HoldKeepsBooks ==
  ASSUME KeysOK, KeysOK', Others, row' = row, Books,
         NEW request \in Requests, L!Hold(request),
         L!Authorize(request, ThePurse[request.user_id]).debit_plan \in DebitPlans
  PROVE  Books'
<1> DEFINE id == request.client_request_id
           u == request.user_id
           plan == L!Authorize(request, ThePurse[u]).debit_plan
           e == [state |-> "held", user_id |-> u, plan |-> plan, charged |-> 0]
           p == L!Minus(ThePurse[u], plan)
<1>1. id \in RequestIds /\ u \in Users /\ plan \in DebitPlans
  BY InputsAssumption
<1>2. /\ TheEntry[id] = Nil
      /\ ThePurse' = [ThePurse EXCEPT ![u] = p]
      /\ TheEntry' = [TheEntry EXCEPT ![id] = e]
      /\ topup' = topup
  BY DEF L!Hold, L!Entry, ThePurse, TheEntry
<1> HIDE DEF id, u, plan
<1>3. e # Nil
  <2>1. e \in L!Entries
    BY <1>1 DEF L!Entries, L!DebitPlans, DebitPlans
  <2>2. QED
    BY <2>1, EntriesAssumption
<1>4. CostOf(e) = total_usd(plan) /\ TakenOf(e) = plan.free_requests
  BY DEF CostOf, TakenOf
<1>5. /\ total_usd(p) = total_usd(ThePurse[u]) + 0 - CostOf(e)
      /\ p.free_requests = ThePurse[u].free_requests + 0 - TakenOf(e)
  <2>1. plan \in [free_usd : Int, bonus_usd : Int, paid_usd : Int,
                  free_requests : Int]
    BY <1>1 DEF DebitPlans
  <2>2. IsCounted(ThePurse[u])
    BY <1>1, PursesCount
  <2>3. QED
    BY <1>1, <1>4, <2>1, <2>2, PursesCount, PlanArithmetic DEF IsCounted
<1> HIDE DEF p
<1>6. e.user_id = u
  OBVIOUS
<1> HIDE DEF e
<1>7. PICK cost \in Int, taken \in Int : cost = 0 /\ taken = 0
  OBVIOUS
<1>8. /\ cost = IF TheEntry[id] = Nil THEN 0 ELSE CostOf(TheEntry[id])
      /\ taken = IF TheEntry[id] = Nil THEN 0 ELSE TakenOf(TheEntry[id])
      /\ TheEntry[id] # Nil => TheEntry[id].user_id = e.user_id
  BY <1>2, <1>7
<1>9. /\ total_usd(p) = total_usd(ThePurse[e.user_id]) + cost - CostOf(e)
      /\ p.free_requests = ThePurse[e.user_id].free_requests + taken - TakenOf(e)
      /\ ThePurse' = [ThePurse EXCEPT ![e.user_id] = p]
  BY <1>2, <1>5, <1>6, <1>7
<1>10. QED
  BY <1>1, <1>2, <1>3, <1>8, <1>9, EntryKeepsBooks

LEMMA ChargeKeepsBooks ==
  ASSUME KeysOK, KeysOK', Others, row' = row, Books, NEW id \in RequestIds,
         NEW refund \in L!Surpluses(TheEntry[id].plan), L!Charge(id, refund)
  PROVE  Books'
<1> DEFINE was == TheEntry[id]
           u == was.user_id
           billed == L!total_usd(was.plan) - L!total_usd(refund)
           e == [state |-> "charged", user_id |-> u, plan |-> was.plan,
                 charged |-> billed]
           p == L!Plus(ThePurse[u], refund)
<1>1. was # Nil /\ was.state = "held"
  BY DEF L!Charge, L!Held, TheEntry
<1>2. u \in Users /\ was.plan \in DebitPlans
  BY <1>1, EntriesTyped
<1>3. /\ ThePurse' = [ThePurse EXCEPT ![u] = p]
      /\ TheEntry' = [TheEntry EXCEPT ![id] = e]
      /\ topup' = topup
  BY DEF L!Charge, L!Entry, ThePurse, TheEntry
<1>4. /\ refund \in [free_usd : Int, bonus_usd : Int, paid_usd : Int,
                     free_requests : Int]
      /\ refund.free_requests = 0
  BY <1>2 DEF L!Surpluses, DebitPlans
<1>5. billed = total_usd(was.plan) - total_usd(refund)
  BY DEF L!total_usd, total_usd
<1>6. billed \in Nat
  BY <1>2, <1>5 DEF L!Surpluses, DebitPlans, total_usd
<1> HIDE DEF was, u, billed
<1>7. e # Nil
  <2>1. e \in L!Entries
    BY <1>2, <1>6 DEF L!Entries, L!DebitPlans, DebitPlans
  <2>2. QED
    BY <2>1, EntriesAssumption
<1>8. /\ CostOf(e) = billed /\ CostOf(was) = total_usd(was.plan)
      /\ TakenOf(e) = was.plan.free_requests
      /\ TakenOf(was) = was.plan.free_requests
  BY <1>1 DEF CostOf, TakenOf
<1>9. /\ total_usd(p) = total_usd(ThePurse[u]) + CostOf(was) - CostOf(e)
      /\ p.free_requests = ThePurse[u].free_requests + TakenOf(was) - TakenOf(e)
      /\ CostOf(was) \in Int /\ TakenOf(was) \in Int
  <2>1. /\ total_usd(was.plan) \in Int /\ was.plan.free_requests \in Int
    BY <1>2 DEF DebitPlans, total_usd
  <2>2. /\ total_usd(p) = total_usd(ThePurse[u]) + total_usd(refund)
        /\ p.free_requests = ThePurse[u].free_requests + refund.free_requests
        /\ total_usd(refund) \in Int /\ IsCounted(ThePurse[u])
    BY <1>2, <1>4, PursesCount, PlanArithmetic
  <2> HIDE DEF p, e
  <2>3. QED
    BY <1>4, <1>5, <1>8, <2>1, <2>2 DEF IsCounted
<1>10. e.user_id = u
  OBVIOUS
<1> HIDE DEF p, e
<1>11. QED
  BY <1>1, <1>3, <1>7, <1>9, <1>10, EntryKeepsBooks DEF was, u

LEMMA ReturnKeepsBooks ==
  ASSUME KeysOK, KeysOK', Others, row' = row, Books, NEW id \in RequestIds,
         L!Return(id)
  PROVE  Books'
<1> DEFINE was == TheEntry[id]
           u == was.user_id
           e == [state |-> "returned", user_id |-> u, plan |-> was.plan,
                 charged |-> was.charged]
           p == L!Plus(ThePurse[u], was.plan)
<1>1. was # Nil /\ was.state = "held"
  BY DEF L!Return, L!Held, TheEntry
<1>2. u \in Users /\ was.plan \in DebitPlans /\ was.charged \in Nat
  BY <1>1, EntriesTyped
<1>3. /\ ThePurse' = [ThePurse EXCEPT ![u] = p]
      /\ TheEntry' = [TheEntry EXCEPT ![id] = e]
      /\ topup' = topup
  BY DEF L!Return, L!Entry, ThePurse, TheEntry
<1> HIDE DEF was, u
<1>4. e # Nil
  <2>1. e \in L!Entries
    BY <1>2 DEF L!Entries, L!DebitPlans, DebitPlans
  <2>2. QED
    BY <2>1, EntriesAssumption
<1>5. /\ CostOf(e) = 0 /\ CostOf(was) = total_usd(was.plan)
      /\ TakenOf(e) = 0 /\ TakenOf(was) = was.plan.free_requests
  BY <1>1 DEF CostOf, TakenOf
<1>6. /\ total_usd(p) = total_usd(ThePurse[u]) + CostOf(was) - CostOf(e)
      /\ p.free_requests = ThePurse[u].free_requests + TakenOf(was) - TakenOf(e)
      /\ CostOf(was) \in Int /\ TakenOf(was) \in Int
  <2>1. /\ total_usd(was.plan) \in Int /\ was.plan.free_requests \in Int
        /\ was.plan \in [free_usd : Int, bonus_usd : Int, paid_usd : Int,
                         free_requests : Int]
    BY <1>2 DEF DebitPlans, total_usd
  <2>2. /\ total_usd(p) = total_usd(ThePurse[u]) + total_usd(was.plan)
        /\ p.free_requests = ThePurse[u].free_requests + was.plan.free_requests
        /\ IsCounted(ThePurse[u])
    BY <1>2, <2>1, PursesCount, PlanArithmetic
  <2> HIDE DEF p, e
  <2>3. QED
    BY <1>5, <2>1, <2>2 DEF IsCounted
<1>7. e.user_id = u
  OBVIOUS
<1> HIDE DEF p, e
<1>8. QED
  BY <1>1, <1>3, <1>4, <1>6, <1>7, EntryKeepsBooks DEF was, u

LEMMA TopUpKeepsBooks ==
  ASSUME KeysOK, KeysOK', Others, row' = row, Books,
         NEW command \in Commands, L!TopUp(command)
  PROVE  Books'
<1>1. PICK c \in [topup -> Commands] :
        /\ \A o \in topup : c[o].operation_id = o
        /\ \A u \in Users :
             Balanced(StoredBalance(u), ThePurse[u], TheEntry, c, u)
  BY DEF Books
<1> DEFINE op == command.operation_id
           payee == command.user_id
           amounts == CommandAmounts(command)
           c2 == [o \in DOMAIN c \cup {op} |-> IF o = op THEN command ELSE c[o]]
           p == L!Plus(ThePurse[payee], amounts)
           purse2 == ThePurse'
<1>2. /\ op \notin topup /\ topup' = topup \cup {op}
      /\ ThePurse' = [ThePurse EXCEPT ![payee] = p]
      /\ TheEntry' = TheEntry
  BY DEF L!TopUp, L!Credit, CommandAmounts, ThePurse, TheEntry
<1>3. /\ EntriesCount(TheEntry) /\ CommandsCount(c) /\ IsCounted(amounts)
      /\ payee \in Users /\ DOMAIN c = topup
  BY EntriesTyped, CommandsTyped, InputsAssumption
<1>4. amounts \in [free_usd : Int, bonus_usd : Int, paid_usd : Int,
                   free_requests : Int]
  BY InputsAssumption, GrainAssumption DEF CommandAmounts
<1>5. /\ total_usd(p) = total_usd(ThePurse[payee]) + total_usd(amounts)
      /\ p.free_requests = ThePurse[payee].free_requests + amounts.free_requests
  BY <1>3, <1>4, PursesCount, PlanArithmetic
<1>6. ASSUME NEW u \in Users
      PROVE  Balanced(StoredBalance(u), purse2[u], TheEntry, c2, u)
  <2>1. Balanced(StoredBalance(u), ThePurse[u], TheEntry, c, u)
    BY <1>1
  <2>2. /\ IsFiniteSet(OwnedBy(Payers(TheEntry), u))
        /\ IsFiniteSet(OwnedBy(Payees(c), u))
    BY <2>1 DEF Balanced
  <2>3. /\ IsFiniteSet(OwnedBy(Payees(c2), u))
        /\ Total(Payees(c2), Credits(c2), u)
             = Total(Payees(c), Credits(c), u)
                 + (IF payee = u THEN total_usd(amounts) ELSE 0)
        /\ Total(Payees(c2), Grants(c2), u)
             = Total(Payees(c), Grants(c), u)
                 + (IF payee = u THEN amounts.free_requests ELSE 0)
    <3>1. /\ op \notin DOMAIN c /\ total_usd(amounts) \in Int
          /\ amounts.free_requests \in Int
      BY <1>2, <1>3 DEF IsCounted
    <3> HIDE DEF op
    <3>2. QED
      BY <1>3, <2>2, <3>1, NewCreditTotals
  <2>4. /\ purse2[u] = IF u = payee THEN p ELSE ThePurse[u]
        /\ IsCounted(ThePurse[u]) /\ IsCounted(StoredBalance(u))
    BY <1>2, PursesCount DEF ThePurse
  <2>5. /\ Total(Payers(TheEntry), Costs(TheEntry), u) \in Int
        /\ Total(Payers(TheEntry), Takings(TheEntry), u) \in Int
        /\ Total(Payees(c), Credits(c), u) \in Int
        /\ Total(Payees(c), Grants(c), u) \in Int
    BY <1>3, <2>2, EntryTotals, CommandTotals
  <2> HIDE DEF purse2, c2, payee, amounts, p
  <2>6. CASE u = payee
    BY <1>3, <1>5, <2>1, <2>2, <2>3, <2>4, <2>5, <2>6 DEF Balanced, IsCounted
  <2>7. CASE u # payee
    BY <2>1, <2>2, <2>3, <2>4, <2>5, <2>7 DEF Balanced
  <2>8. QED
    BY <2>6, <2>7
<1>7. c2 \in [topup' -> Commands] /\ \A o \in topup' : c2[o].operation_id = o
  BY <1>1, <1>2, <1>3
<1>8. \A u \in Users : StoredBalance(u)' = StoredBalance(u)
  BY DEF StoredBalance
<1> HIDE DEF c2
<1>9. \A u \in Users : Balanced(StoredBalance(u)', ThePurse'[u], TheEntry', c2, u)
  BY <1>2, <1>6, <1>8
<1>10. QED
  BY <1>7, <1>9 DEF Books

LEMMA NothingKeepsBooks ==
  ASSUME Books, row' = row, UNCHANGED L!ledgerVars
  PROVE  Books'
<1>1. ThePurse' = ThePurse /\ TheEntry' = TheEntry /\ topup' = topup
  BY DEF L!ledgerVars, ThePurse, TheEntry
<1>2. \A u \in Users : StoredBalance(u)' = StoredBalance(u)
  BY DEF StoredBalance
<1>3. PICK c \in [topup -> Commands] :
        /\ \A o \in topup : c[o].operation_id = o
        /\ \A u \in Users :
             Balanced(StoredBalance(u), ThePurse[u], TheEntry, c, u)
  BY DEF Books
<1>4. /\ c \in [topup' -> Commands] /\ \A o \in topup' : c[o].operation_id = o
      /\ \A u \in Users :
           Balanced(StoredBalance(u)', ThePurse'[u], TheEntry', c, u)
  BY <1>1, <1>2, <1>3
<1>5. QED
  BY <1>4 DEF Books

LEMMA ScriptKeepsBooks ==
  ASSUME KeysOK, KeysOK', Others, row' = row, Books,
         NEW inv \in Invocations, Fits(inv), Execute(inv)
  PROVE  Books'
<1>1. ASSUME UNCHANGED redis PROVE Books'
  BY <1>1, LedgerStays, NothingKeepsBooks DEF redis
<1>2. CASE inv \in ReserveInvocations
  <2>1. RESERVE(inv)
    BY <1>2 DEF Execute, ReserveInvocations
  <2>2. CASE ReserveReply(inv) = "OK"
    BY <1>2, <2>1, <2>2, ReserveHolds, HoldKeepsBooks
  <2>3. CASE ReserveReply(inv) # "OK"
    BY <1>1, <2>1, <2>3 DEF RESERVE
  <2>4. QED
    BY <2>2, <2>3
<1>3. CASE inv \in SettleInvocations
  <2>1. SETTLE(inv)
    BY <1>3 DEF Execute, SettleInvocations
  <2>2. CASE SettleReply(inv) = "OK"
    BY <1>3, <2>1, <2>2, SettleCharges, ChargeKeepsBooks
  <2>3. CASE SettleReply(inv) # "OK"
    BY <1>1, <2>1, <2>3 DEF SETTLE
  <2>4. QED
    BY <2>2, <2>3
<1>4. CASE inv \in RefundInvocations
  <2>1. REFUND(inv)
    BY <1>4 DEF Execute, RefundInvocations
  <2>2. CASE RefundReply(inv) = "OK"
    BY <1>4, <2>1, <2>2, RefundGivesBack, ReturnKeepsBooks
  <2>3. CASE RefundReply(inv) # "OK"
    BY <1>1, <2>1, <2>3 DEF REFUND
  <2>4. QED
    BY <2>2, <2>3
<1>5. CASE inv \in TopUpInvocations
  <2>1. TOP_UP(inv)
    BY <1>5 DEF Execute, TopUpInvocations
  <2>2. CASE TopUpReply(inv) = "OK"
    BY <1>5, <2>1, <2>2, TopUpCredits, TopUpKeepsBooks
  <2>3. CASE TopUpReply(inv) # "OK"
    BY <1>1, <2>1, <2>3 DEF TOP_UP
  <2>4. QED
    BY <2>2, <2>3
<1>6. QED
  BY <1>2, <1>3, <1>4, <1>5 DEF Invocations

LEMMA NextKeepsBooks ==
  ASSUME BInv, BInv', Books, [Next]_vars
  PROVE  Books'
<1>1. KeysOK /\ Others /\ Moves /\ row' = row
  BY IInvParts, MoneyMoves DEF BInv, Parts
<1>2. KeysOK'
  <2>1. TypeOK' /\ NonNegative'
    BY DEF BInv, IInv, TInv, Vouched
  <2>2. QED
    BY <2>1 DEF TypeOK, StoreTypeOK, KeysOK
<1>3. CASE UNCHANGED <<bal, gen, topup>>
  BY <1>1, <1>3, LedgerStays, NothingKeepsBooks
<1>4. CASE \E inv \in Invocations : Fits(inv) /\ Execute(inv)
  BY <1>1, <1>2, <1>4, ScriptKeepsBooks
<1>5. CASE \E u \in Users : Seeds(u)
  BY <1>1, <1>5, SeedsStays, NothingKeepsBooks
<1>6. QED
  BY <1>1, <1>3, <1>4, <1>5 DEF Moves
LEMMA InitBooks == Init => Books
<1> SUFFICES ASSUME Init PROVE Books
  OBVIOUS
<1> DEFINE c == [op \in {} |-> Nil]
<1>1. topup = {} /\ c \in [topup -> Commands] /\ DOMAIN c = {}
  BY DEF Init, StoreInit
<1>2. \A id \in RequestIds : TheEntry[id] = Nil
  BY DEF Init, StoreInit, TheEntry, EntryOf
<1>3. ASSUME NEW u \in Users
      PROVE  Balanced(StoredBalance(u), ThePurse[u], TheEntry, c, u)
  <2>1. \A id \in DOMAIN Payers(TheEntry) : Payers(TheEntry)[id] # u
    BY <1>2, NilAssumption DEF Payers
  <2>2. \A op \in DOMAIN Payees(c) : Payees(c)[op] # u
    BY DEF Payees
  <2> HIDE DEF c
  <2>3. /\ IsFiniteSet(OwnedBy(Payers(TheEntry), u))
        /\ Total(Payers(TheEntry), Costs(TheEntry), u) = 0
        /\ Total(Payers(TheEntry), Takings(TheEntry), u) = 0
    BY <2>1, TotalEmpty
  <2>4. /\ IsFiniteSet(OwnedBy(Payees(c), u))
        /\ Total(Payees(c), Credits(c), u) = 0
        /\ Total(Payees(c), Grants(c), u) = 0
    BY <2>2, TotalEmpty
  <2>5. ThePurse[u] = PurseOf(StoredBalance(u))
    BY DEF Init, ThePurse, Purse, Warm
  <2>6. StoredBalance(u) \in Balances
    BY RowsAssumption DEF Init, StoredBalance, Zero, Balances
  <2>7. QED
    BY <2>3, <2>4, <2>5, <2>6 DEF Balanced, PurseOf, Balances, total_usd
<1> HIDE DEF c
<1>4. \A op \in topup : c[op].operation_id = op
  BY <1>1
<1>5. QED
  BY <1>1, <1>3, <1>4 DEF Books

-----------------------------------------------------------------------------
(***************************************************************************)
(* The books, in the terms of the store.                                   *)
(***************************************************************************)
LEMMA CostOfRecord ==
  ASSUME NEW r \in Records
  PROVE  CostOf(EntryOf(r)) = Cost(r) /\ TakenOf(EntryOf(r)) = RequestsTaken(r)
<1>1. EntryOf(r) = [state |-> StateOf(r.status), user_id |-> r.user_id,
                    plan |-> r.plan, charged |-> r.billed_cost_usd]
  BY EntryOfRecord
<1>2. r.status \in {"running", "done", "failed"}
  BY DEF Records, Statuses
<1>3. QED
  BY <1>1, <1>2, States DEF CostOf, Cost, TakenOf, RequestsTaken

LEMMA BooksConserve ==
  ASSUME KeysOK, Others, Books
  PROVE  Conservation
<1>1. PICK c \in [topup -> Commands] :
        /\ \A op \in topup : c[op].operation_id = op
        /\ \A u \in Users :
             Balanced(StoredBalance(u), ThePurse[u], TheEntry, c, u)
  BY DEF Books
<1>2. \A id \in RequestIds :
        /\ gen[id] = Nil => TheEntry[id] = Nil
        /\ gen[id] # Nil =>
             /\ TheEntry[id] # Nil
             /\ TheEntry[id].user_id = gen[id].user_id
             /\ CostOf(TheEntry[id]) = Cost(gen[id])
             /\ TakenOf(TheEntry[id]) = RequestsTaken(gen[id])
  <2> SUFFICES ASSUME NEW id \in RequestIds
               PROVE  /\ gen[id] = Nil => TheEntry[id] = Nil
                      /\ gen[id] # Nil =>
                           /\ TheEntry[id] # Nil
                           /\ TheEntry[id].user_id = gen[id].user_id
                           /\ CostOf(TheEntry[id]) = Cost(gen[id])
                           /\ TakenOf(TheEntry[id]) = RequestsTaken(gen[id])
    OBVIOUS
  <2>1. TheEntry[id] = EntryOf(gen[id])
    BY DEF TheEntry
  <2>2. gen[id] = Nil => TheEntry[id] = Nil
    BY <2>1 DEF EntryOf
  <2>3. gen[id] # Nil => gen[id] \in Records
    BY DEF KeysOK
  <2>4. QED
    BY <2>1, <2>2, <2>3, EntryOfRecord, CostOfRecord
<1>3. ASSUME NEW u \in Users
      PROVE  /\ OwnedBy(Payers(TheEntry), u) = RecordsOf(u)
             /\ Total(Payers(TheEntry), Costs(TheEntry), u)
                  = SumFunction([id \in RecordsOf(u) |-> Cost(gen[id])])
             /\ Total(Payers(TheEntry), Takings(TheEntry), u)
                  = SumFunction([id \in RecordsOf(u) |-> RequestsTaken(gen[id])])
  <2>1. OwnedBy(Payers(TheEntry), u) = RecordsOf(u)
    BY <1>2, NilAssumption DEF OwnedBy, Payers, RecordsOf
  <2>2. \A id \in RecordsOf(u) : /\ Costs(TheEntry)[id] = Cost(gen[id])
                                 /\ Takings(TheEntry)[id] = RequestsTaken(gen[id])
    BY <1>2 DEF RecordsOf, Costs, Takings
  <2>3. /\ [id \in RecordsOf(u) |-> Costs(TheEntry)[id]]
             = [id \in RecordsOf(u) |-> Cost(gen[id])]
        /\ [id \in RecordsOf(u) |-> Takings(TheEntry)[id]]
             = [id \in RecordsOf(u) |-> RequestsTaken(gen[id])]
    BY <2>2
  <2>4. QED
    BY <2>1, <2>3 DEF Total
<1>4. ASSUME NEW u \in Users, NEW ops, ops = {op \in topup : c[op].user_id = u}
      PROVE  /\ Total(Payees(c), Credits(c), u)
                  = SumFunction([op \in ops |-> total_usd(CommandAmounts(c[op]))])
             /\ Total(Payees(c), Grants(c), u)
                  = SumFunction([op \in ops |-> CommandAmounts(c[op]).free_requests])
  <2>1. OwnedBy(Payees(c), u) = ops
    BY <1>4 DEF OwnedBy, Payees
  <2>2. /\ [op \in ops |-> Credits(c)[op]]
             = [op \in ops |-> total_usd(CommandAmounts(c[op]))]
        /\ [op \in ops |-> Grants(c)[op]]
             = [op \in ops |-> CommandAmounts(c[op]).free_requests]
    BY <1>4 DEF Credits, Grants
  <2>3. QED
    BY <2>1, <2>2 DEF Total
<1>5. ASSUME NEW u \in Users, bal[u] # Nil
      PROVE  LET ops == {op \in topup : c[op].user_id = u}
             IN  /\ total_usd(bal[u]) =
                      total_usd(StoredBalance(u))
                        + SumFunction([op \in ops |->
                                         total_usd(CommandAmounts(c[op]))])
                        - SumFunction([id \in RecordsOf(u) |-> Cost(gen[id])])
                 /\ bal[u].free_requests =
                      StoredBalance(u).free_requests
                        + SumFunction([op \in ops |->
                                         CommandAmounts(c[op]).free_requests])
                        - SumFunction([id \in RecordsOf(u) |-> RequestsTaken(gen[id])])
  <2> DEFINE ops == {op \in topup : c[op].user_id = u}
  <2>1. Balanced(StoredBalance(u), ThePurse[u], TheEntry, c, u)
    BY <1>1
  <2>2. /\ total_usd(ThePurse[u]) = total_usd(bal[u])
        /\ ThePurse[u].free_requests = bal[u].free_requests
    BY <1>5, Purses DEF ThePurse, PurseOf, total_usd
  <2> HIDE DEF ops
  <2>3. QED
    BY <1>3, <1>4, <2>1, <2>2 DEF Balanced, ops
<1>6. QED
  BY <1>1, <1>5 DEF Conservation

\* No money is lost and none invented: whatever is retried, redelivered, late or
\* abandoned, a balance is what it started with, plus every credited top-up once,
\* minus what the generations hold or were charged.
THEOREM MoneyConserved == Spec => []Conservation
<1>1. BInv /\ BInv' /\ Books /\ [Next]_vars => Books'
  BY NextKeepsBooks
<1>2. BInv /\ Books => Conservation
  BY BooksConserve, IInvParts DEF BInv, Parts
<1>3. QED
  BY <1>1, <1>2, InitBooks, BInvInvariant, PTL DEF Spec
=============================================================================
