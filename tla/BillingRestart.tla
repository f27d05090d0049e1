---------------------------- MODULE BillingRestart ----------------------------
(***************************************************************************)
(* The service of Billing on a Redis that restarts behind the writes it    *)
(* acknowledged.  Calls, top-ups and reapers are in the middle of what     *)
(* they were doing, with snapshots, plans and ids of keys that are not     *)
(* there any more.                                                         *)
(***************************************************************************)
EXTENDS Billing, RedisServer

VARIABLE interrupted   \* ids a reaper had in hand when Redis restarted

lossyVars == <<vars, disk, losses, interrupted>>

LossyInit == Init /\ ServerInit /\ interrupted = {}

\* The ids a reaper has taken from the index and is not done with.
InHand(r) ==
  (IF At(r, "idle") \/ At(r, "done") THEN {} ELSE task[r].work)
    \cup (IF At(r, "forget") THEN {task[r].id} ELSE {})

RestartUnderReapers ==
  /\ Restart
  /\ interrupted' = interrupted \cup UNION {InHand(r) : r \in Reapers}
  /\ UNCHANGED provider_calls

LossyNext ==
  \/ Next /\ UNCHANGED <<disk, losses, interrupted>>
  \/ Fsync /\ UNCHANGED <<provider_calls, interrupted>>
  \/ RestartUnderReapers

LossySpec == LossyInit /\ [][LossyNext]_lossyVars

-----------------------------------------------------------------------------
\* A restart does not reopen what it has brought back closed, nor hands a reservation
\* that survived to another attempt: whatever is late, the records that came back
\* go on as on a Redis that kept its data.  One that has ended stays as it ended,
\* one that is running keeps its owner, its token and its plan and can only end.
SurvivorsEndOnce ==
  [][losses' = losses =>
       \A id \in RequestIds : gen[id] # Nil =>
         /\ gen'[id] # Nil
         /\ gen'[id].user_id = gen[id].user_id
         /\ gen'[id].reservation_token = gen[id].reservation_token
         /\ gen'[id].plan = gen[id].plan
         /\ gen'[id] = gen[id] \/ /\ gen[id].status = "running"
                                  /\ gen'[id].status # "running"
    ]_lossyVars

\* A restart leaves no reservation that nobody will refund: records and index come
\* back from the same moment, and whoever is late, a call that ends what is gone or a
\* retry, does not part them.  Only an id that a reaper had in hand may be a
\* reservation again by the time it is forgotten (reap_once), and for good.
IndexSurvives ==
  \A id \in RequestIds \ interrupted :
    id \in inflight <=> gen[id] # Nil /\ gen[id].status = "running"
=============================================================================
