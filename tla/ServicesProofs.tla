----------------------------- MODULE ServicesProofs ----------------------------
(***************************************************************************)
(* Theorems about InferenceBilling and BatchInference, for any number of   *)
(* requests, providers and batches, any prices and any grants: a request   *)
(* id is disposed of once, a `settled` receipt or line is backed by a      *)
(* charge, slots are neither leaked nor shared, and the wallet, the grants *)
(* and the providers' earnings are what the charges add up to. The last    *)
(* part proves that the two services implement ChargeAccount.              *)
(***************************************************************************)
EXTENDS BatchInference, SumProofs, FiniteSetTheorems, TLAPS

-----------------------------------------------------------------------------
(* The invariant *)

\* The handlers in progress: a provider is tried once, so the slots a handler holds
\* and the candidates it has left are apart.
CallsOK ==
  /\ call \in [Calls -> Handler \cup {NoCall}]
  /\ \A c \in Calls : call[c] # NoCall => call[c].slots \cap call[c].rest = {}

SlotsOK ==
  /\ inflight \in [Nodes -> Nat]
  /\ SlotsAreHeld

\* The two tables: billing_attempts and usage_events have a row or none per id.
TablesOK ==
  /\ attempt = [r \in Requests |-> attempt[r]]
  /\ event \in [Requests -> Receipt]

\* Besides ReceiptsAreBacked: a claim is never without an event, so a replay has
\* nothing to add.
Backed ==
  /\ ReceiptsAreBacked
  /\ \A r \in Requests : attempt[r].status # "none" => event[r].status # "none"

\* Where the worker is with a batch
On(b, phase) == worker # NoWork /\ worker.batch = b /\ worker.phase = phase

\* Batches of which nothing is charged yet: stored, with the executor, or taking the
\* proofs of their lines
Untouched(b) ==
  batch[b].status \in {"absent", "created"} \/ On(b, "executing") \/ On(b, "applying")

\* A line that settlement has not reached
Off(l) == line[l].settlement = "unsettled" /\ attempt[l].status = "none"

\* A line that is charged and marked, or has nothing to charge
Whole(l) ==
  /\ Billable(l) <=> attempt[l].status = "settled"
  /\ attempt[l].status = "settled" => line[l].settlement = "settled"

LineOK(l) ==
  /\ attempt[l].status \in {"none", "settled"}
  /\ attempt[l].status = "settled" => attempt[l].cost = line[l].cost
  /\ line[l].settlement \in {"settled", "already_settled"} => attempt[l].status = "settled"
  /\ Untouched(l[1]) => Off(l)
  /\ On(l[1], "settling") => IF l \in worker.todo THEN Billable(l) ELSE Whole(l)

\* A batch is completed after every line was settled, or after none was.
BatchWhole(b) ==
  batch[b].status = "completed" =>
    (\A l \in LinesOf(b) : Whole(l)) \/ (\A l \in LinesOf(b) : Off(l))

Work == [phase : {"executing", "applying", "settling"}, batch : Batches,
         settles : BOOLEAN, todo : SUBSET Lines]

\* The tables of the worker
WorkOK ==
  /\ batch = [b \in Batches |-> [status |-> batch[b].status, total |-> batch[b].total]]
  /\ line \in [Lines -> LineRow]
  /\ worker \in Work \cup {NoWork}
  /\ creating \subseteq Batches
  /\ worker # NoWork =>
       batch[worker.batch].status = "running" /\ worker.todo \subseteq LinesOf(worker.batch)

LinesOK ==
  /\ WorkOK
  /\ \A l \in Lines : LineOK(l)
  /\ \A b \in Batches : BatchWhole(b)

ServiceInv == CallsOK /\ SlotsOK /\ TablesOK /\ Backed /\ LinesOK
-----------------------------------------------------------------------------
(* What a step does to the tables *)

\* A step that disposes of the ids in S only, and of each at most once
Disposes(S) ==
  /\ TablesOK'
  /\ Backed'
  /\ \A r \in Requests : attempt[r].status # "none" => attempt'[r] = attempt[r]
  /\ \A r \in Requests \ S : attempt'[r] = attempt[r]

\* Kept writes the receipt of one id, unless it has one.
LEMMA KeptWrites ==
  ASSUME NEW rows \in [Requests -> Receipt], NEW r \in Requests,
         NEW s \in {"settled", "failed"}, NEW cost \in Costs
  PROVE  /\ Kept(rows, r, s, cost) \in [Requests -> Receipt]
         /\ \A q \in Requests \ {r} : Kept(rows, r, s, cost)[q] = rows[q]
         /\ Kept(rows, r, s, cost)[r] =
              IF rows[r].status = "none" THEN [status |-> s, cost |-> cost] ELSE rows[r]
BY DEF Kept, Receipt

\* settleInferenceOnce claims an id that has no attempt, and its receipt agrees.
LEMMA SettleDisposes ==
  ASSUME TablesOK, Backed, NEW r \in Requests, NEW n, NEW cost \in Costs,
         SettleInferenceOnce(r, n, cost)
  PROVE  /\ Disposes({r})
         /\ attempt'[r].status = "settled" /\ attempt'[r].cost = cost
<1> DEFINE row == [status |-> "settled", cost |-> cost, drained |-> Drained(cost),
                   paid |-> Shortfall(cost), node |-> n]
<1>1. /\ attempt[r].status = "none"
      /\ attempt' = [attempt EXCEPT ![r] = row]
      /\ event' = Kept(event, r, "settled", cost)
  BY DEF SettleInferenceOnce, Unclaimed
<1>2. row.status = "settled" /\ row.cost = cost
  OBVIOUS
<1> HIDE DEF row
<1>3. /\ attempt' = [q \in Requests |-> attempt'[q]]
      /\ attempt'[r] = row
      /\ \A q \in Requests \ {r} : attempt'[q] = attempt[q]
  BY <1>1 DEF TablesOK
<1>4. /\ event' \in [Requests -> Receipt]
      /\ \A q \in Requests \ {r} : event'[q] = event[q]
      /\ event'[r] = IF event[r].status = "none"
                     THEN [status |-> "settled", cost |-> cost] ELSE event[r]
  BY <1>1, KeptWrites DEF TablesOK
<1>5. event[r].status # "settled"
  BY <1>1 DEF Backed, ReceiptsAreBacked
<1>6. Backed'
  <2>1. ASSUME NEW q \in Requests, event'[q].status = "settled"
        PROVE  attempt'[q].status = "settled" /\ attempt'[q].cost = event'[q].cost
    <3>1. CASE q = r
      BY <1>2, <1>3, <1>4, <1>5, <2>1, <3>1
    <3>2. CASE q # r
      BY <1>3, <1>4, <2>1, <3>2 DEF Backed, ReceiptsAreBacked
    <3> QED  BY <3>1, <3>2
  <2>2. ASSUME NEW q \in Requests, attempt'[q].status # "none"
        PROVE  event'[q].status # "none"
    BY <1>3, <1>4, <2>2 DEF Backed
  <2> QED  BY <2>1, <2>2 DEF Backed, ReceiptsAreBacked
<1> QED  BY <1>1, <1>2, <1>3, <1>4, <1>6 DEF Disposes, TablesOK

\* A claim without a charge leaves a claimed id alone and writes no `settled` receipt.
LEMMA ClaimDisposes ==
  ASSUME TablesOK, Backed, NEW r \in Requests, NEW n, NEW s \in {"insufficient_balance", "no_answer"},
         NEW claimed, NEW cost \in Costs, ClaimUncharged(r, n, s, claimed, cost)
  PROVE  Disposes({r})
<1> DEFINE row == [status |-> s, cost |-> claimed, drained |-> 0, paid |-> 0, node |-> n]
<1>1. /\ attempt' = IF attempt[r].status # "none" THEN attempt
                    ELSE [attempt EXCEPT ![r] = row]
      /\ event' = Kept(event, r, "failed", cost)
  BY DEF ClaimUncharged, Unclaimed
<1>2. row.status # "none"
  OBVIOUS
<1> HIDE DEF row
<1>3. /\ attempt' = [q \in Requests |-> attempt'[q]]
      /\ attempt'[r] = IF attempt[r].status # "none" THEN attempt[r] ELSE row
      /\ \A q \in Requests \ {r} : attempt'[q] = attempt[q]
  BY <1>1 DEF TablesOK
<1>4. /\ event' \in [Requests -> Receipt]
      /\ \A q \in Requests \ {r} : event'[q] = event[q]
      /\ event'[r] = IF event[r].status = "none"
                     THEN [status |-> "failed", cost |-> cost] ELSE event[r]
  BY <1>1, KeptWrites DEF TablesOK
<1>5. Backed'
  <2>1. ASSUME NEW q \in Requests, event'[q].status = "settled"
        PROVE  attempt'[q].status = "settled" /\ attempt'[q].cost = event'[q].cost
    <3>1. event'[q] = event[q]
      BY <1>4, <2>1
    <3>2. attempt[q].status = "settled" /\ attempt[q].cost = event[q].cost
      BY <2>1, <3>1 DEF Backed, ReceiptsAreBacked
    <3>3. attempt'[q] = attempt[q]
      BY <1>3, <3>2
    <3> QED  BY <3>1, <3>2, <3>3
  <2>2. ASSUME NEW q \in Requests, attempt'[q].status # "none"
        PROVE  event'[q].status # "none"
    BY <1>3, <1>4, <2>2 DEF Backed
  <2> QED  BY <2>1, <2>2 DEF Backed, ReceiptsAreBacked
<1> QED  BY <1>3, <1>4, <1>5 DEF Disposes, TablesOK

\* Receipts alone: a failed one, or those of a replay, which exist already.
LEMMA ReceiptDisposes ==
  ASSUME TablesOK, Backed, NEW r \in Requests, NEW cost \in Costs, UNCHANGED attempt,
         \/ event' = Kept(event, r, "failed", cost)
         \/ ~ Unclaimed(r) /\ event' = Kept(event, r, "settled", cost)
  PROVE  Disposes({})
<1>1. CASE event' = Kept(event, r, "failed", cost)
  <2>1. /\ event' \in [Requests -> Receipt]
        /\ \A q \in Requests \ {r} : event'[q] = event[q]
        /\ event'[r] = IF event[r].status = "none"
                       THEN [status |-> "failed", cost |-> cost] ELSE event[r]
    BY <1>1, KeptWrites DEF TablesOK
  <2>2. Backed'
    BY <2>1 DEF Backed, ReceiptsAreBacked
  <2> QED  BY <2>1, <2>2 DEF Disposes, TablesOK
<1>2. CASE ~ Unclaimed(r) /\ event' = Kept(event, r, "settled", cost)
  <2>1. event[r].status # "none"
    BY <1>2 DEF Unclaimed, Backed
  <2>2. event' = event
    BY <1>2, <2>1 DEF Kept
  <2> QED  BY <2>2 DEF Disposes, TablesOK, Backed, ReceiptsAreBacked
<1> QED  BY <1>1, <1>2

\* A step that leaves both tables alone
LEMMA NothingDisposed ==
  ASSUME TablesOK, Backed, UNCHANGED <<attempt, event>>
  PROVE  Disposes({})
BY DEF Disposes, TablesOK, Backed, ReceiptsAreBacked

\* The ids a step may touch are more than those it does.
LEMMA DisposesMore ==
  ASSUME NEW S, NEW T, S \subseteq T, Disposes(S)
  PROVE  Disposes(T)
BY DEF Disposes
-----------------------------------------------------------------------------
(* Slots *)

Holders(n) == {c \in Calls : call[c] # NoCall /\ n \in call[c].slots}

\* The holders of a provider can be counted.
LEMMA HoldersFinite ==
  ASSUME NEW n
  PROVE  IsFiniteSet(Holders(n)) /\ Cardinality(Holders(n)) \in Nat
<1>1. Holders(n) \subseteq Calls
  BY DEF Holders
<1> QED  BY <1>1, CallsAssumption, FS_Subset, FS_CardinalityType

\* NoCall is not a handler.
LEMMA NoCallIsNone ==
  ASSUME NEW h \in Handler PROVE h # NoCall /\ h.slots \subseteq Nodes /\ h.rest \subseteq Nodes
<1>1. h.phase \in {"proxy", "queue"} /\ NoCall.phase = "idle"
  BY DEF Handler, NoCall
<1> QED  BY <1>1 DEF Handler

\* A handler takes the slot of one more provider (Admit, FailOver).
LEMMA SlotTaken ==
  ASSUME CallsOK, SlotsOK, NEW c \in Calls, NEW n \in Nodes, NEW h \in Handler,
         n \notin h.rest, h.slots \cap h.rest = {},
         \/ call[c] = NoCall /\ h.slots = {n}
         \/ call[c] # NoCall /\ n \notin call[c].slots /\ h.slots = call[c].slots \cup {n},
         call' = [call EXCEPT ![c] = h], inflight' = [inflight EXCEPT ![n] = @ + 1]
  PROVE  CallsOK' /\ SlotsOK'
<1>1. h # NoCall
  BY NoCallIsNone
<1>2. /\ call' \in [Calls -> Handler \cup {NoCall}]
      /\ call'[c] = h /\ \A d \in Calls \ {c} : call'[d] = call[d]
  BY DEF CallsOK
<1>3. CallsOK'
  BY <1>2 DEF CallsOK
<1>4. /\ inflight' \in [Nodes -> Nat]
      /\ inflight'[n] = inflight[n] + 1
      /\ \A m \in Nodes \ {n} : inflight'[m] = inflight[m]
  BY DEF SlotsOK
<1>5. Holders(n)' = Holders(n) \cup {c} /\ c \notin Holders(n)
  BY <1>1, <1>2 DEF Holders
<1>6. ASSUME NEW m \in Nodes \ {n} PROVE Holders(m)' = Holders(m)
  BY <1>1, <1>2, <1>6 DEF Holders
<1>7. Cardinality(Holders(n)') = Cardinality(Holders(n)) + 1
  BY <1>5, HoldersFinite, FS_AddElement
<1>8. \A m \in Nodes : inflight[m] = Cardinality(Holders(m))
  BY DEF SlotsOK, SlotsAreHeld, Holders
<1>9. ASSUME NEW m \in Nodes PROVE inflight'[m] = Cardinality(Holders(m)')
  <2>1. CASE m = n
    BY <1>4, <1>7, <1>8, <2>1
  <2>2. CASE m # n
    BY <1>4, <1>6, <1>8, <2>2
  <2> QED  BY <2>1, <2>2
<1>10. SlotsAreHeld'
  BY <1>9 DEF SlotsAreHeld, Holders
<1> QED  BY <1>3, <1>4, <1>10 DEF SlotsOK

\* The finally block gives back the slots the handler holds, and no others.
LEMMA SlotsReleased ==
  ASSUME CallsOK, SlotsOK, NEW c \in Calls, call[c] # NoCall, Finish(c)
  PROVE  CallsOK' /\ SlotsOK'
<1>1. /\ call' \in [Calls -> Handler \cup {NoCall}]
      /\ call'[c] = NoCall /\ \A d \in Calls \ {c} : call'[d] = call[d]
  BY DEF CallsOK, Finish
<1>2. CallsOK'
  BY <1>1 DEF CallsOK
<1>3. \A n \in Nodes : inflight[n] = Cardinality(Holders(n))
  BY DEF SlotsOK, SlotsAreHeld, Holders
<1>4. \A n \in Nodes : inflight'[n] = IF n \in call[c].slots THEN inflight[n] - 1 ELSE inflight[n]
  BY DEF Finish, Release
<1>5. ASSUME NEW n \in Nodes
      PROVE  inflight'[n] = Cardinality(Holders(n)') /\ inflight'[n] \in Nat
  <2>1. CASE n \in call[c].slots
    <3>1. Holders(n)' = Holders(n) \ {c} /\ c \in Holders(n)
      BY <1>1, <2>1 DEF Holders
    <3>2. IsFiniteSet(Holders(n)) /\ IsFiniteSet(Holders(n) \ {c})
      BY HoldersFinite, FS_Subset
    <3>3. /\ Cardinality(Holders(n) \ {c}) = Cardinality(Holders(n)) - 1
          /\ Cardinality(Holders(n) \ {c}) \in Nat
      BY <3>1, <3>2, FS_RemoveElement, FS_CardinalityType
    <3> QED  BY <1>3, <1>4, <2>1, <3>1, <3>3
  <2>2. CASE n \notin call[c].slots
    <3>1. Holders(n)' = Holders(n)
      BY <1>1, <2>2 DEF Holders
    <3> QED  BY <1>3, <1>4, <2>2, <3>1, HoldersFinite
  <2> QED  BY <2>1, <2>2
<1>6. inflight' \in [Nodes -> Nat]
  BY <1>5 DEF Finish, Release
<1>7. SlotsAreHeld'
  BY <1>5 DEF SlotsAreHeld, Holders
<1> QED  BY <1>2, <1>6, <1>7 DEF SlotsOK

\* A restart forgets every slot with its handler.
LEMMA SlotsForgotten ==
  ASSUME CallsOK, SlotsOK, Restart
  PROVE  CallsOK' /\ SlotsOK'
<1>1. \A n \in Nodes : Holders(n)' = {}
  BY DEF Restart, Holders
<1>2. \A n \in Nodes : inflight'[n] = 0
  BY DEF Restart
<1>3. SlotsAreHeld'
  BY <1>1, <1>2, FS_EmptySet DEF SlotsAreHeld, Holders
<1> QED  BY <1>3 DEF CallsOK, SlotsOK, Restart

\* The request is queued without a slot.
LEMMA SlotsKept ==
  ASSUME CallsOK, SlotsOK, NEW c \in Calls, NEW h \in Handler, h.slots = {},
         call[c] = NoCall, call' = [call EXCEPT ![c] = h], UNCHANGED inflight
  PROVE  CallsOK' /\ SlotsOK'
<1>1. /\ call' \in [Calls -> Handler \cup {NoCall}]
      /\ call'[c] = h /\ \A d \in Calls \ {c} : call'[d] = call[d]
  BY DEF CallsOK
<1>2. CallsOK'
  BY <1>1 DEF CallsOK
<1>3. \A n \in Nodes : Holders(n)' = Holders(n)
  BY <1>1 DEF Holders
<1>4. SlotsAreHeld'
  BY <1>3 DEF SlotsOK, SlotsAreHeld, Holders
<1> QED  BY <1>2, <1>4 DEF SlotsOK
-----------------------------------------------------------------------------
(* The steps of the API process *)

\* What every step of POST /v1/chat/completions does, alone or beside a crash
LEMMA BillingKeeps ==
  ASSUME CallsOK, SlotsOK, TablesOK, Backed, BillingNext
  PROVE  CallsOK' /\ SlotsOK' /\ Disposes(Keys)
<1> USE KeysAssumption, AmountsAssumption
<1>1. \A cost \in 1 .. MaxCost : cost \in Costs
  BY DEF Costs
<1>2. PromptCost \in Costs
  BY DEF Costs
<1>3. Disposes({}) => Disposes(Keys)
  BY DisposesMore
<1>4. \A k \in Keys : k \in Requests /\ (Disposes({k}) => Disposes(Keys))
  BY DisposesMore
<1>5. \A c \in Calls : call[c] # NoCall => call[c] \in Handler /\ call[c].key \in Keys
  BY DEF CallsOK, Handler
<1>6. ASSUME NEW c \in Calls, NEW k \in Keys, NEW n \in Nodes, NEW others \in SUBSET Nodes,
             NEW stream \in BOOLEAN, NEW est \in 1 .. MaxCost, Admit(c, k, n, others, stream, est)
      PROVE  CallsOK' /\ SlotsOK' /\ Disposes(Keys)
  <2> DEFINE h == [phase |-> "proxy", key |-> k, node |-> n, slots |-> {n},
                   rest |-> others, stream |-> stream]
  <2>1. h \in Handler /\ h.slots = {n} /\ h.rest = others
    BY DEF Handler
  <2>2. /\ call[c] = NoCall /\ n \notin others
        /\ call' = [call EXCEPT ![c] = h] /\ inflight' = [inflight EXCEPT ![n] = @ + 1]
        /\ UNCHANGED <<attempt, event>>
    BY <1>6 DEF Admit, money
  <2> HIDE DEF h
  <2> QED  BY <1>3, <2>1, <2>2, SlotTaken, NothingDisposed
<1>7. ASSUME NEW c \in Calls, NEW k \in Keys, NEW n \in Nodes, NEW est \in 1 .. MaxCost,
             Enqueue(c, k, n, est)
      PROVE  CallsOK' /\ SlotsOK' /\ Disposes(Keys)
  <2> DEFINE h == [phase |-> "queue", key |-> k, node |-> n, slots |-> {},
                   rest |-> {}, stream |-> FALSE]
  <2>1. h \in Handler /\ h.slots = {}
    BY DEF Handler
  <2>2. /\ call[c] = NoCall /\ call' = [call EXCEPT ![c] = h]
        /\ UNCHANGED <<inflight, attempt, event>>
    BY <1>7 DEF Enqueue, money
  <2> HIDE DEF h
  <2> QED  BY <1>3, <2>1, <2>2, SlotsKept, NothingDisposed
<1>8. ASSUME NEW c \in Calls, NEW n \in Nodes, FailOver(c, n)
      PROVE  CallsOK' /\ SlotsOK' /\ Disposes(Keys)
  <2>1. call[c] \in Handler /\ call[c] # NoCall /\ call[c].slots \cap call[c].rest = {}
    BY <1>8 DEF FailOver, CallsOK, NoCall
  <2>2. PICK skipped \in SUBSET {m \in call[c].rest : ~ Free(m)} :
          call' = [call EXCEPT ![c].node = n, ![c].slots = @ \cup {n},
                               ![c].rest = @ \ (skipped \cup {n})]
    BY <1>8 DEF FailOver
  <2> DEFINE h == [call[c] EXCEPT !.node = n, !.slots = @ \cup {n},
                                  !.rest = @ \ (skipped \cup {n})]
  <2>3. /\ h \in Handler /\ h.slots = call[c].slots \cup {n}
        /\ h.rest = call[c].rest \ (skipped \cup {n})
    BY <2>1 DEF Handler
  <2>4. call' = [call EXCEPT ![c] = h]
    BY <2>1, <2>2 DEF CallsOK, Handler
  <2>5. /\ n \in call[c].rest /\ inflight' = [inflight EXCEPT ![n] = @ + 1]
        /\ UNCHANGED <<attempt, event>>
    BY <1>8 DEF FailOver, money
  <2> HIDE DEF h
  <2>6. n \notin h.rest /\ h.slots \cap h.rest = {} /\ n \notin call[c].slots
    BY <2>1, <2>3, <2>5
  <2>7. CallsOK' /\ SlotsOK'
    BY <2>1, <2>3, <2>4, <2>5, <2>6, SlotTaken
  <2> QED  BY <1>3, <2>5, <2>7, NothingDisposed
<1>9. ASSUME NEW c \in Calls, NEW cost \in 1 .. MaxCost, Answer(c, cost)
      PROVE  CallsOK' /\ SlotsOK' /\ Disposes(Keys)
  <2>1. call[c] # NoCall /\ Finish(c) /\ call[c].key \in Keys /\ cost \in Costs
    BY <1>1, <1>5, <1>9 DEF Answer
  <2>2. CASE Charge(c, cost)
    <3>1. Disposes({call[c].key})
      BY <1>4, <2>1, <2>2, SettleDisposes DEF Charge
    <3> QED  BY <1>4, <2>1, <3>1, SlotsReleased
  <2>3. CASE Replay(c, cost)
    <3>1. Disposes({})
      BY <1>4, <2>1, <2>3, ReceiptDisposes DEF Replay
    <3> QED  BY <1>3, <2>1, <3>1, SlotsReleased
  <2>4. CASE Unbilled(c, cost)
    <3>1. Disposes({call[c].key})
      BY <1>4, <2>1, <2>4, ClaimDisposes DEF Unbilled
    <3> QED  BY <1>4, <2>1, <3>1, SlotsReleased
  <2> QED  BY <1>9, <2>2, <2>3, <2>4 DEF Answer
<1>10. ASSUME NEW c \in Calls, AnswerNothing(c)
       PROVE  CallsOK' /\ SlotsOK' /\ Disposes(Keys)
  <2>1. call[c] # NoCall /\ Finish(c) /\ call[c].key \in Keys
    BY <1>5, <1>10 DEF AnswerNothing
  <2>2. Disposes({call[c].key})
    BY <1>2, <1>4, <1>10, <2>1, ClaimDisposes DEF AnswerNothing
  <2> QED  BY <1>4, <2>1, <2>2, SlotsReleased
<1>11. ASSUME NEW c \in Calls, Fail(c)
       PROVE  CallsOK' /\ SlotsOK' /\ Disposes(Keys)
  <2>1. call[c] # NoCall /\ Finish(c) /\ call[c].key \in Keys
    BY <1>5, <1>11 DEF Fail
  <2>2. Disposes({})
    BY <1>2, <1>4, <1>11, <2>1, ReceiptDisposes DEF Fail
  <2> QED  BY <1>3, <2>1, <2>2, SlotsReleased
<1>12. ASSUME NEW c \in Calls, NEW cost \in 1 .. MaxCost, SettleThenCrash(c, cost)
       PROVE  CallsOK' /\ SlotsOK' /\ Disposes(Keys)
  <2>1. call[c].key \in Keys /\ cost \in Costs
    BY <1>1, <1>5, <1>12 DEF SettleThenCrash
  <2>2. Disposes({call[c].key})
    BY <1>4, <1>12, <2>1, SettleDisposes DEF SettleThenCrash
  <2> QED  BY <1>4, <1>12, <2>1, <2>2, SlotsForgotten DEF SettleThenCrash
<1>13. ASSUME Crash
       PROVE  CallsOK' /\ SlotsOK' /\ Disposes(Keys)
  BY <1>3, <1>13, SlotsForgotten, NothingDisposed DEF Crash, money
<1>14. ASSUME ExpireGrant \/ \E k \in Keys : Forget(k)
       PROVE  CallsOK' /\ SlotsOK' /\ Disposes(Keys)
  <2>1. UNCHANGED <<call, inflight, attempt, event>>
    BY <1>14 DEF ExpireGrant, Forget, money
  <2> QED  BY <1>3, <2>1, NothingDisposed DEF CallsOK, SlotsOK, SlotsAreHeld
<1> QED  BY <1>6, <1>7, <1>8, <1>9, <1>10, <1>11, <1>12, <1>13, <1>14 DEF BillingNext, HandlerStep
-----------------------------------------------------------------------------
(* The steps of the batch worker *)

\* What the invariant reads of a line is as it was.
Same(l) ==
  /\ attempt'[l] = attempt[l]
  /\ line'[l].cost = line[l].cost /\ line'[l].settlement = line[l].settlement
  /\ Billable(l)' <=> Billable(l)

\* The line is as it was, and so is what the worker has to do with it.
Aside(l) ==
  /\ Same(l)
  /\ Untouched(l[1])' => Untouched(l[1])
  /\ On(l[1], "settling")' =>
       On(l[1], "settling") /\ (l \in worker'.todo <=> l \in worker.todo)

LEMMA AsideKept ==
  ASSUME NEW l \in Lines, LineOK(l), Aside(l)
  PROVE  LineOK(l)'
BY DEF Aside, Same, LineOK, Whole, Off

\* A batch that was completed before is whole if its lines are as they were.
LEMMA BatchesKept ==
  ASSUME LinesOK,
         \A b \in Batches : batch'[b].status = "completed" =>
           batch[b].status = "completed" /\ \A l \in LinesOf(b) : Same(l)
  PROVE  \A b \in Batches : BatchWhole(b)'
<1> SUFFICES ASSUME NEW b \in Batches, batch'[b].status = "completed"
             PROVE  (\A l \in LinesOf(b) : Whole(l)') \/ (\A l \in LinesOf(b) : Off(l)')
  BY DEF BatchWhole, LinesOf
<1>1. (\A l \in LinesOf(b) : Whole(l)) \/ (\A l \in LinesOf(b) : Off(l))
  BY DEF LinesOK, BatchWhole
<1>2. \A l \in LinesOf(b) : (Whole(l) => Whole(l)') /\ (Off(l) => Off(l)')
  BY DEF Same, Whole, Off
<1> QED  BY <1>1, <1>2

\* Steps that leave every line aside
LEMMA AllAside ==
  ASSUME LinesOK, WorkOK', \A l \in Lines : Aside(l),
         \A b \in Batches : batch'[b].status = "completed" => batch[b].status = "completed"
  PROVE  LinesOK'
<1>1. \A l \in Lines : LineOK(l)'
  BY AsideKept DEF LinesOK
<1>2. \A b \in Batches : BatchWhole(b)'
  BY BatchesKept DEF Aside, LinesOf
<1> QED  BY <1>1, <1>2 DEF LinesOK

\* What the lines say of the tables depends on the attempts, the batches and the worker.
LEMMA LinesKept ==
  ASSUME LinesOK, \A l \in Lines : attempt'[l] = attempt[l], UNCHANGED batchVars,
         creating' \subseteq creating
  PROVE  LinesOK'
<1>1. WorkOK'
  BY DEF LinesOK, WorkOK, LinesOf, batchVars
<1>2. \A l \in Lines : Aside(l)
  BY DEF Aside, Same, Billable, Untouched, On, batchVars
<1> QED  BY <1>1, <1>2, AllAside DEF batchVars

\* Creation and the start of a batch
LEMMA QueueKeeps ==
  ASSUME LinesOK, NEW b \in Batches, NEW settles \in BOOLEAN,
         CreateBatch(b) \/ (StartBatch(b, settles) /\ UNCHANGED creating)
  PROVE  LinesOK' /\ UNCHANGED billingVars
<1>1. /\ batch[b].status \in {"absent", "created"}
      /\ \E s \in {"created", "running"} : batch' = [batch EXCEPT ![b].status = s]
      /\ UNCHANGED <<line, billingVars>> /\ creating' \subseteq Batches
  BY DEF CreateBatch, StartBatch, LinesOK, WorkOK
<1>2. /\ batch'[b].status \in {"created", "running"}
      /\ \A c \in Batches \ {b} : batch'[c] = batch[c]
      /\ batch' = [c \in Batches |-> [status |-> batch'[c].status, total |-> batch'[c].total]]
  BY <1>1 DEF LinesOK, WorkOK
<1>3. \A l \in Lines : l[1] \in Batches /\ Same(l)
  BY <1>1 DEF Same, Billable, Lines, billingVars, money
<1>4. CASE CreateBatch(b)
  <2>1. UNCHANGED worker
    BY <1>4 DEF CreateBatch
  <2>2. WorkOK'
    BY <1>1, <1>2, <2>1 DEF LinesOK, WorkOK, LinesOf
  <2>3. \A l \in Lines : Aside(l)
    BY <1>1, <1>2, <1>3, <2>1 DEF Aside, Untouched, On
  <2> QED  BY <1>1, <1>2, <2>2, <2>3, AllAside
<1>5. CASE StartBatch(b, settles)
  <2>1. /\ worker = NoWork /\ batch[b].status = "created" /\ batch'[b].status = "running"
        /\ worker' = [phase |-> "executing", batch |-> b, settles |-> settles, todo |-> {}]
    BY <1>1, <1>5 DEF StartBatch, LinesOK, WorkOK
  <2>2. WorkOK'
    BY <1>1, <1>2, <2>1 DEF LinesOK, WorkOK, LinesOf, Work
  <2>3. \A l \in Lines : Aside(l)
    BY <1>1, <1>2, <1>3, <2>1 DEF Aside, Untouched, On
  <2> QED  BY <1>1, <1>2, <2>2, <2>3, AllAside
<1> QED  BY <1>1, <1>4, <1>5

\* The API process stores one more line, which nothing was charged for.
LEMMA InsertKeeps ==
  ASSUME LinesOK, NEW l \in Lines, InsertLine(l)
  PROVE  LinesOK' /\ UNCHANGED billingVars
<1>1. /\ line[l].status = "absent" /\ line' = [line EXCEPT ![l].status = "pending"]
      /\ UNCHANGED <<batch, worker, billingVars>> /\ creating' \subseteq creating
  BY DEF InsertLine, Inserted
<1>2. /\ line' \in [Lines -> LineRow] /\ line'[l].status = "pending"
      /\ line'[l].cost = line[l].cost /\ line'[l].settlement = line[l].settlement
      /\ \A m \in Lines \ {l} : line'[m] = line[m]
  BY <1>1 DEF LinesOK, WorkOK, LineRow
<1>3. WorkOK'
  BY <1>1, <1>2 DEF LinesOK, WorkOK, LinesOf
<1>4. \A m \in Lines : Aside(m)
  BY <1>1, <1>2 DEF Aside, Same, Billable, Untouched, On, billingVars, money
<1> QED  BY <1>1, <1>3, <1>4, AllAside

\* What the worker's steps start from
LEMMA AtWork ==
  ASSUME LinesOK, worker # NoWork
  PROVE  /\ worker \in Work /\ worker.batch \in Batches
         /\ worker.todo \subseteq LinesOf(worker.batch)
         /\ batch[worker.batch].status = "running"
         /\ \A l \in Lines : LineOK(l) /\ l[1] \in Batches /\ line[l] \in LineRow
BY DEF LinesOK, WorkOK, Lines, Work

\* The worker goes on with its batch: only this batch's lines are to be looked at.
LEMMA GoesOn ==
  ASSUME LinesOK, worker # NoWork, UNCHANGED <<batch, attempt, creating>>,
         worker' \in Work, worker'.batch = worker.batch,
         worker'.todo \subseteq LinesOf(worker.batch),
         line' \in [Lines -> LineRow],
         \A l \in Lines : l[1] # worker.batch => line'[l] = line[l],
         \A l \in LinesOf(worker.batch) : LineOK(l)'
  PROVE  LinesOK'
<1>1. worker' # NoWork
  BY DEF Work, NoWork
<1>2. WorkOK'
  BY <1>1 DEF LinesOK, WorkOK, LinesOf
<1>3. ASSUME NEW l \in Lines, l[1] # worker.batch PROVE Aside(l)
  BY <1>1, <1>3 DEF Aside, Same, Billable, Untouched, On
<1>4. \A l \in Lines : LineOK(l)'
  BY <1>3, AsideKept, AtWork DEF LinesOf
<1>5. ASSUME NEW b \in Batches, batch'[b].status = "completed", NEW l \in LinesOf(b)
      PROVE  batch[b].status = "completed" /\ Same(l)
  BY <1>3, <1>5, AtWork DEF LinesOf, Aside
<1>6. \A b \in Batches : BatchWhole(b)'
  <2>1. \A b \in Batches : batch'[b].status = "completed" => batch[b].status = "completed"
    OBVIOUS
  <2> QED  BY <1>5, <2>1, BatchesKept
<1> QED  BY <1>2, <1>4, <1>6 DEF LinesOK

\* The proofs give untouched lines their outcome, one at a time.
LEMMA ProofsKeep ==
  ASSUME LinesOK, worker # NoWork, UNCHANGED creating,
         \/ AcceptProofs
         \/ \E l \in worker.todo, outcome \in Outcome, n \in Nodes : ApplyProof(l, outcome, n)
  PROVE  LinesOK' /\ UNCHANGED billingVars
<1> DEFINE b == worker.batch
<1>1. /\ worker.phase \in {"executing", "applying"} /\ UNCHANGED <<batch, billingVars>>
      /\ \E todo \in SUBSET LinesOf(b) :
           worker' = [worker EXCEPT !.phase = "applying", !.todo = todo]
  <2>1. CASE AcceptProofs
    BY <2>1 DEF AcceptProofs, Inserted
  <2>2. ASSUME NEW l, NEW outcome, NEW n, ApplyProof(l, outcome, n)
        PROVE  /\ worker.phase = "applying" /\ UNCHANGED <<batch, billingVars>>
               /\ worker' = [worker EXCEPT !.phase = "applying", !.todo = @ \ {l}]
    BY <2>2, AtWork DEF ApplyProof, Work
  <2> QED  BY <2>1, <2>2, AtWork
<1>2. /\ worker' \in Work /\ worker'.phase = "applying" /\ worker'.batch = b
      /\ worker'.todo \subseteq LinesOf(b)
  <2>1. LinesOf(b) \subseteq Lines
    BY DEF LinesOf
  <2> QED  BY <1>1, <2>1, AtWork DEF Work
<1>3. /\ line' \in [Lines -> LineRow]
      /\ \A m \in Lines : line'[m].settlement = line[m].settlement
      /\ \A m \in Lines : m[1] # b => line'[m] = line[m]
  <2>1. CASE AcceptProofs
    BY <2>1 DEF AcceptProofs, LinesOK, WorkOK
  <2>2. ASSUME NEW l \in worker.todo, NEW outcome \in Outcome, NEW n \in Nodes,
               ApplyProof(l, outcome, n)
        PROVE  /\ line' \in [Lines -> LineRow]
               /\ \A m \in Lines : line'[m].settlement = line[m].settlement
               /\ \A m \in Lines : m[1] # b => line'[m] = line[m]
    <3>1. l \in Lines /\ l[1] = b /\ line[l] \in LineRow /\ line \in [Lines -> LineRow]
      BY AtWork DEF LinesOf, LinesOK, WorkOK
    <3>2. outcome.status \in {"failed", "succeeded"} /\ outcome.cost \in Costs
      BY AmountsAssumption DEF Outcome, Costs
    <3>3. line' = [line EXCEPT ![l].status = outcome.status, ![l].cost = outcome.cost,
                               ![l].node = n]
      BY <2>2 DEF ApplyProof
    <3> QED  BY <3>1, <3>2, <3>3 DEF LineRow
  <2> QED  BY <2>1, <2>2
<1>4. ASSUME NEW l \in LinesOf(b) PROVE LineOK(l)'
  <2>1. l \in Lines /\ l[1] = b /\ LineOK(l)
    BY AtWork DEF LinesOf
  <2>2. attempt'[l] = attempt[l]
    BY <1>1 DEF billingVars, money
  <2>3. worker' # NoWork /\ ~ On(l[1], "settling")'
    BY <1>2, <2>1 DEF On, Work, NoWork
  <2>4. Off(l)
    BY <1>1, <2>1 DEF LineOK, Untouched, On
  <2> QED  BY <1>3, <2>1, <2>2, <2>3, <2>4 DEF LineOK, Off
<1>5. UNCHANGED <<batch, attempt>>
  BY <1>1 DEF billingVars, money
<1> QED  BY <1>1, <1>2, <1>3, <1>4, <1>5, GoesOn

\* The preflight passes: what is left to do is exactly what there is to charge.
LEMMA PreflightKeeps ==
  ASSUME LinesOK, worker # NoWork, UNCHANGED creating, Preflight
  PROVE  LinesOK' /\ UNCHANGED billingVars
<1> DEFINE b == worker.batch
           todo == {l \in Inserted(b) : Billable(l)}
<1>1. /\ worker.phase = "applying" /\ UNCHANGED <<batch, billingVars>>
      /\ worker' = [worker EXCEPT !.phase = "settling", !.todo = todo]
      /\ line' = [l \in Lines |->
           IF l \in Inserted(b) \ todo THEN [line[l] EXCEPT !.settlement = "not_required"]
           ELSE line[l]]
  BY DEF Preflight, Proved
<1>2. todo \subseteq LinesOf(b) /\ LinesOf(b) \subseteq Lines /\ Inserted(b) \subseteq LinesOf(b)
  BY DEF LinesOf, Inserted
<1>3. \A l \in LinesOf(b) : l \in todo <=> Billable(l)
  BY DEF Inserted, Billable
<1> HIDE DEF todo
<1>4. /\ worker' \in Work /\ worker'.phase = "settling" /\ worker'.batch = b
      /\ worker'.todo = todo /\ worker' # NoWork
  BY <1>1, <1>2, AtWork DEF Work, NoWork
<1>5. ASSUME NEW l \in Lines
      PROVE  /\ line'[l] \in LineRow
             /\ line'[l].status = line[l].status /\ line'[l].cost = line[l].cost
             /\ line'[l].settlement \in {line[l].settlement, "not_required"}
             /\ l[1] # b => line'[l] = line[l]
  <2>1. line[l] \in LineRow /\ (l \in LinesOf(b) => l[1] = b)
    BY AtWork DEF LinesOf
  <2> QED  BY <1>1, <1>2, <2>1 DEF LineRow
<1>6. line' \in [Lines -> LineRow]
  BY <1>1, <1>5
<1>7. ASSUME NEW l \in LinesOf(b) PROVE LineOK(l)'
  <2>1. LineOK(l) /\ attempt'[l] = attempt[l] /\ batch' = batch /\ l \in Lines /\ l[1] = b
    BY <1>1, AtWork DEF LinesOf, billingVars, money
  <2>2. Off(l)
    BY <1>1, <2>1 DEF LineOK, Untouched, On
  <2>3. ~ Untouched(l[1])' /\ (Billable(l)' <=> Billable(l))
    BY <1>4, <1>5, <2>1, AtWork DEF Untouched, On, Billable
  <2>4. l \in worker'.todo <=> Billable(l)
    BY <1>3, <1>4
  <2> QED  BY <1>5, <2>1, <2>2, <2>3, <2>4 DEF LineOK, Off, Whole
<1>8. UNCHANGED attempt
  BY <1>1 DEF billingVars, money
<1> QED  BY <1>1, <1>2, <1>4, <1>5, <1>6, <1>7, <1>8, GoesOn

\* A settlement charges one line of the batch at work.
LEMMA SettleLineKeeps ==
  ASSUME LinesOK, TablesOK, Backed, worker # NoWork, UNCHANGED creating,
         NEW l \in worker.todo, SettleLine(l)
  PROVE  LinesOK' /\ Disposes({l}) /\ UNCHANGED <<call, inflight>>
<1>1. /\ l \in Lines /\ l[1] = worker.batch /\ l \in Requests
      /\ batch[l[1]].status = "running"
  BY AtWork, LinesAssumption DEF LinesOf
<1>2. /\ worker.phase = "settling" /\ UNCHANGED <<call, inflight, batchVars>>
      /\ SettleInferenceOnce(l, line[l].node, line[l].cost)
  BY DEF SettleLine
<1>3. LineOK(l) /\ line[l].cost \in Costs
  BY <1>1, AtWork DEF LineRow
<1>4. /\ Disposes({l})
      /\ attempt'[l].status = "settled" /\ attempt'[l].cost = line[l].cost
  BY <1>1, <1>2, <1>3, SettleDisposes
<1>5. On(l[1], "settling") /\ ~ Untouched(l[1])
  BY <1>1, <1>2 DEF On, Untouched
<1>6. Billable(l)
  BY <1>3, <1>5 DEF LineOK
<1>7. LineOK(l)'
  BY <1>1, <1>2, <1>3, <1>4, <1>5, <1>6 DEF LineOK, Whole, On, Untouched, Billable, batchVars
<1>8. ASSUME NEW m \in Lines, m # l PROVE Aside(m)
  <2>1. attempt'[m] = attempt[m]
    BY <1>4, <1>8, LinesAssumption DEF Disposes
  <2> QED  BY <1>2, <2>1 DEF Aside, Same, On, Untouched, Billable, batchVars
<1>9. \A m \in Lines : LineOK(m)'
  BY <1>7, <1>8, AsideKept, AtWork
<1>10. WorkOK'
  BY <1>2 DEF LinesOK, WorkOK, batchVars, LinesOf
<1>11. \A b \in Batches : BatchWhole(b)'
  <2>1. ASSUME NEW b \in Batches, batch'[b].status = "completed"
        PROVE  batch[b].status = "completed" /\ \A m \in LinesOf(b) : m \in Lines /\ m # l
    BY <1>1, <1>2, <2>1 DEF batchVars, LinesOf
  <2> QED  BY <1>8, <2>1, BatchesKept DEF Aside
<1> QED  BY <1>2, <1>4, <1>9, <1>10, <1>11 DEF LinesOK

\* The line that was charged is marked.
LEMMA MarkLineKeeps ==
  ASSUME LinesOK, worker # NoWork, UNCHANGED creating, NEW l \in worker.todo, MarkLine(l)
  PROVE  LinesOK' /\ UNCHANGED billingVars
<1>1. l \in Lines /\ l[1] = worker.batch /\ batch[l[1]].status = "running" /\ LineOK(l)
  BY AtWork DEF LinesOf
<1>2. /\ worker.phase = "settling" /\ UNCHANGED <<batch, billingVars>>
      /\ attempt[l].status # "none"
      /\ line' = [line EXCEPT ![l].settlement = "settled"]
      /\ worker' = [worker EXCEPT !.todo = @ \ {l}]
  BY DEF MarkLine, Unclaimed
<1>3. /\ line' \in [Lines -> LineRow]
      /\ line'[l].status = line[l].status /\ line'[l].cost = line[l].cost
      /\ line'[l].settlement = "settled"
      /\ \A m \in Lines \ {l} : line'[m] = line[m]
  BY <1>1, <1>2 DEF LinesOK, WorkOK, LineRow
<1>4. /\ worker' \in Work /\ worker'.phase = "settling" /\ worker'.batch = worker.batch
      /\ worker'.todo = worker.todo \ {l} /\ worker' # NoWork
  BY <1>2, AtWork DEF Work, NoWork
<1>5. UNCHANGED attempt
  BY <1>2 DEF billingVars, money
<1>6. LineOK(l)'
  <2>1. On(l[1], "settling") /\ ~ Untouched(l[1])'
    BY <1>1, <1>2, <1>4 DEF On, Untouched
  <2>2. attempt[l].status = "settled" /\ Billable(l)
    BY <1>1, <1>2, <2>1 DEF LineOK
  <2>3. Billable(l)'
    BY <1>3, <2>2 DEF Billable
  <2> QED  BY <1>1, <1>3, <1>4, <1>5, <2>1, <2>2, <2>3 DEF LineOK, Whole
<1>7. ASSUME NEW m \in LinesOf(worker.batch), m # l PROVE LineOK(m)'
  <2>1. m \in Lines /\ LineOK(m) /\ line'[m] = line[m]
    BY <1>3, <1>7, AtWork DEF LinesOf
  <2>2. Aside(m)
    BY <1>2, <1>4, <1>5, <1>7, <2>1 DEF Aside, Same, Billable, Untouched, On
  <2> QED  BY <2>1, <2>2, AsideKept
<1>8. worker'.todo \subseteq LinesOf(worker.batch)
  BY <1>4, AtWork
<1>9. \A m \in LinesOf(worker.batch) : LineOK(m)'
  BY <1>6, <1>7
<1>10. \A m \in Lines : m[1] # worker.batch => line'[m] = line[m]
  BY <1>1, <1>3
<1> QED  BY <1>2, <1>3, <1>4, <1>5, <1>8, <1>9, <1>10, GoesOn

\* The worker lets go of its batch, which stays running, fails, or is completed: settled
\* with nothing left to do, or not reached by settlement.
LEMMA LetGoKeeps ==
  ASSUME LinesOK, worker # NoWork, UNCHANGED <<billingVars, creating>>, worker' = NoWork,
         NEW s, NEW total,
         \/ UNCHANGED batch
         \/ /\ batch' = [batch EXCEPT ![worker.batch] = [status |-> s, total |-> total]]
            /\ \/ s = "failed"
               \/ /\ s = "completed" /\ UNCHANGED line
                  /\ worker.phase = "settling" => worker.todo = {},
         line' \in [Lines -> LineRow],
         \A l \in Lines :
           \/ line'[l] = line[l]
           \/ /\ l[1] = worker.batch
              /\ line'[l].status = line[l].status /\ line'[l].cost = line[l].cost
              /\ line'[l].settlement \in {"failed", "not_required"}
  PROVE  LinesOK'
<1> DEFINE b == worker.batch
<1>1. /\ batch' = [c \in Batches |-> [status |-> batch'[c].status, total |-> batch'[c].total]]
      /\ \A c \in Batches \ {b} : batch'[c] = batch[c]
      /\ \/ batch'[b].status = "running" \/ batch'[b].status = "failed"
         \/ /\ batch'[b].status = "completed" /\ UNCHANGED line
            /\ worker.phase = "settling" => worker.todo = {}
  BY AtWork DEF LinesOK, WorkOK
<1>2. WorkOK'
  BY <1>1 DEF LinesOK, WorkOK
<1>3. UNCHANGED attempt /\ \A c, p : ~ On(c, p)'
  BY DEF On, billingVars, money
<1>4. ASSUME NEW l \in Lines, l[1] # b PROVE Aside(l)
  BY <1>1, <1>3, <1>4, AtWork DEF Aside, Same, Billable, Untouched
<1>5. ASSUME NEW l \in Lines, l[1] = b PROVE LineOK(l)'
  <2>1. LineOK(l) /\ ~ Untouched(l[1])'
    BY <1>1, <1>3, <1>5, AtWork DEF Untouched
  <2>2. line'[l].settlement \in {"settled", "already_settled"} => attempt[l].status = "settled"
    BY <2>1 DEF LineOK
  <2>3. line'[l].cost = line[l].cost
    OBVIOUS
  <2> QED  BY <1>3, <2>1, <2>2, <2>3 DEF LineOK
<1>6. \A l \in Lines : LineOK(l)'
  BY <1>4, <1>5, AsideKept, AtWork
<1>7. ASSUME NEW c \in Batches, c # b PROVE BatchWhole(c)'
  <2>1. batch'[c] = batch[c] /\ BatchWhole(c)
    BY <1>1, <1>7 DEF LinesOK
  <2>2. \A l \in LinesOf(c) : Same(l)
    BY <1>4, <1>7 DEF LinesOf, Aside
  <2>3. \A l \in LinesOf(c) : (Whole(l) => Whole(l)') /\ (Off(l) => Off(l)')
    BY <2>2 DEF Same, Whole, Off
  <2> QED  BY <2>1, <2>3 DEF BatchWhole, LinesOf
<1>8. ASSUME NEW c \in Batches, c = b PROVE BatchWhole(c)'
  <2> SUFFICES ASSUME batch'[c].status = "completed"
               PROVE  (\A l \in LinesOf(c) : Whole(l)') \/ (\A l \in LinesOf(c) : Off(l)')
    BY DEF BatchWhole, LinesOf
  <2>1. UNCHANGED <<line, attempt>> /\ (worker.phase = "settling" => worker.todo = {})
    BY <1>1, <1>3, <1>8
  <2>2. \A l \in LinesOf(c) : l \in Lines /\ l[1] = b /\ LineOK(l)
    BY <1>8, AtWork DEF LinesOf
  <2>3. CASE worker.phase = "settling"
    <3>1. \A l \in LinesOf(c) : Whole(l)
      BY <2>1, <2>2, <2>3 DEF LineOK, On
    <3> QED  BY <2>1, <3>1 DEF Whole, Billable
  <2>4. CASE worker.phase # "settling"
    <3>1. worker.phase = "executing" \/ worker.phase = "applying"
      BY <2>4, AtWork DEF Work
    <3>2. \A l \in LinesOf(c) : Off(l)
      BY <2>2, <3>1 DEF LineOK, Untouched, On
    <3> QED  BY <2>1, <3>2 DEF Off
  <2> QED  BY <2>3, <2>4
<1> QED  BY <1>2, <1>6, <1>7, <1>8 DEF LinesOK

\* The ways to let go: the gate refuses, a line cannot be charged, the batch is done,
\* an error ends it, the process dies
LEMMA EndKeeps ==
  ASSUME LinesOK, worker # NoWork, UNCHANGED creating,
         \/ PreflightRefused \/ CompleteBatch \/ BatchThrows \/ WorkerCrash
         \/ \E total \in Costs : CompleteUnproved(total)
         \/ \E l \in worker.todo : LineShort(l)
  PROVE  LinesOK' /\ UNCHANGED billingVars
<1>1. line \in [Lines -> LineRow]
  BY DEF LinesOK, WorkOK
<1>2. CASE PreflightRefused
  <2>1. /\ FailBatch /\ UNCHANGED billingVars
        /\ line' = [l \in Lines |->
             IF l \notin Inserted(worker.batch) THEN line[l]
             ELSE [line[l] EXCEPT !.settlement =
                    IF Billable(l) THEN "failed" ELSE "not_required"]]
    BY <1>2 DEF PreflightRefused
  <2>2. ASSUME NEW l \in Lines, l \in Inserted(worker.batch)
        PROVE  /\ line'[l] \in LineRow /\ l[1] = worker.batch
               /\ line'[l].status = line[l].status /\ line'[l].cost = line[l].cost
               /\ line'[l].settlement \in {"failed", "not_required"}
    BY <1>1, <2>1, <2>2 DEF LineRow, Inserted, LinesOf
  <2>3. line' \in [Lines -> LineRow]
    BY <1>1, <2>1, <2>2
  <2> QED  BY <2>1, <2>2, <2>3, LetGoKeeps DEF FailBatch
<1>3. CASE CompleteBatch \/ \E total \in Costs : CompleteUnproved(total)
  <2>1. PICK total : CompleteWith(total)
    BY <1>3 DEF CompleteBatch, CompleteUnproved
  <2>2. worker.phase = "settling" => worker.todo = {}
    BY <1>3 DEF CompleteBatch, CompleteUnproved, Finished, Proved
  <2> QED  BY <1>1, <2>1, <2>2, LetGoKeeps DEF CompleteWith
<1>4. CASE BatchThrows
  BY <1>1, <1>4, LetGoKeeps DEF BatchThrows, FailBatch
<1>5. CASE WorkerCrash
  BY <1>1, <1>5, LetGoKeeps DEF WorkerCrash
<1>6. ASSUME NEW l \in worker.todo, LineShort(l)
      PROVE  LinesOK' /\ UNCHANGED billingVars
  <2>1. l \in Lines /\ l[1] = worker.batch
    BY AtWork DEF LinesOf
  <2>2. /\ FailBatch /\ UNCHANGED billingVars
        /\ line' = [line EXCEPT ![l].settlement = "failed"]
    BY <1>6 DEF LineShort
  <2>3. /\ line' \in [Lines -> LineRow]
        /\ line'[l].status = line[l].status /\ line'[l].cost = line[l].cost
        /\ line'[l].settlement = "failed"
        /\ \A m \in Lines \ {l} : line'[m] = line[m]
    BY <1>1, <2>1, <2>2 DEF LineRow
  <2> QED  BY <2>1, <2>2, <2>3, LetGoKeeps DEF FailBatch
<1> QED  BY <1>2, <1>3, <1>4, <1>5, <1>6
-----------------------------------------------------------------------------
(* Together *)

\* No id, no call, no batch
LEMMA ServiceInitInv == ServiceInit => ServiceInv
<1> SUFFICES ASSUME ServiceInit PROVE ServiceInv
  OBVIOUS
<1>1. CallsOK
  BY DEF ServiceInit, BillingInit, CallsOK
<1>2. SlotsOK
  <2>1. \A n \in Nodes : {c \in Calls : call[c] # NoCall /\ n \in call[c].slots} = {}
    BY DEF ServiceInit, BillingInit
  <2> QED  BY <2>1, FS_EmptySet DEF ServiceInit, BillingInit, SlotsOK, SlotsAreHeld
<1>3. TablesOK /\ Backed
  BY AmountsAssumption DEF ServiceInit, BillingInit, TablesOK, Backed, ReceiptsAreBacked,
     Receipt, Costs, NoReceipt, NoAttempt
<1>4. WorkOK
  BY AmountsAssumption DEF ServiceInit, BatchInit, WorkOK, LineRow, NoLine, Costs
<1>5. \A l \in Lines : LineOK(l)
  BY LinesAssumption DEF ServiceInit, BillingInit, BatchInit, LineOK, On, NoLine, NoAttempt, Lines,
     Untouched, Off
<1>6. \A b \in Batches : BatchWhole(b)
  BY DEF ServiceInit, BatchInit, BatchWhole
<1> QED  BY <1>1, <1>2, <1>3, <1>4, <1>5, <1>6 DEF ServiceInv, LinesOK

\* Every step of the API process and of the worker keeps the invariant, and disposes
\* of an id at most once.
LEMMA ServiceStep ==
  ServiceInv /\ [ServiceNext]_serviceVars => ServiceInv' /\ Disposes(Requests)
<1> SUFFICES ASSUME ServiceInv, [ServiceNext]_serviceVars
             PROVE  ServiceInv' /\ Disposes(Requests)
  OBVIOUS
<1> USE DEF ServiceInv
<1>1. ASSUME NEW S \in SUBSET Requests, Disposes(S)
      PROVE  TablesOK' /\ Backed' /\ Disposes(Requests)
  BY <1>1, DisposesMore DEF Disposes
<1>2. CASE BillingNext /\ creating' = {} /\ UNCHANGED batchVars
  <2>1. CallsOK' /\ SlotsOK' /\ Disposes(Keys)
    BY <1>2, BillingKeeps
  <2>2. \A l \in Lines : attempt'[l] = attempt[l]
    BY <2>1, LinesAssumption DEF Disposes
  <2>3. LinesOK'
    BY <1>2, <2>2, LinesKept
  <2> QED  BY <1>1, <2>1, <2>3, KeysAssumption
<1>3. ASSUME LinesOK', UNCHANGED billingVars
      PROVE  ServiceInv' /\ Disposes(Requests)
  <2>1. UNCHANGED <<call, inflight, attempt, event>>
    BY <1>3 DEF billingVars, money
  <2>2. CallsOK' /\ SlotsOK'
    BY <2>1 DEF CallsOK, SlotsOK, SlotsAreHeld
  <2> QED  BY <1>1, <1>3, <2>1, <2>2, NothingDisposed
<1>4. CASE \/ \E b \in Batches : CreateBatch(b)
           \/ \E b \in Batches, settles \in BOOLEAN : StartBatch(b, settles) /\ UNCHANGED creating
  <2>1. TRUE \in BOOLEAN
    OBVIOUS
  <2> QED  BY <1>3, <1>4, <2>1, QueueKeeps
<1>5. CASE \E l \in Lines : InsertLine(l)
  BY <1>3, <1>5, InsertKeeps
<1>6. CASE worker # NoWork /\ WorkerStep /\ UNCHANGED creating
  <2>1. CASE \/ AcceptProofs
             \/ \E l \in worker.todo, outcome \in Outcome, n \in Nodes : ApplyProof(l, outcome, n)
    BY <1>3, <1>6, <2>1, ProofsKeep
  <2>2. CASE Preflight
    BY <1>3, <1>6, <2>2, PreflightKeeps
  <2>3. ASSUME NEW l \in worker.todo, SettleLine(l)
        PROVE  ServiceInv' /\ Disposes(Requests)
    <3>1. LinesOK' /\ Disposes({l}) /\ UNCHANGED <<call, inflight>>
      BY <1>6, <2>3, SettleLineKeeps
    <3>2. {l} \subseteq Requests
      BY <1>6, AtWork, LinesAssumption DEF LinesOf
    <3>3. CallsOK' /\ SlotsOK'
      BY <3>1 DEF CallsOK, SlotsOK, SlotsAreHeld
    <3> QED  BY <1>1, <3>1, <3>2, <3>3
  <2>4. ASSUME NEW l \in worker.todo, MarkLine(l)
        PROVE  ServiceInv' /\ Disposes(Requests)
    BY <1>3, <1>6, <2>4, MarkLineKeeps
  <2>5. CASE \/ PreflightRefused \/ CompleteBatch \/ BatchThrows \/ WorkerCrash
             \/ \E total \in Costs : CompleteUnproved(total)
             \/ \E l \in worker.todo : LineShort(l)
    BY <1>3, <1>6, <2>5, EndKeeps
  <2> QED  BY <1>6, <2>1, <2>2, <2>3, <2>4, <2>5 DEF WorkerStep
<1>7. CASE UNCHANGED serviceVars
  <2>1. UNCHANGED batchVars /\ UNCHANGED billingVars /\ UNCHANGED creating
    BY <1>7 DEF serviceVars
  <2>2. LinesOK'
    BY <2>1, LinesKept DEF billingVars, money
  <2> QED  BY <1>3, <2>1, <2>2
<1> QED  BY <1>2, <1>4, <1>5, <1>6, <1>7 DEF ServiceNext, BatchNext

\* The invariant always holds.
LEMMA ServiceAlways == ServiceSpec => []ServiceInv
<1>1. ServiceInv /\ [ServiceNext]_serviceVars => ServiceInv'
  BY ServiceStep
<1> QED  BY <1>1, ServiceInitInv, PTL DEF ServiceSpec
-----------------------------------------------------------------------------
(* The grants *)

\* Nothing is drawn beyond what a grant gave.
GrantsOK ==
  /\ consumed \in [DOMAIN Grants -> Nat]
  /\ \A g \in DOMAIN Grants : consumed[g] <= Grants[g]
  /\ expired \in 0 .. Len(Grants)

\* What all grants still offer (getAvailableCredits)
Offer == [g \in DOMAIN Grants |-> Available(g)]

\* The grants are numbered, and each has a size.
LEMMA GrantNumbers ==
  /\ DOMAIN Grants = 1 .. Len(Grants) /\ Len(Grants) \in Nat
  /\ IsFiniteSet(DOMAIN Grants)
  /\ \A g \in DOMAIN Grants : Grants[g] \in Nat
<1>1. Grants \in Seq(Nat)
  BY AmountsAssumption
<1>2. DOMAIN Grants = 1 .. Len(Grants) /\ Len(Grants) \in Nat
  BY <1>1
<1>3. \A g \in 1 .. Len(Grants) : Grants[g] \in Nat
  BY <1>1
<1> QED  BY <1>2, <1>3, FS_Interval

\* A grant offers what is left of it, or nothing once it has expired.
LEMMA OfferIsLeft ==
  ASSUME GrantsOK, NEW g \in DOMAIN Grants
  PROVE  Offer[g] = Available(g) /\ Offer[g] \in Nat /\ consumed[g] + Offer[g] <= Grants[g]
BY GrantNumbers DEF GrantsOK, Offer, Available

\* debitSubscriptionCredits takes from a grant what the earlier ones leave, and never
\* more than it offers.
LEMMA TakeIsWithin ==
  ASSUME GrantsOK, NEW g \in DOMAIN Grants, NEW cost \in Nat
  PROVE  /\ Take(g, cost) \in Nat /\ Take(g, cost) <= Offer[g]
         /\ SumFunctionOnSet(Offer, 1 .. (g - 1)) \in Nat
         /\ Take(g, cost) = Least(Offer[g], Most(0, cost - SumFunctionOnSet(Offer, 1 .. (g - 1))))
<1> DEFINE before == 1 .. (g - 1)
           earlier == [h \in before |-> Available(h)]
<1>1. before \subseteq DOMAIN Grants /\ IsFiniteSet(before)
  BY GrantNumbers, FS_Subset
<1>2. \A h \in before : earlier[h] = Offer[h]
  BY <1>1 DEF Offer
<1>3. SumFunctionOnSet(Offer, before) \in Nat
  BY <1>1, OfferIsLeft, SumNat
<1>4. SumFunction(earlier) = SumFunctionOnSet(Offer, before)
  <2>1. SumFunction(earlier) = SumFunctionOnSet(earlier, before)
    BY DEF SumFunction
  <2> HIDE DEF earlier
  <2> QED  BY <1>1, <1>2, <2>1, SumSame
<1>5. Take(g, cost) = Least(Offer[g], Most(0, cost - SumFunctionOnSet(Offer, before)))
  BY <1>4, OfferIsLeft DEF Take
<1>6. Offer[g] \in Nat
  BY OfferIsLeft
<1> HIDE DEF before
<1>7. Take(g, cost) \in Nat /\ Take(g, cost) <= Offer[g]
  BY <1>3, <1>5, <1>6 DEF Least, Most
<1> QED  BY <1>3, <1>5, <1>7 DEF before

\* debitSubscriptionCredits drains the price, or everything on offer if that is less.
LEMMA DrainsWhatItCan ==
  ASSUME GrantsOK, NEW cost \in Nat
  PROVE  /\ Drained(cost) = Least(cost, SumFunctionOnSet(Offer, DOMAIN Grants))
         /\ Drained(cost) \in Nat /\ Drained(cost) <= cost
<1> DEFINE take == [g \in DOMAIN Grants |-> Take(g, cost)]
           T(k) == SumFunctionOnSet(take, 1 .. k)
           O(k) == SumFunctionOnSet(Offer, 1 .. k)
           Bad == {k \in Nat : k <= Len(Grants) /\ T(k) # Least(cost, O(k))}
<1>1. \A g \in DOMAIN Grants : take[g] \in Nat /\ Offer[g] \in Nat
  BY TakeIsWithin, OfferIsLeft
<1>2. \A k \in Nat : k <= Len(Grants) => T(k) \in Nat /\ O(k) \in Nat
  <2> SUFFICES ASSUME NEW k \in Nat, k <= Len(Grants) PROVE T(k) \in Nat /\ O(k) \in Nat
    OBVIOUS
  <2>1. 1 .. k \subseteq DOMAIN Grants /\ IsFiniteSet(1 .. k)
    BY GrantNumbers, FS_Subset
  <2> HIDE DEF take
  <2> QED  BY <1>1, <2>1, SumNat
<1>3. Bad = {}
  <2> SUFFICES ASSUME Bad # {} PROVE FALSE
    OBVIOUS
  <2>1. PICK k \in Bad : \A m \in Bad : ~ (m < k)
    <3>1. Bad \in SUBSET Nat
      OBVIOUS
    <3> HIDE DEF Bad
    <3> QED  BY <3>1, LeastNumber
  <2>2. k \in Nat /\ k <= Len(Grants) /\ T(k) # Least(cost, O(k))
    OBVIOUS
  <2>3. CASE k = 0
    <3>1. 1 .. 0 = {}
      OBVIOUS
    <3>2. T(0) = 0 /\ O(0) = 0
      BY <3>1, SumEmpty
    <3> QED  BY <2>2, <2>3, <3>2 DEF Least
  <2>4. CASE k # 0
    <3>1. k - 1 \in Nat /\ k - 1 < k /\ k - 1 <= Len(Grants)
      BY <2>2, <2>4, GrantNumbers
    <3>2. T(k - 1) = Least(cost, O(k - 1))
      <4>1. k - 1 \notin Bad
        <5> HIDE DEF Bad
        <5> QED  BY <2>1, <3>1
      <4> QED  BY <3>1, <4>1
    <3>3. k \in DOMAIN Grants /\ 1 .. k \subseteq DOMAIN Grants /\ IsFiniteSet(1 .. k)
          /\ k \in 1 .. k /\ (1 .. k) \ {k} = 1 .. (k - 1)
      BY <2>2, <2>4, GrantNumbers, FS_Subset
    <3>4. T(k) = T(k - 1) + take[k] /\ O(k) = O(k - 1) + Offer[k]
      <4> DEFINE upto == 1 .. k
      <4>1. /\ IsFiniteSet(upto) /\ k \in upto
            /\ \A g \in upto : take[g] \in Int /\ Offer[g] \in Int
        BY <1>1, <3>3
      <4> HIDE DEF take, upto
      <4>2. /\ SumFunctionOnSet(take, upto) = SumFunctionOnSet(take, upto \ {k}) + take[k]
            /\ SumFunctionOnSet(Offer, upto) = SumFunctionOnSet(Offer, upto \ {k}) + Offer[k]
        BY <4>1, SumRemove
      <4> QED  BY <3>3, <4>2 DEF upto
    <3>5. take[k] = Least(Offer[k], Most(0, cost - O(k - 1)))
      BY <3>3, TakeIsWithin
    <3>6. O(k - 1) \in Nat /\ Offer[k] \in Nat
      BY <1>1, <1>2, <3>1, <3>3
    <3> HIDE DEF T, O, take, Bad
    <3> QED  BY <2>2, <3>2, <3>4, <3>5, <3>6 DEF Least, Most
  <2> QED  BY <2>3, <2>4
<1>4. T(Len(Grants)) = Least(cost, O(Len(Grants))) /\ O(Len(Grants)) \in Nat
  <2>1. Len(Grants) \in Nat /\ Len(Grants) <= Len(Grants) /\ Len(Grants) \notin Bad
    BY <1>3, GrantNumbers
  <2> QED  BY <1>2, <2>1
<1>5. Drained(cost) = T(Len(Grants))
  BY GrantNumbers DEF Drained, SumFunction
<1> HIDE DEF T, Bad, take
<1>6. Drained(cost) = Least(cost, O(Len(Grants)))
  BY <1>4, <1>5
<1>7. O(Len(Grants)) = SumFunctionOnSet(Offer, DOMAIN Grants)
  BY GrantNumbers
<1> HIDE DEF O
<1> QED  BY <1>4, <1>6, <1>7 DEF Least
-----------------------------------------------------------------------------
(* The account of the money *)

\* The wallet, the grants and the earnings add up to what the settled attempts say.
MoneyOK ==
  /\ balance \in Nat
  /\ GrantsOK
  /\ attempt \in [Requests -> Attempt \cup {NoAttempt}]
  /\ earned \in [Nodes -> Nat]
  /\ IsFiniteSet(Settled)
  /\ ChargesBalance

\* A settled attempt names amounts and a provider.
LEMMA SettledRows ==
  ASSUME MoneyOK, NEW r \in Settled
  PROVE  attempt[r] \in Attempt /\ r \in Requests
BY DEF MoneyOK, Settled, NoAttempt

\* A step that moves no money and settles nothing keeps the account.
LEMMA MoneyKept ==
  ASSUME MoneyOK, UNCHANGED <<balance, consumed, earned>>, expired' \in 0 .. Len(Grants),
         attempt' \in [Requests -> Attempt \cup {NoAttempt}],
         Settled' = Settled, \A r \in Settled : attempt'[r] = attempt[r]
  PROVE  MoneyOK'
<1>1. \A n \in Nodes : SettledOn(n)' = SettledOn(n)
  BY DEF SettledOn
<1>2. /\ [r \in Settled' |-> attempt'[r].paid] = [r \in Settled |-> attempt[r].paid]
      /\ [r \in Settled' |-> attempt'[r].drained] = [r \in Settled |-> attempt[r].drained]
  OBVIOUS
<1>3. \A n \in Nodes :
        [r \in SettledOn(n)' |-> ProviderShare(attempt'[r].cost)] =
          [r \in SettledOn(n) |-> ProviderShare(attempt[r].cost)]
  BY <1>1 DEF SettledOn
<1>4. ChargesBalance'
  BY <1>1, <1>2, <1>3 DEF MoneyOK, ChargesBalance
<1>5. GrantsOK'
  BY DEF MoneyOK, GrantsOK
<1> QED  BY <1>4, <1>5 DEF MoneyOK

\* What settleInferenceOnce writes into the attempt it claims
ChargeRow(cost, n) ==
  [status |-> "settled", cost |-> cost, drained |-> Drained(cost),
   paid |-> Shortfall(cost), node |-> n]

\* settleInferenceOnce moves the price once: out of the grants and the wallet, into the
\* attempt, and the provider's share of it into the provider's earnings.
LEMMA SettleKeepsMoney ==
  ASSUME MoneyOK, NEW r \in Requests, NEW n \in Nodes, NEW cost \in Costs,
         SettleInferenceOnce(r, n, cost), UNCHANGED expired
  PROVE  MoneyOK'
<1> DEFINE row == ChargeRow(cost, n)
<1>0. GrantsOK /\ cost \in Nat /\ cost <= MaxCost
  BY AmountsAssumption DEF MoneyOK, Costs
<1>1. /\ Drained(cost) \in Nat /\ Shortfall(cost) \in Nat
      /\ Drained(cost) <= cost /\ Shortfall(cost) <= cost /\ cost = Shortfall(cost) + Drained(cost)
  BY <1>0, DrainsWhatItCan DEF Shortfall
<1>2. /\ row \in Attempt /\ row # NoAttempt
      /\ row.status = "settled" /\ row.node = n /\ row.cost = cost
      /\ row.paid = Shortfall(cost) /\ row.drained = Drained(cost)
  BY <1>0, <1>1, AmountsAssumption DEF ChargeRow, Attempt, Costs, NoAttempt
<1>3. /\ attempt[r].status = "none" /\ balance >= Shortfall(cost)
      /\ attempt' = [attempt EXCEPT ![r] = row]
      /\ consumed' = [g \in DOMAIN Grants |-> consumed[g] + Take(g, cost)]
      /\ balance' = balance - Shortfall(cost)
      /\ earned' = [earned EXCEPT ![n] = @ + ProviderShare(cost)]
  BY DEF SettleInferenceOnce, Unclaimed, Affords, ChargeRow
<1> HIDE DEF row
<1>4. /\ attempt' \in [Requests -> Attempt \cup {NoAttempt}] /\ attempt'[r] = row
      /\ \A q \in Requests \ {r} : attempt'[q] = attempt[q]
  BY <1>2, <1>3 DEF MoneyOK
<1>5. /\ r \notin Settled /\ Settled' = Settled \cup {r}
      /\ \A q \in Settled : attempt'[q] = attempt[q]
  BY <1>2, <1>3, <1>4 DEF Settled
<1>6. /\ IsFiniteSet(Settled) /\ IsFiniteSet(Settled')
      /\ \A q \in Settled : attempt[q] \in Attempt
  BY <1>5, SettledRows, FS_AddElement DEF MoneyOK
<1>7. SumFunction([q \in Settled' |-> attempt'[q].paid])
        = SumFunction([q \in Settled |-> attempt[q].paid]) + Shortfall(cost)
  <2> DEFINE f == [q \in Settled |-> attempt[q].paid]
             g == [q \in Settled \cup {r} |-> attempt'[q].paid]
  <2>1. /\ DOMAIN f = Settled /\ DOMAIN g = Settled \cup {r}
        /\ \A q \in Settled : f[q] \in Int /\ g[q] = f[q]
        /\ g[r] = Shortfall(cost) /\ g[r] \in Int
    BY <1>1, <1>2, <1>4, <1>5, <1>6, AmountsAssumption DEF Attempt, Costs
  <2>2. SumFunction(g) = SumFunction(f) + g[r]
    <3> HIDE DEF f, g
    <3> QED  BY <1>5, <1>6, <2>1, SumExtends
  <2> QED  BY <1>5, <2>1, <2>2
<1>8. SumFunction([q \in Settled' |-> attempt'[q].drained])
        = SumFunction([q \in Settled |-> attempt[q].drained]) + Drained(cost)
  <2> DEFINE f == [q \in Settled |-> attempt[q].drained]
             g == [q \in Settled \cup {r} |-> attempt'[q].drained]
  <2>1. /\ DOMAIN f = Settled /\ DOMAIN g = Settled \cup {r}
        /\ \A q \in Settled : f[q] \in Int /\ g[q] = f[q]
        /\ g[r] = Drained(cost) /\ g[r] \in Int
    BY <1>1, <1>2, <1>4, <1>5, <1>6, AmountsAssumption DEF Attempt, Costs
  <2>2. SumFunction(g) = SumFunction(f) + g[r]
    <3> HIDE DEF f, g
    <3> QED  BY <1>5, <1>6, <2>1, SumExtends
  <2> QED  BY <1>5, <2>1, <2>2
<1>9. SumFunction(consumed') = SumFunction(consumed) + Drained(cost)
  <2> DEFINE take == [g \in DOMAIN Grants |-> Take(g, cost)]
  <2>1. /\ DOMAIN consumed = DOMAIN Grants /\ DOMAIN consumed' = DOMAIN Grants
        /\ \A g \in DOMAIN Grants : consumed[g] \in Nat /\ take[g] \in Nat
        /\ \A g \in DOMAIN Grants : consumed'[g] = consumed[g] + take[g]
    BY <1>0, <1>3, TakeIsWithin DEF GrantsOK
  <2>2. Drained(cost) = SumFunctionOnSet(take, DOMAIN Grants)
    BY DEF Drained, SumFunction
  <2> HIDE DEF take
  <2>3. SumFunctionOnSet(consumed', DOMAIN Grants)
          = SumFunctionOnSet(consumed, DOMAIN Grants) + SumFunctionOnSet(take, DOMAIN Grants)
    BY <2>1, GrantNumbers, SumPlus
  <2> QED  BY <2>1, <2>2, <2>3 DEF SumFunction
<1>10. GrantsOK'
  <2>1. ASSUME NEW g \in DOMAIN Grants
        PROVE  consumed'[g] \in Nat /\ consumed'[g] <= Grants[g]
    <3>1. /\ Take(g, cost) \in Nat /\ Take(g, cost) <= Offer[g] /\ Offer[g] \in Nat
          /\ consumed[g] + Offer[g] <= Grants[g] /\ consumed[g] \in Nat
      BY <1>0, TakeIsWithin, OfferIsLeft DEF GrantsOK
    <3>2. consumed'[g] = consumed[g] + Take(g, cost) /\ Grants[g] \in Nat
      BY <1>3, GrantNumbers
    <3> QED  BY <3>1, <3>2
  <2> QED  BY <1>0, <1>3, <2>1 DEF GrantsOK
<1>11. /\ earned' \in [Nodes -> Nat]
       /\ ProviderShare(cost) \in Nat
       /\ earned'[n] = earned[n] + ProviderShare(cost)
       /\ \A m \in Nodes \ {n} : earned'[m] = earned[m]
  <2>1. ProviderShare(cost) \in Nat
    BY <1>0 DEF ProviderShare
  <2> QED  BY <1>3, <2>1 DEF MoneyOK
<1>12. ASSUME NEW m \in Nodes
       PROVE  earned'[m] = SumFunction([q \in SettledOn(m)' |-> ProviderShare(attempt'[q].cost)])
  <2>1. earned[m] = SumFunction([q \in SettledOn(m) |-> ProviderShare(attempt[q].cost)])
    BY DEF MoneyOK, ChargesBalance
  <2>2. CASE m = n
    <3> DEFINE f == [q \in SettledOn(n) |-> ProviderShare(attempt[q].cost)]
               g == [q \in SettledOn(n) \cup {r} |-> ProviderShare(attempt'[q].cost)]
    <3>1. SettledOn(n)' = SettledOn(n) \cup {r} /\ r \notin SettledOn(n)
      BY <1>2, <1>4, <1>5 DEF SettledOn
    <3>2. IsFiniteSet(SettledOn(n)) /\ SettledOn(n) \subseteq Settled
      BY <1>6, FS_Subset DEF SettledOn
    <3>3. \A q \in Settled : ProviderShare(attempt[q].cost) \in Nat
      BY <1>6, AmountsAssumption DEF Attempt, Costs, ProviderShare
    <3>4. /\ DOMAIN f = SettledOn(n) /\ DOMAIN g = SettledOn(n) \cup {r}
          /\ \A q \in SettledOn(n) : f[q] \in Int /\ g[q] = f[q]
          /\ g[r] = ProviderShare(cost) /\ g[r] \in Int
      BY <1>2, <1>4, <1>5, <1>11, <3>2, <3>3
    <3>5. SumFunction(g) = SumFunction(f) + g[r]
      <4> HIDE DEF f, g
      <4> QED  BY <3>1, <3>2, <3>4, SumExtends
    <3> QED  BY <1>11, <2>1, <2>2, <3>1, <3>4, <3>5
  <2>3. CASE m # n
    <3>1. SettledOn(m)' = SettledOn(m)
      BY <1>2, <1>4, <1>5, <2>3 DEF SettledOn
    <3>2. [q \in SettledOn(m)' |-> ProviderShare(attempt'[q].cost)]
            = [q \in SettledOn(m) |-> ProviderShare(attempt[q].cost)]
      BY <1>5, <3>1 DEF SettledOn
    <3> QED  BY <1>11, <2>1, <2>3, <3>2
  <2> QED  BY <2>2, <2>3
<1>13. ChargesBalance'
  <2>1. /\ balance = Deposit - SumFunction([q \in Settled |-> attempt[q].paid])
        /\ SumFunction(consumed) = SumFunction([q \in Settled |-> attempt[q].drained])
        /\ \A q \in Settled : attempt[q].cost = attempt[q].paid + attempt[q].drained
    BY DEF MoneyOK, ChargesBalance
  <2>2. SumFunction([q \in Settled |-> attempt[q].paid]) \in Int
    <3> DEFINE f == [q \in Settled |-> attempt[q].paid]
    <3>1. \A q \in Settled : f[q] \in Int
      BY <1>6, AmountsAssumption DEF Attempt, Costs
    <3> HIDE DEF f
    <3>2. SumFunctionOnSet(f, Settled) \in Int
      BY <1>6, <3>1, SumInt
    <3> QED  BY <3>2 DEF SumFunction, f
  <2>3. balance' = Deposit - SumFunction([q \in Settled' |-> attempt'[q].paid])
    BY <1>1, <1>3, <1>7, <2>1, <2>2, AmountsAssumption
  <2>4. SumFunction(consumed') = SumFunction([q \in Settled' |-> attempt'[q].drained])
    BY <1>8, <1>9, <2>1
  <2>5. \A q \in Settled' : attempt'[q].cost = attempt'[q].paid + attempt'[q].drained
    BY <1>1, <1>2, <1>4, <1>5, <2>1
  <2> QED  BY <1>12, <2>3, <2>4, <2>5 DEF ChargesBalance
<1>14. balance' \in Nat
  BY <1>1, <1>3 DEF MoneyOK
<1> QED  BY <1>4, <1>6, <1>10, <1>11, <1>13, <1>14 DEF MoneyOK

\* A claim without a charge moves no money.
LEMMA ClaimKeepsMoney ==
  ASSUME MoneyOK, NEW r \in Requests, NEW n \in Nodes,
         NEW s \in {"insufficient_balance", "no_answer"}, NEW claimed \in Costs, NEW cost,
         ClaimUncharged(r, n, s, claimed, cost), UNCHANGED expired
  PROVE  MoneyOK'
<1> DEFINE row == [status |-> s, cost |-> claimed, drained |-> 0, paid |-> 0, node |-> n]
<1>1. row \in Attempt /\ row.status # "settled"
  BY AmountsAssumption DEF Attempt, Costs
<1>2. /\ attempt' = IF attempt[r].status # "none" THEN attempt
                    ELSE [attempt EXCEPT ![r] = row]
      /\ UNCHANGED <<balance, consumed, earned>>
  BY DEF ClaimUncharged, Unclaimed
<1> HIDE DEF row
<1>3. attempt' \in [Requests -> Attempt \cup {NoAttempt}]
  BY <1>1, <1>2 DEF MoneyOK
<1>4. Settled' = Settled /\ \A q \in Settled : attempt'[q] = attempt[q]
  BY <1>1, <1>2, <1>3 DEF MoneyOK, Settled
<1> QED  BY <1>2, <1>3, <1>4, MoneyKept DEF MoneyOK, GrantsOK

\* Time may pass a grant's end: its amount is not moved.
LEMMA NoMoneyMoves ==
  ASSUME MoneyOK, UNCHANGED <<balance, consumed, earned, attempt>>,
         expired' \in 0 .. Len(Grants)
  PROVE  MoneyOK'
BY MoneyKept DEF MoneyOK, Settled

\* The memory of the API process, and the ledger
MemoryOK ==
  /\ cache \subseteq Keys
  /\ ledger \in [Requests -> Receipt]
  /\ \A n \in Nodes : inflight[n] <= MaxInflight

\* A receipt is written into a ledger of receipts.
LEMMA LedgerKept ==
  ASSUME MemoryOK, NEW r \in Requests, NEW s \in {"settled", "failed"}, NEW cost \in Costs,
         ledger' = Kept(ledger, r, s, cost)
  PROVE  ledger' \in [Requests -> Receipt]
BY KeptWrites DEF MemoryOK

\* finally: a released slot leaves room, and the answer is remembered under its key.
LEMMA RoomKept ==
  ASSUME SlotsOK, MemoryOK, NEW c \in Calls, Finish(c) \/ Restart
  PROVE  \A n \in Nodes : inflight'[n] <= MaxInflight
<1>1. /\ \A n \in Nodes : inflight[n] \in Nat /\ inflight[n] <= MaxInflight
      /\ MaxInflight \in Nat
  BY AmountsAssumption DEF SlotsOK, MemoryOK
<1>2. \A n \in Nodes : inflight'[n] \in {inflight[n], inflight[n] - 1, 0}
  BY DEF Finish, Release, Restart
<1> QED  BY <1>1, <1>2

\* acquireProviderSlot takes a slot only below the limit.
LEMMA RoomTaken ==
  ASSUME SlotsOK, MemoryOK, NEW n \in Nodes, Free(n),
         inflight' = [inflight EXCEPT ![n] = @ + 1]
  PROVE  \A m \in Nodes : inflight'[m] <= MaxInflight
<1>1. /\ inflight \in [Nodes -> Nat] /\ \A m \in Nodes : inflight[m] <= MaxInflight
      /\ inflight[n] < MaxInflight /\ MaxInflight \in Nat
  BY AmountsAssumption DEF SlotsOK, MemoryOK, Free
<1>2. \A m \in Nodes : inflight'[m] = IF m = n THEN inflight[n] + 1 ELSE inflight[m]
  BY <1>1
<1> QED  BY <1>1, <1>2

\* Every step of the API process keeps the account and the limits of its memory.
LEMMA BillingKeepsMoney ==
  ASSUME CallsOK, SlotsOK, MoneyOK, MemoryOK, BillingNext
  PROVE  MoneyOK' /\ MemoryOK'
<1>1. /\ \A cost \in 1 .. MaxCost : cost \in Costs
      /\ 0 \in Costs /\ PromptCost \in Costs
      /\ Keys \subseteq Requests
      /\ expired \in 0 .. Len(Grants) /\ Len(Grants) \in Nat
  BY KeysAssumption, AmountsAssumption, GrantNumbers DEF Costs, MoneyOK, GrantsOK
<1>2. \A c \in Calls : call[c] # NoCall => call[c].key \in Keys /\ call[c].node \in Nodes
  BY DEF CallsOK, Handler
<1>3. ASSUME UNCHANGED <<money, expired, ledger>>, cache' \subseteq Keys,
             \A n \in Nodes : inflight'[n] <= MaxInflight
      PROVE  MoneyOK' /\ MemoryOK'
  BY <1>1, <1>3, NoMoneyMoves DEF money, MemoryOK
<1>4. ASSUME NEW n \in Nodes, UNCHANGED <<cache, money, expired, ledger>>,
             UNCHANGED inflight \/ (Free(n) /\ inflight' = [inflight EXCEPT ![n] = @ + 1])
      PROVE  MoneyOK' /\ MemoryOK'
  BY <1>3, <1>4, RoomTaken DEF MemoryOK
<1>5. ASSUME NEW c \in Calls, NEW k \in Keys, NEW n \in Nodes, NEW est \in 1 .. MaxCost,
              \/ \E others \in SUBSET Nodes, stream \in BOOLEAN : Admit(c, k, n, others, stream, est)
              \/ Enqueue(c, k, n, est)
       PROVE  MoneyOK' /\ MemoryOK'
  BY <1>4, <1>5 DEF Admit, Enqueue
<1>6. ASSUME NEW c \in Calls, NEW n \in Nodes, FailOver(c, n)
       PROVE  MoneyOK' /\ MemoryOK'
  BY <1>4, <1>6 DEF FailOver
<1>7. ASSUME NEW c \in Calls, call[c] # NoCall, Remember(c) \/ UNCHANGED cache
      PROVE  cache' \subseteq Keys
  BY <1>2, <1>7 DEF Remember, MemoryOK
<1>8. ASSUME NEW c \in Calls, NEW cost \in 1 .. MaxCost, Answer(c, cost)
      PROVE  MoneyOK' /\ MemoryOK'
  <2>1. /\ call[c] # NoCall /\ Finish(c) /\ Remember(c) /\ UNCHANGED expired
        /\ call[c].key \in Requests /\ call[c].node \in Nodes /\ cost \in Costs
    BY <1>1, <1>2, <1>8 DEF Answer
  <2>2. CASE Charge(c, cost)
    <3>1. MoneyOK' /\ ledger' \in [Requests -> Receipt]
      BY <2>1, <2>2, SettleKeepsMoney, LedgerKept DEF Charge
    <3> QED  BY <1>7, <2>1, <3>1, RoomKept DEF MemoryOK
  <2>3. CASE Replay(c, cost)
    <3>1. MoneyOK' /\ ledger' \in [Requests -> Receipt]
      BY <1>1, <2>1, <2>3, NoMoneyMoves, LedgerKept DEF Replay
    <3> QED  BY <1>7, <2>1, <3>1, RoomKept DEF MemoryOK
  <2>4. CASE Unbilled(c, cost)
    <3>1. ClaimUncharged(call[c].key, call[c].node, "insufficient_balance", cost, cost)
      BY <2>4 DEF Unbilled
    <3>2. MoneyOK' /\ ledger' \in [Requests -> Receipt]
      BY <2>1, <3>1, ClaimKeepsMoney, LedgerKept DEF ClaimUncharged
    <3> QED  BY <1>7, <2>1, <3>2, RoomKept DEF MemoryOK
  <2> QED  BY <1>8, <2>2, <2>3, <2>4 DEF Answer
<1>9. ASSUME NEW c \in Calls, AnswerNothing(c)
      PROVE  MoneyOK' /\ MemoryOK'
  <2>1. /\ call[c] # NoCall /\ Finish(c) /\ Remember(c) /\ UNCHANGED expired
        /\ call[c].key \in Requests /\ call[c].node \in Nodes
        /\ ClaimUncharged(call[c].key, call[c].node, "no_answer", 0, PromptCost)
    BY <1>1, <1>2, <1>9 DEF AnswerNothing
  <2>2. MoneyOK' /\ ledger' \in [Requests -> Receipt]
    BY <1>1, <2>1, ClaimKeepsMoney, LedgerKept DEF ClaimUncharged
  <2> QED  BY <1>7, <2>1, <2>2, RoomKept DEF MemoryOK
<1>10. ASSUME NEW c \in Calls, Fail(c)
      PROVE  MoneyOK' /\ MemoryOK'
  <2>1. /\ call[c] # NoCall /\ Finish(c) /\ call[c].key \in Requests
        /\ UNCHANGED <<cache, balance, consumed, attempt, earned, expired>>
        /\ ledger' = Kept(ledger, call[c].key, "failed", PromptCost)
    BY <1>1, <1>2, <1>10 DEF Fail
  <2>2. MoneyOK' /\ ledger' \in [Requests -> Receipt]
    BY <1>1, <2>1, NoMoneyMoves, LedgerKept
  <2> QED  BY <1>7, <2>1, <2>2, RoomKept DEF MemoryOK
<1>11. ASSUME NEW c \in Calls, NEW cost \in 1 .. MaxCost, SettleThenCrash(c, cost)
      PROVE  MoneyOK' /\ MemoryOK'
  <2>1. /\ call[c].key \in Requests /\ call[c].node \in Nodes /\ cost \in Costs
        /\ SettleInferenceOnce(call[c].key, call[c].node, cost)
        /\ Restart /\ UNCHANGED <<expired, ledger>>
    BY <1>1, <1>2, <1>11 DEF SettleThenCrash
  <2>2. MoneyOK'
    BY <2>1, SettleKeepsMoney
  <2>3. cache' = {}
    BY <2>1 DEF Restart
  <2> QED  BY <2>1, <2>2, <2>3, RoomKept DEF MemoryOK
<1>12. ASSUME NEW k \in Keys, Forget(k)
       PROVE  MoneyOK' /\ MemoryOK'
  BY <1>3, <1>12 DEF Forget, MemoryOK
<1>13. CASE ExpireGrant
  <2>1. /\ UNCHANGED <<balance, consumed, earned, attempt, cache, inflight, ledger>>
        /\ expired' \in 0 .. Len(Grants)
    BY <1>1, <1>13 DEF ExpireGrant, money
  <2> QED  BY <2>1, NoMoneyMoves DEF MemoryOK
<1>14. CASE Crash
  <2>1. cache' = {} /\ \A n \in Nodes : inflight'[n] <= MaxInflight
    BY <1>14, AmountsAssumption DEF Crash, Restart
  <2> QED  BY <1>3, <1>14, <2>1 DEF Crash
<1> QED
  BY <1>5, <1>6, <1>8, <1>9, <1>10, <1>11, <1>12, <1>13, <1>14 DEF BillingNext, HandlerStep
-----------------------------------------------------------------------------
(* The totals of the batches *)

Stages == {"absent", "created", "running", "completed", "failed"}

\* A completed batch reports what its lines cost, or none of them was charged; a line
\* with something to charge has a provider to credit.
TotalsOK ==
  /\ batch \in [Batches -> [status : Stages, total : Nat]]
  /\ \A b \in Batches : batch[b].status = "completed" =>
       \/ batch[b].total = CostOf(LinesOf(b))
       \/ \A l \in LinesOf(b) : attempt[l].status = "none"
  /\ \A l \in Lines : Billable(l) => line[l].node \in Nodes

\* A batch has finitely many lines.
LEMMA LinesFinite == ASSUME NEW b \in Batches PROVE IsFiniteSet(LinesOf(b)) /\ LinesOf(b) \subseteq Lines
<1>1. IsFiniteSet({b}) /\ IsFiniteSet({b} \X LineNos)
  BY LineNosAssumption, FS_Singleton, FS_Product
<1>2. LinesOf(b) \subseteq {b} \X LineNos
  BY DEF LinesOf, Lines
<1> QED  BY <1>1, <1>2, FS_Subset DEF LinesOf

\* The cost of some lines of a batch is a natural number.
LEMMA CostNat ==
  ASSUME line \in [Lines -> LineRow], NEW b \in Batches, NEW ls \in SUBSET LinesOf(b)
  PROVE  CostOf(ls) \in Nat
<1> DEFINE f == [l \in ls |-> line[l].cost]
<1>1. IsFiniteSet(ls) /\ ls \subseteq Lines
  BY LinesFinite, FS_Subset
<1>2. \A l \in ls : f[l] \in Nat
  BY <1>1, AmountsAssumption DEF LineRow, Costs
<1>3. CostOf(ls) = SumFunctionOnSet(f, ls)
  BY DEF CostOf, SumFunction
<1> HIDE DEF f
<1> QED  BY <1>1, <1>2, <1>3, SumNat

\* A step that changes no completed batch, nor its lines' cost and attempts, keeps the
\* totals.
LEMMA TotalsKept ==
  ASSUME TotalsOK, batch' \in [Batches -> [status : Stages, total : Nat]],
         \A b \in Batches : batch'[b].status = "completed" =>
           /\ batch'[b] = batch[b]
           /\ \A l \in LinesOf(b) : line'[l].cost = line[l].cost /\ attempt'[l] = attempt[l],
         \A l \in Lines : Billable(l)' => line'[l].node \in Nodes
  PROVE  TotalsOK'
<1>1. ASSUME NEW b \in Batches, batch'[b].status = "completed"
      PROVE  \/ batch'[b].total = CostOf(LinesOf(b))'
             \/ \A l \in LinesOf(b) : attempt'[l].status = "none"
  <2>1. [l \in LinesOf(b) |-> line'[l].cost] = [l \in LinesOf(b) |-> line[l].cost]
    BY <1>1
  <2>2. CostOf(LinesOf(b))' = CostOf(LinesOf(b))
    BY <2>1 DEF CostOf, LinesOf
  <2> QED  BY <1>1, <2>2 DEF TotalsOK
<1>2. \A b \in Batches : batch'[b].status = "completed" =>
        batch'[b].total = CostOf(LinesOf(b))' \/ \A l \in LinesOf(b)' : attempt'[l].status = "none"
  BY <1>1 DEF LinesOf
<1> QED  BY <1>2 DEF TotalsOK

\* No batch, no line and no line's attempt changes.
LEMMA TotalsSame ==
  ASSUME TotalsOK, UNCHANGED <<batch, line>>, \A l \in Lines : attempt'[l] = attempt[l]
  PROVE  TotalsOK'
BY TotalsKept DEF TotalsOK, Billable, LinesOf

\* Creating a batch, storing its lines and taking it up keep the totals.
LEMMA QueueKeepsTotals ==
  ASSUME LinesOK, TotalsOK,
         \/ \E b \in Batches : CreateBatch(b)
         \/ \E b \in Batches, settles \in BOOLEAN : StartBatch(b, settles)
         \/ \E l \in Lines : InsertLine(l)
  PROVE  TotalsOK'
<1> USE DEF Stages
<1>1. UNCHANGED attempt
  BY DEF CreateBatch, StartBatch, InsertLine, billingVars, money
<1>2. ASSUME NEW b \in Batches, NEW settles \in BOOLEAN, CreateBatch(b) \/ StartBatch(b, settles)
      PROVE  TotalsOK'
  <2>1. /\ UNCHANGED line
        /\ \E s \in {"created", "running"} : batch' = [batch EXCEPT ![b].status = s]
    BY <1>2 DEF CreateBatch, StartBatch
  <2>2. /\ batch' \in [Batches -> [status : Stages, total : Nat]]
        /\ batch'[b].status # "completed" /\ \A c \in Batches \ {b} : batch'[c] = batch[c]
    BY <2>1 DEF TotalsOK
  <2>3. \A l \in Lines : Billable(l)' => line'[l].node \in Nodes
    BY <2>1 DEF TotalsOK, Billable
  <2> QED  BY <1>1, <2>1, <2>2, <2>3, TotalsKept
<1>3. ASSUME NEW l \in Lines, InsertLine(l)
      PROVE  TotalsOK'
  <2>1. /\ UNCHANGED batch /\ line' = [line EXCEPT ![l].status = "pending"]
        /\ line \in [Lines -> LineRow]
    BY <1>3 DEF InsertLine, LinesOK, WorkOK
  <2>2. /\ line'[l].cost = line[l].cost /\ line'[l].status = "pending"
        /\ \A m \in Lines \ {l} : line'[m] = line[m]
    BY <2>1 DEF LineRow
  <2>3. \A m \in Lines : Billable(m)' => line'[m].node \in Nodes
    BY <2>2 DEF TotalsOK, Billable
  <2>4. \A m \in Lines : line'[m].cost = line[m].cost
    BY <2>2
  <2> QED  BY <1>1, <2>1, <2>3, <2>4, TotalsKept DEF TotalsOK, LinesOf
<1>4. TRUE \in BOOLEAN
  OBVIOUS
<1> QED  BY <1>2, <1>3, <1>4

\* Every step of the worker keeps the totals.
LEMMA WorkKeepsTotals ==
  ASSUME LinesOK, TotalsOK, TablesOK, worker # NoWork, WorkerStep
  PROVE  TotalsOK'
<1> USE DEF Stages
<1> DEFINE b == worker.batch
<1>1. /\ b \in Batches /\ batch[b].status = "running" /\ line \in [Lines -> LineRow]
      /\ \A c \in Batches \ {b} : \A l \in LinesOf(c) : l[1] # b /\ l \in Lines
      /\ worker.todo \subseteq LinesOf(b) /\ LinesOf(b) \subseteq Lines
      /\ \A l \in LinesOf(b) : l[1] = b
  BY AtWork DEF LinesOf, LinesOK, WorkOK
<1>2. ASSUME \/ UNCHANGED batch
             \/ batch' = [batch EXCEPT ![b] = [status |-> "failed", total |-> 0]],
             \A l \in Lines : l[1] # b => line'[l] = line[l] /\ attempt'[l] = attempt[l],
             \A l \in Lines : Billable(l)' => line'[l].node \in Nodes
      PROVE  TotalsOK'
  <2>1. /\ batch' \in [Batches -> [status : Stages, total : Nat]]
        /\ batch'[b].status # "completed" /\ \A c \in Batches \ {b} : batch'[c] = batch[c]
    BY <1>1, <1>2 DEF TotalsOK
  <2> HIDE DEF b
  <2> QED  BY <1>1, <1>2, <2>1, TotalsKept
<1>3. ASSUME UNCHANGED billingVars,
             UNCHANGED batch \/ FailBatch,
             \A l \in Lines : l[1] # b => line'[l] = line[l],
             \A l \in Lines :
               \/ line'[l] = line[l]
               \/ \E s \in {"not_required", "failed", "settled"} :
                    line'[l] = [line[l] EXCEPT !.settlement = s]
      PROVE  TotalsOK'
  <2>1. UNCHANGED attempt
    BY <1>3 DEF billingVars, money
  <2>2. ASSUME NEW l \in Lines, Billable(l)'
        PROVE  line'[l].node \in Nodes
    <3>1. line[l] \in LineRow
      BY <1>1
    <3>2. /\ line'[l].status = line[l].status
          /\ line'[l].cost = line[l].cost /\ line'[l].node = line[l].node
      BY <1>3, <3>1 DEF LineRow
    <3> QED  BY <2>2, <3>2 DEF TotalsOK, Billable
  <2> QED  BY <1>2, <1>3, <2>1, <2>2 DEF FailBatch
<1>4. CASE AcceptProofs \/ BatchThrows \/ WorkerCrash
  <2>1. (UNCHANGED batch \/ FailBatch) /\ UNCHANGED <<line, billingVars>>
    BY <1>4 DEF AcceptProofs, BatchThrows, WorkerCrash
  <2> QED  BY <1>3, <2>1
<1>5. ASSUME NEW l \in worker.todo, NEW outcome \in Outcome, NEW n \in Nodes,
             ApplyProof(l, outcome, n)
      PROVE  TotalsOK'
  <2>1. /\ UNCHANGED <<batch, billingVars>>
        /\ line' = [line EXCEPT ![l].status = outcome.status, ![l].cost = outcome.cost,
                                ![l].node = n]
    BY <1>5 DEF ApplyProof
  <2>2. l \in Lines /\ l[1] = b
    BY <1>1
  <2>3. line'[l].node = n /\ \A m \in Lines \ {l} : line'[m] = line[m]
    BY <1>1, <2>1, <2>2 DEF LineRow
  <2>4. \A m \in Lines : Billable(m)' => line'[m].node \in Nodes
    BY <2>3 DEF TotalsOK, Billable
  <2>5. UNCHANGED attempt
    BY <2>1 DEF billingVars, money
  <2> QED  BY <1>2, <2>1, <2>2, <2>3, <2>4, <2>5
<1>6. CASE Preflight \/ PreflightRefused
  <2>1. UNCHANGED billingVars /\ (UNCHANGED batch \/ FailBatch)
    BY <1>6 DEF Preflight, PreflightRefused
  <2>2. \A l \in Lines :
          \/ line'[l] = line[l]
          \/ l[1] = b /\ \E s \in {"not_required", "failed"} :
               line'[l] = [line[l] EXCEPT !.settlement = s]
    BY <1>6 DEF Preflight, PreflightRefused, Inserted, LinesOf
  <2> QED  BY <1>3, <2>1, <2>2
<1>7. ASSUME NEW l \in worker.todo, SettleLine(l)
      PROVE  TotalsOK'
  <2>1. /\ UNCHANGED <<batch, line>>
        /\ \E row : attempt' = [attempt EXCEPT ![l] = row]
    BY <1>7 DEF SettleLine, SettleInferenceOnce, batchVars
  <2>2. l[1] = b
    BY <1>1
  <2>3. \A m \in Lines : m[1] # b => attempt'[m] = attempt[m]
    BY <2>1, <2>2, LinesAssumption DEF TablesOK
  <2>4. \A m \in Lines : Billable(m)' => line'[m].node \in Nodes
    BY <2>1 DEF TotalsOK, Billable
  <2> QED  BY <1>2, <2>1, <2>3, <2>4
<1>8. ASSUME NEW l \in worker.todo, MarkLine(l) \/ LineShort(l)
      PROVE  TotalsOK'
  <2>1. /\ UNCHANGED batch \/ FailBatch
        /\ UNCHANGED billingVars
        /\ \E s \in {"settled", "failed"} : line' = [line EXCEPT ![l].settlement = s]
    BY <1>8 DEF MarkLine, LineShort
  <2>2. \A m \in Lines :
          \/ m # l /\ line'[m] = line[m]
          \/ m = l /\ \E s \in {"settled", "failed"} : line'[m] = [line[m] EXCEPT !.settlement = s]
    BY <1>1, <2>1
  <2> QED  BY <1>1, <1>3, <2>1, <2>2
<1>9. ASSUME NEW total \in Nat, CompleteWith(total),
             total = CostOf(LinesOf(b)) \/ \A l \in LinesOf(b) : attempt[l].status = "none"
      PROVE  TotalsOK'
  <2>1. /\ batch' = [batch EXCEPT ![b] = [status |-> "completed", total |-> total]]
        /\ UNCHANGED <<line, attempt>>
    BY <1>9 DEF CompleteWith, billingVars, money
  <2>2. \A c \in Batches : CostOf(LinesOf(c))' = CostOf(LinesOf(c)) /\ LinesOf(c)' = LinesOf(c)
    BY <2>1 DEF CostOf, LinesOf
  <2>3. /\ batch' \in [Batches -> [status : Stages, total : Nat]]
        /\ batch'[b].total = total /\ \A c \in Batches \ {b} : batch'[c] = batch[c]
    BY <1>1, <2>1 DEF TotalsOK
  <2>4. \A l \in Lines : Billable(l)' => line'[l].node \in Nodes
    BY <2>1 DEF TotalsOK, Billable
  <2>5. ASSUME NEW c \in Batches, batch'[c].status = "completed"
        PROVE  batch'[c].total = CostOf(LinesOf(c)) \/ \A l \in LinesOf(c) : attempt[l].status = "none"
    <3>1. CASE c = b
      BY <1>9, <2>3, <3>1
    <3>2. CASE c # b
      BY <2>3, <2>5, <3>2 DEF TotalsOK
    <3> QED  BY <3>1, <3>2
  <2> QED  BY <2>1, <2>2, <2>3, <2>4, <2>5 DEF TotalsOK
<1>10. CASE CompleteBatch
  <2>1. CostOf(LinesOf(b)) \in Nat
    BY <1>1, CostNat
  <2> QED  BY <1>9, <1>10, <2>1 DEF CompleteBatch
<1>11. ASSUME NEW total \in Costs, CompleteUnproved(total)
       PROVE  TotalsOK'
  <2>1. CompleteWith(total) /\ total \in Nat /\ worker.phase = "executing"
    BY <1>11, AmountsAssumption DEF CompleteUnproved, Costs
  <2>2. \A l \in LinesOf(b) : attempt[l].status = "none"
    BY <1>1, <2>1, AtWork DEF LineOK, Untouched, On, Off
  <2> QED  BY <1>9, <2>1, <2>2
<1> QED  BY <1>4, <1>5, <1>6, <1>7, <1>8, <1>10, <1>11 DEF WorkerStep

\* Every step of the batches but a settlement leaves billing alone.
LEMMA BatchSteps ==
  ASSUME BatchNext
  PROVE  \/ UNCHANGED billingVars
         \/ worker # NoWork /\ \E l \in worker.todo : SettleLine(l)
BY DEF BatchNext, WorkerStep, CreateBatch, InsertLine, StartBatch, AcceptProofs, ApplyProof,
   Preflight, PreflightRefused, MarkLine, LineShort, CompleteBatch, CompleteUnproved,
   CompleteWith, BatchThrows, WorkerCrash

\* Every step of the worker keeps the account of the money.
LEMMA BatchKeepsMoney ==
  ASSUME LinesOK, TotalsOK, MoneyOK, BatchNext
  PROVE  MoneyOK'
<1>1. CASE UNCHANGED billingVars
  <2>1. UNCHANGED <<balance, consumed, earned, attempt, expired>>
    BY <1>1 DEF billingVars, money
  <2> QED  BY <2>1, NoMoneyMoves DEF MoneyOK, GrantsOK
<1>2. ASSUME worker # NoWork, NEW l \in worker.todo, SettleLine(l)
      PROVE  MoneyOK'
  <2>1. /\ UNCHANGED expired /\ worker.phase = "settling"
        /\ SettleInferenceOnce(l, line[l].node, line[l].cost)
    BY <1>2 DEF SettleLine
  <2>2. /\ l \in Lines /\ l \in Requests /\ LineOK(l) /\ l[1] = worker.batch
        /\ line[l].cost \in Costs
    BY <1>2, AtWork, LinesAssumption DEF LinesOf, LineRow
  <2>3. Billable(l)
    BY <1>2, <2>1, <2>2 DEF LineOK, On
  <2> QED  BY <2>1, <2>2, <2>3, SettleKeepsMoney DEF TotalsOK
<1> QED  BY <1>1, <1>2, BatchSteps
-----------------------------------------------------------------------------
(* The account, together *)

FundsInv == MoneyOK /\ MemoryOK /\ TotalsOK

\* Nothing is settled at the start, and the wallet holds the deposit.
LEMMA FundsInit == ServiceInit => FundsInv
<1> SUFFICES ASSUME ServiceInit PROVE FundsInv
  OBVIOUS
<1> USE DEF ServiceInit, BillingInit, BatchInit
<1>1. Settled = {} /\ \A n \in Nodes : SettledOn(n) = {}
  BY DEF Settled, SettledOn, NoAttempt
<1>2. SumFunction([r \in Settled |-> attempt[r].paid]) = 0
  BY <1>1, SumEmpty DEF SumFunction
<1>3. SumFunction([r \in Settled |-> attempt[r].drained]) = 0
  BY <1>1, SumEmpty DEF SumFunction
<1>4. \A n \in Nodes : SumFunction([r \in SettledOn(n) |-> ProviderShare(attempt[r].cost)]) = 0
  BY <1>1, SumEmpty DEF SumFunction
<1>5. SumFunction(consumed) = 0
  <2>1. DOMAIN consumed = DOMAIN Grants /\ \A g \in DOMAIN Grants : consumed[g] = 0
    OBVIOUS
  <2> QED  BY <2>1, GrantNumbers, SumZero DEF SumFunction
<1>6. ChargesBalance
  BY <1>1, <1>2, <1>3, <1>4, <1>5, AmountsAssumption DEF ChargesBalance
<1>7. GrantsOK
  BY GrantNumbers DEF GrantsOK
<1>8. MoneyOK
  BY <1>1, <1>6, <1>7, FS_EmptySet, AmountsAssumption DEF MoneyOK
<1>9. MemoryOK
  BY AmountsAssumption DEF MemoryOK, Receipt, NoReceipt, Costs
<1>10. TotalsOK
  BY DEF TotalsOK, Stages, Billable, NoLine
<1> QED  BY <1>8, <1>9, <1>10 DEF FundsInv

\* Every step of the two processes keeps the account.
LEMMA FundsStep == ServiceInv /\ FundsInv /\ [ServiceNext]_serviceVars => FundsInv'
<1> SUFFICES ASSUME ServiceInv, FundsInv, [ServiceNext]_serviceVars PROVE FundsInv'
  OBVIOUS
<1> USE DEF ServiceInv, FundsInv
<1>1. CASE BillingNext /\ UNCHANGED batchVars
  <2>1. \A l \in Lines : attempt'[l] = attempt[l]
    BY <1>1, BillingKeeps, LinesAssumption DEF Disposes
  <2> QED  BY <1>1, <2>1, BillingKeepsMoney, TotalsSame DEF batchVars
<1>2. CASE BatchNext
  <2>1. UNCHANGED <<ledger, cache, inflight>>
    BY <1>2, BatchSteps DEF SettleLine, billingVars
  <2>2. TotalsOK'
    BY <1>2, QueueKeepsTotals, WorkKeepsTotals DEF BatchNext
  <2> QED  BY <1>2, <2>1, <2>2, BatchKeepsMoney DEF MemoryOK
<1>3. CASE UNCHANGED serviceVars
  <2>1. /\ UNCHANGED <<balance, consumed, earned, attempt, expired, ledger, cache, inflight>>
        /\ UNCHANGED <<batch, line>>
    BY <1>3 DEF serviceVars, billingVars, batchVars, money
  <2> QED  BY <2>1, NoMoneyMoves, TotalsSame DEF MemoryOK, MoneyOK, GrantsOK
<1> QED  BY <1>1, <1>2, <1>3 DEF ServiceNext

\* The account always balances.
LEMMA FundsAlways == ServiceSpec => [](ServiceInv /\ FundsInv)
<1>1. ServiceInv /\ [ServiceNext]_serviceVars => ServiceInv'
  BY ServiceStep
<1> QED  BY <1>1, ServiceInitInv, FundsInit, FundsStep, PTL DEF ServiceSpec
-----------------------------------------------------------------------------
(* The charge account *)

\* The account as it is seen in the tables
Funds == balance + (SumFunction(Grants) - SumFunction(consumed))
AccountView == <<Funds, [r \in Requests |-> Disposition(r)], earned>>

\* Dispositions that differ
LEMMA DispositionNames ==
  /\ Account!Open = [status |-> "open"] /\ Account!Waived = [status |-> "waived"]
  /\ \A n, p : Account!Charged(n, p) = [status |-> "charged", node |-> n, price |-> p]
BY DEF Account!Open, Account!Waived, Account!Charged

\* The loop of debitSubscriptionCredits adds to what was consumed what it drained.
LEMMA GrantsDrained ==
  ASSUME GrantsOK, NEW cost \in Nat,
         consumed' = [g \in DOMAIN Grants |-> consumed[g] + Take(g, cost)]
  PROVE  SumFunction(consumed') = SumFunction(consumed) + Drained(cost)
<1> DEFINE take == [g \in DOMAIN Grants |-> Take(g, cost)]
<1>1. /\ DOMAIN consumed = DOMAIN Grants /\ DOMAIN consumed' = DOMAIN Grants
      /\ \A g \in DOMAIN Grants : consumed[g] \in Nat /\ take[g] \in Nat
      /\ \A g \in DOMAIN Grants : consumed'[g] = consumed[g] + take[g]
  BY TakeIsWithin DEF GrantsOK
<1>2. Drained(cost) = SumFunctionOnSet(take, DOMAIN Grants)
  BY DEF Drained, SumFunction
<1> HIDE DEF take
<1>3. SumFunctionOnSet(consumed', DOMAIN Grants)
        = SumFunctionOnSet(consumed, DOMAIN Grants) + SumFunctionOnSet(take, DOMAIN Grants)
  BY <1>1, GrantNumbers, SumPlus
<1> QED  BY <1>1, <1>2, <1>3 DEF SumFunction

\* What is drawn from the grants is a part of them.
LEMMA DrawnIsGranted ==
  ASSUME NEW f \in [DOMAIN Grants -> Nat], \A g \in DOMAIN Grants : f[g] <= Grants[g]
  PROVE  /\ SumFunction(f) \in Int /\ SumFunction(Grants) \in Int
         /\ SumFunction(f) <= SumFunction(Grants)
<1>1. /\ DOMAIN f = DOMAIN Grants /\ IsFiniteSet(DOMAIN Grants)
      /\ \A g \in DOMAIN Grants : f[g] \in Int /\ Grants[g] \in Int
  BY GrantNumbers
<1>2. /\ SumFunctionOnSet(f, DOMAIN Grants) \in Int
      /\ SumFunctionOnSet(Grants, DOMAIN Grants) \in Int
      /\ SumFunctionOnSet(f, DOMAIN Grants) <= SumFunctionOnSet(Grants, DOMAIN Grants)
  BY <1>1, SumInt, SumAtMost
<1> QED  BY <1>1, <1>2 DEF SumFunction

\* A settlement is a charge of the account.
LEMMA SettleCharges ==
  ASSUME MoneyOK, NEW r \in Requests, NEW n \in Nodes, NEW cost \in 1 .. MaxCost,
         SettleInferenceOnce(r, n, cost), UNCHANGED expired
  PROVE  Account!Charge(r, n, cost)
<1> DEFINE row == ChargeRow(cost, n)
           view == [q \in Requests |-> Disposition(q)]
<1>1. GrantsOK /\ cost \in Nat /\ cost \in Costs /\ balance \in Nat
  BY AmountsAssumption DEF MoneyOK, Costs
<1>2. /\ attempt[r].status = "none" /\ balance >= Shortfall(cost)
      /\ attempt' = [attempt EXCEPT ![r] = row]
      /\ consumed' = [g \in DOMAIN Grants |-> consumed[g] + Take(g, cost)]
      /\ balance' = balance - Shortfall(cost)
      /\ earned' = [earned EXCEPT ![n] = @ + ProviderShare(cost)]
  BY DEF SettleInferenceOnce, Unclaimed, Affords, ChargeRow
<1>3. Drained(cost) \in Nat /\ Shortfall(cost) \in Nat /\ cost = Shortfall(cost) + Drained(cost)
  BY <1>1, DrainsWhatItCan DEF Shortfall
<1>4. SumFunction(consumed') = SumFunction(consumed) + Drained(cost)
  BY <1>1, <1>2, GrantsDrained
<1>5. GrantsOK'
  BY <1>1, SettleKeepsMoney DEF MoneyOK
<1>6. /\ SumFunction(consumed') <= SumFunction(Grants)
      /\ SumFunction(consumed) \in Int /\ SumFunction(Grants) \in Int
  BY <1>1, <1>5, DrawnIsGranted DEF GrantsOK
<1>7. Funds' = Funds - cost /\ Funds >= cost
  BY <1>1, <1>2, <1>3, <1>4, <1>6 DEF Funds
<1>8. Disposition(r) = Account!Open /\ Disposition(r)' = Account!Charged(n, cost)
  <2>1. attempt'[r] = row
    BY <1>2 DEF MoneyOK
  <2>2. row.status = "settled" /\ row.node = n /\ row.cost = cost
    BY DEF ChargeRow
  <2> HIDE DEF row
  <2> QED  BY <1>2, <2>1, <2>2, DispositionNames DEF Disposition
<1>9. view' = [view EXCEPT ![r] = Account!Charged(n, cost)]
  <2>1. \A q \in Requests \ {r} : Disposition(q)' = Disposition(q)
    BY <1>2 DEF MoneyOK, Disposition
  <2> QED  BY <1>8, <2>1
<1> QED  BY <1>2, <1>7, <1>8, <1>9 DEF Account!Charge, Account!Share, ProviderShare, Funds

\* A step that writes no attempt and moves no money is none of the account.
LEMMA NothingCharged ==
  ASSUME UNCHANGED <<balance, consumed, earned, attempt>>
  PROVE  AccountView' = AccountView
BY DEF AccountView, Funds, Disposition

\* An unbilled or empty answer waives its id, or changes nothing.
LEMMA ClaimWaives ==
  ASSUME MoneyOK, NEW r \in Requests, NEW n, NEW cost, NEW claimed,
         NEW s \in {"insufficient_balance", "no_answer"},
         ClaimUncharged(r, n, s, claimed, cost)
  PROVE  Account!Waive(r) \/ AccountView' = AccountView
<1> DEFINE row == [status |-> s, cost |-> claimed, drained |-> 0, paid |-> 0, node |-> n]
           view == [q \in Requests |-> Disposition(q)]
<1>1. /\ UNCHANGED <<balance, consumed, earned>>
      /\ attempt' = IF attempt[r].status # "none" THEN attempt
                    ELSE [attempt EXCEPT ![r] = row]
  BY DEF ClaimUncharged, Unclaimed
<1>2. CASE attempt[r].status # "none"
  BY <1>1, <1>2, NothingCharged
<1>3. CASE attempt[r].status = "none"
  <2>1. attempt'[r] = row /\ \A q \in Requests \ {r} : attempt'[q] = attempt[q]
    BY <1>1, <1>3 DEF MoneyOK
  <2>2. row.status = s /\ s # "none" /\ s # "settled"
    OBVIOUS
  <2> HIDE DEF row
  <2>3. /\ Disposition(r) = Account!Open /\ Disposition(r)' = Account!Waived
        /\ \A q \in Requests \ {r} : Disposition(q)' = Disposition(q)
    BY <1>3, <2>1, <2>2, DispositionNames DEF Disposition
  <2>4. view' = [view EXCEPT ![r] = Account!Waived]
    BY <2>3
  <2> QED  BY <1>1, <2>3, <2>4 DEF Account!Waive
<1> QED  BY <1>2, <1>3

\* A step of the API process is a step of the account, or none.
LEMMA BillingKeepsAccount ==
  ASSUME CallsOK, MoneyOK, BillingNext
  PROVE  Account!Next \/ AccountView' = AccountView
<1>1. \A c \in Calls : call[c] # NoCall => call[c].key \in Requests /\ call[c].node \in Nodes
  BY KeysAssumption DEF CallsOK, Handler
<1>2. ASSUME NEW r \in Requests, NEW n \in Nodes, NEW cost \in 1 .. MaxCost,
             SettleInferenceOnce(r, n, cost), UNCHANGED expired
      PROVE  Account!Next
  BY <1>2, SettleCharges DEF Account!Next
<1>3. ASSUME NEW c \in Calls, NEW cost \in 1 .. MaxCost, Answer(c, cost)
      PROVE  Account!Next \/ AccountView' = AccountView
  <2>1. CASE Charge(c, cost)
    BY <1>1, <1>2, <1>3, <2>1 DEF Answer, Charge
  <2>2. CASE Replay(c, cost)
    BY <2>2, NothingCharged DEF Replay
  <2>3. CASE Unbilled(c, cost)
    BY <1>1, <1>3, <2>3, ClaimWaives DEF Answer, Unbilled, Account!Next
  <2> QED  BY <1>3, <2>1, <2>2, <2>3 DEF Answer
<1>4. ASSUME NEW c \in Calls, AnswerNothing(c)
      PROVE  Account!Next \/ AccountView' = AccountView
  BY <1>1, <1>4, ClaimWaives DEF AnswerNothing, Account!Next
<1>5. ASSUME NEW c \in Calls, NEW cost \in 1 .. MaxCost, SettleThenCrash(c, cost)
      PROVE  Account!Next
  BY <1>1, <1>2, <1>5 DEF SettleThenCrash
<1>6. ASSUME NEW c \in Calls, HandlerStep(c)
      PROVE  Account!Next \/ AccountView' = AccountView
  <2>1. CASE Fail(c) \/ \E n \in Nodes : FailOver(c, n)
    BY <2>1, NothingCharged DEF Fail, FailOver, money
  <2> QED  BY <1>3, <1>4, <1>6, <2>1 DEF HandlerStep
<1>7. ASSUME NEW c \in Calls, NEW k \in Keys, NEW n \in Nodes, NEW est \in 1 .. MaxCost,
             \/ \E others \in SUBSET Nodes, stream \in BOOLEAN : Admit(c, k, n, others, stream, est)
             \/ Enqueue(c, k, n, est)
      PROVE  AccountView' = AccountView
  BY <1>7, NothingCharged DEF Admit, Enqueue, money
<1>8. CASE ExpireGrant \/ Crash \/ \E k \in Keys : Forget(k)
  BY <1>8, NothingCharged DEF ExpireGrant, Crash, Forget, money
<1> QED  BY <1>5, <1>6, <1>7, <1>8 DEF BillingNext

\* A step of the worker is a charge of the account when it settles a line.
LEMMA BatchKeepsAccount ==
  ASSUME LinesOK, TotalsOK, MoneyOK, BatchNext
  PROVE  Account!Next \/ AccountView' = AccountView
<1>1. ASSUME worker # NoWork, NEW l \in worker.todo, SettleLine(l)
      PROVE  Account!Next
  <2>1. /\ UNCHANGED expired /\ worker.phase = "settling"
        /\ SettleInferenceOnce(l, line[l].node, line[l].cost)
    BY <1>1 DEF SettleLine
  <2>2. /\ l \in Lines /\ l \in Requests /\ LineOK(l) /\ l[1] = worker.batch
        /\ line[l].cost \in Costs
    BY <1>1, AtWork, LinesAssumption DEF LinesOf, LineRow
  <2>3. Billable(l)
    BY <1>1, <2>1, <2>2 DEF LineOK, On
  <2>4. line[l].node \in Nodes /\ line[l].cost \in 1 .. MaxCost
    BY <2>2, <2>3, AmountsAssumption DEF TotalsOK, Billable, Costs
  <2> QED  BY <2>1, <2>2, <2>4, SettleCharges DEF Account!Next
<1>2. UNCHANGED billingVars => AccountView' = AccountView
  BY NothingCharged DEF billingVars, money
<1> QED  BY <1>1, <1>2, BatchSteps

\* Nothing is disposed of at the start, and the funds are the deposit and the grants.
LEMMA AccountInit == ServiceInit => Account!Init
<1> SUFFICES ASSUME ServiceInit PROVE Account!Init
  OBVIOUS
<1>1. balance = Deposit /\ SumFunction(consumed) = 0 /\ GrantsOK
  <2>1. MoneyOK /\ balance = Deposit
    BY FundsInit DEF FundsInv, ServiceInit, BillingInit
  <2>2. DOMAIN consumed = DOMAIN Grants /\ \A g \in DOMAIN Grants : consumed[g] = 0
    BY DEF ServiceInit, BillingInit
  <2> QED  BY <2>1, <2>2, GrantNumbers, SumZero DEF SumFunction, MoneyOK
<1>2. SumFunction(Grants) \in Int
  BY <1>1, DrawnIsGranted DEF GrantsOK
<1>3. \A r \in Requests : Disposition(r) = Account!Open
  BY DispositionNames DEF ServiceInit, BillingInit, NoAttempt, Disposition
<1>4. earned = [n \in Nodes |-> 0]
  BY DEF ServiceInit, BillingInit
<1> QED  BY <1>1, <1>2, <1>3, <1>4, AmountsAssumption DEF Account!Init
-----------------------------------------------------------------------------
(* Theorems *)

\* settleInferenceOnce: whatever is retried, replayed, crashed or run in a batch, a
\* request id is disposed of once.
THEOREM RequestsEndOnce == ServiceSpec => AttemptIsFinal
<1>1. ServiceInv /\ [ServiceNext]_serviceVars =>
        [\A r \in Requests :
           attempt[r].status # "none" => attempt'[r] = attempt[r]]_billingVars
  BY ServiceStep DEF Disposes
<1> QED  BY <1>1, ServiceAlways, PTL DEF ServiceSpec, AttemptIsFinal

\* A usage event that says `settled` names a charge of its amount.
THEOREM ReceiptsAlwaysBacked == ServiceSpec => []ReceiptsAreBacked
<1>1. ServiceInv => ReceiptsAreBacked
  BY DEF ServiceInv, Backed
<1> QED  BY <1>1, ServiceAlways, PTL

\* _inflightByProvider counts the requests in flight, for any number of providers a
\* request fails over to.
THEOREM SlotsAlwaysHeld == ServiceSpec => []SlotsAreHeld
<1>1. ServiceInv => SlotsAreHeld
  BY DEF ServiceInv, SlotsOK
<1> QED  BY <1>1, ServiceAlways, PTL

\* A line the worker marked settled was charged its cost.
THEOREM SettledLinesAlwaysCharged == ServiceSpec => []SettledLinesAreCharged
<1>1. ServiceInv => SettledLinesAreCharged
  BY DEF ServiceInv, LinesOK, LineOK, SettledLinesAreCharged
<1> QED  BY <1>1, ServiceAlways, PTL

\* The tables, the memory of the process and the worker keep their types.
THEOREM ServiceTypes == ServiceSpec => []ServiceTypeOK
<1>1. ServiceInv /\ FundsInv => ServiceTypeOK
  <2> SUFFICES ASSUME ServiceInv, FundsInv PROVE ServiceTypeOK
    OBVIOUS
  <2>1. inflight \in [Nodes -> 0 .. MaxInflight]
    BY AmountsAssumption DEF ServiceInv, SlotsOK, FundsInv, MemoryOK
  <2>2. BillingTypeOK
    BY <2>1 DEF ServiceInv, CallsOK, TablesOK, FundsInv, MoneyOK, GrantsOK, MemoryOK, BillingTypeOK
  <2>3. BatchTypeOK
    BY DEF ServiceInv, LinesOK, WorkOK, Work, FundsInv, TotalsOK, BatchTypeOK, Stages
  <2> QED  BY <2>2, <2>3 DEF ServiceTypeOK
<1> QED  BY <1>1, FundsAlways, PTL

\* Whatever answers arrive between a gate and its settlement, neither the wallet nor a
\* grant is drawn below zero.
THEOREM FundsNeverOverdrawn == ServiceSpec => []NeverOverdrawn
<1>1. FundsInv => NeverOverdrawn
  BY DEF FundsInv, MoneyOK, GrantsOK, NeverOverdrawn
<1> QED  BY <1>1, FundsAlways, PTL

\* settleInferenceOnce: the wallet, the grants and the providers' earnings are the sums of
\* what the settled attempts say, for any number of requests, grants and providers.
THEOREM ChargesAlwaysBalance == ServiceSpec => []ChargesBalance
<1>1. FundsInv => ChargesBalance
  BY DEF FundsInv, MoneyOK
<1> QED  BY <1>1, FundsAlways, PTL

\* A completed batch was settled whole or not at all, and what it charged is within the
\* total it reports, whether the worker runs with settlement on or off.
THEOREM CompletedBatchesWhole == ServiceSpec => []CompletedBatchSettledWhole
<1>1. ServiceInv /\ FundsInv => CompletedBatchSettledWhole
  <2> SUFFICES ASSUME ServiceInv, FundsInv, NEW b \in Batches, batch[b].status = "completed"
               PROVE  LET charged == {l \in LinesOf(b) : attempt[l].status = "settled"}
                      IN  /\ \/ /\ charged = {l \in LinesOf(b) : Billable(l)}
                                /\ \A l \in charged : line[l].settlement = "settled"
                             \/ \A l \in LinesOf(b) :
                                  line[l].settlement = "unsettled" /\ attempt[l].status = "none"
                          /\ batch[b].total >= SumFunction([l \in charged |-> attempt[l].cost])
    BY DEF CompletedBatchSettledWhole
  <2> DEFINE charged == {l \in LinesOf(b) : attempt[l].status = "settled"}
             cost == [l \in LinesOf(b) |-> line[l].cost]
  <2>1. \A l \in LinesOf(b) : LineOK(l) /\ l[1] = b /\ l \in Lines
    BY DEF LinesOf, ServiceInv, LinesOK
  <2>2. \/ /\ charged = {l \in LinesOf(b) : Billable(l)}
           /\ \A l \in charged : line[l].settlement = "settled"
        \/ \A l \in LinesOf(b) : line[l].settlement = "unsettled" /\ attempt[l].status = "none"
    BY DEF ServiceInv, LinesOK, BatchWhole, Whole, Off
  <2>3. \A l \in charged : attempt[l].cost = cost[l]
    BY <2>1 DEF LineOK
  <2>4. IsFiniteSet(LinesOf(b)) /\ \A l \in LinesOf(b) : cost[l] \in Nat
    BY <2>1, LinesFinite, AmountsAssumption DEF ServiceInv, LinesOK, WorkOK, LineRow, Costs
  <2>5. batch[b].total \in Nat /\ (batch[b].total = SumFunctionOnSet(cost, LinesOf(b)) \/ charged = {})
    BY DEF FundsInv, TotalsOK, CostOf, SumFunction
  <2>6. charged \in SUBSET LinesOf(b) /\ IsFiniteSet(charged)
    BY <2>4, FS_Subset
  <2>7. SumFunction([l \in charged |-> attempt[l].cost]) = SumFunctionOnSet(cost, charged)
    <3> DEFINE f == [l \in charged |-> attempt[l].cost]
    <3>1. \A l \in charged : f[l] = cost[l]
      BY <2>3
    <3>2. SumFunction(f) = SumFunctionOnSet(f, charged)
      BY DEF SumFunction
    <3> HIDE DEF f, charged, cost
    <3> QED  BY <2>6, <3>1, <3>2, SumSame DEF f
  <2>8. batch[b].total >= SumFunctionOnSet(cost, charged)
    <3> HIDE DEF charged, cost
    <3>1. SumFunctionOnSet(cost, charged) <= SumFunctionOnSet(cost, LinesOf(b))
      BY <2>4, <2>6, SumPart
    <3>2. SumFunctionOnSet(cost, charged) \in Int /\ SumFunctionOnSet(cost, LinesOf(b)) \in Int
      BY <2>4, <2>6, SumInt
    <3>3. charged = {} => SumFunctionOnSet(cost, charged) = 0
      BY SumEmpty
    <3> QED  BY <2>5, <3>1, <3>2, <3>3
  <2> QED  BY <2>2, <2>7, <2>8
<1> QED  BY <1>1, FundsAlways, PTL

\* Interactive requests and batches implement the charge account: every step charges
\* one id within the funds, waives one, or is invisible to the account.
THEOREM ServicesKeepAccount == ServiceSpec => KeepsAccount
<1>1. ServiceInv /\ FundsInv /\ [ServiceNext]_serviceVars =>
        [Account!Next]_<<balance + (SumFunction(Grants) - SumFunction(consumed)),
                         [r \in Requests |-> Disposition(r)], earned>>
  <2> SUFFICES ASSUME ServiceInv, FundsInv, [ServiceNext]_serviceVars
               PROVE  Account!Next \/ AccountView' = AccountView
    BY DEF AccountView, Funds
  <2> USE DEF ServiceInv, FundsInv
  <2>1. CASE UNCHANGED serviceVars
    BY <2>1, NothingCharged DEF serviceVars, billingVars, money
  <2> QED  BY <2>1, BillingKeepsAccount, BatchKeepsAccount DEF ServiceNext
<1> QED  BY <1>1, AccountInit, FundsAlways, PTL DEF ServiceSpec, KeepsAccount, Account!Spec,
            Account!account
=============================================================================
