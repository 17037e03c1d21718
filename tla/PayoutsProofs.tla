------------------------------ MODULE PayoutsProofs ----------------------------
(***************************************************************************)
(* Theorems about Payouts, for any number of requests, transfers and       *)
(* withdrawals: types, a request that has ended stays ended, earnings are  *)
(* conserved, and a request is disbursed once unless an answer was lost.   *)
(***************************************************************************)
EXTENDS Payouts, SequenceTheorems, FiniteSetTheorems, TLAPS

PayoutStatus == {"pending", "processing", "paid", "rejected"}
TransferStatus == {"asked", "refused", "queued", "paid", "failed"}
WithdrawalStatus == {"pending", "processing", "paid", "failed"}
PayoutRow == [status : PayoutStatus, origin : {"provider", "chain"}, transfer : Nat]
TransferRow == [of : Nat, status : TransferStatus]

\* The rows, as sequences
Sequenced ==
  /\ payouts \in Seq(PayoutRow)
  /\ withdrawals \in Seq(WithdrawalStatus)
  /\ transfers \in Seq(TransferRow)

-----------------------------------------------------------------------------
(* The four ways a step writes payouts *)

\* A status change touches the status of one row.
LEMMA SetStatusWrites ==
  ASSUME Sequenced, NEW r \in Requests, NEW s \in PayoutStatus, SetStatus(r, s)
  PROVE  /\ payouts' \in Seq(PayoutRow)
         /\ Requests' = Requests
         /\ payouts'[r] = [payouts[r] EXCEPT !.status = s]
         /\ payouts'[r].status = s
         /\ payouts'[r].origin = payouts[r].origin
         /\ payouts'[r].transfer = payouts[r].transfer
         /\ \A q \in Requests \ {r} : payouts'[q] = payouts[q]
<1> DEFINE row == [payouts[r] EXCEPT !.status = s]
<1>1. Requests = 1 .. Len(payouts) /\ payouts[r] \in PayoutRow
  BY LenProperties, ElementOfSeq DEF Sequenced, Requests
<1>2. /\ row \in PayoutRow /\ row.status = s
      /\ row.origin = payouts[r].origin /\ row.transfer = payouts[r].transfer
  BY <1>1 DEF PayoutRow
<1>3. payouts' = [payouts EXCEPT ![r] = row]
  BY DEF SetStatus
<1> HIDE DEF row
<1>4. /\ payouts' \in Seq(PayoutRow) /\ Len(payouts') = Len(payouts)
      /\ \A q \in 1 .. Len(payouts) : payouts'[q] = IF q = r THEN row ELSE payouts[q]
  BY <1>1, <1>2, <1>3, ExceptSeq DEF Sequenced
<1>5. Requests' = Requests
  BY <1>1, <1>4, LenProperties DEF Requests
<1> QED  BY <1>1, <1>2, <1>4, <1>5 DEF row

\* A new request is one more row.
LEMMA NewPayoutWrites ==
  ASSUME Sequenced, NEW o \in {"provider", "chain"}, payouts' = NewPayout(o)
  PROVE  /\ payouts' \in Seq(PayoutRow)
         /\ Len(payouts) + 1 \in Nat
         /\ Len(payouts) + 1 \notin Requests
         /\ Requests' = Requests \cup {Len(payouts) + 1}
         /\ payouts'[Len(payouts) + 1] =
              [status |-> "pending", origin |-> o, transfer |-> NoTransfer]
         /\ \A q \in Requests : payouts'[q] = payouts[q]
<1> DEFINE row == [status |-> "pending", origin |-> o, transfer |-> NoTransfer]
<1>1. row \in PayoutRow
  BY DEF PayoutRow, PayoutStatus, NoTransfer
<1>2. payouts' = Append(payouts, row)
  BY DEF NewPayout
<1>3. Len(payouts) \in Nat /\ Requests = 1 .. Len(payouts)
  BY LenProperties DEF Sequenced, Requests
<1> HIDE DEF row
<1>4. /\ payouts' \in Seq(PayoutRow) /\ Len(payouts') = Len(payouts) + 1
      /\ \A q \in 1 .. Len(payouts) : payouts'[q] = payouts[q]
      /\ payouts'[Len(payouts) + 1] = row
  BY <1>1, <1>2, AppendProperties DEF Sequenced
<1>5. Requests' = 1 .. Len(payouts) + 1
  BY <1>4, LenProperties DEF Requests
<1> QED  BY <1>3, <1>4, <1>5 DEF row

Stores(r, t) == payouts' = [payouts EXCEPT ![r].transfer = t]

\* Moyasar's answer stores the transfer.
LEMMA TransferWrites ==
  ASSUME Sequenced, NEW r \in Requests, NEW t \in Nat,
         Stores(r, t)
  PROVE  /\ payouts' \in Seq(PayoutRow)
         /\ Requests' = Requests
         /\ payouts'[r].transfer = t
         /\ \A q \in Requests : /\ payouts'[q].status = payouts[q].status
                                /\ payouts'[q].origin = payouts[q].origin
         /\ \A q \in Requests \ {r} : payouts'[q] = payouts[q]
<1> DEFINE row == [payouts[r] EXCEPT !.transfer = t]
<1>1. Requests = 1 .. Len(payouts) /\ payouts[r] \in PayoutRow
  BY LenProperties, ElementOfSeq DEF Sequenced, Requests
<1>2. /\ row \in PayoutRow /\ row.transfer = t
      /\ row.origin = payouts[r].origin /\ row.status = payouts[r].status
  BY <1>1 DEF PayoutRow
<1>3. payouts' = [payouts EXCEPT ![r] = row]
  BY DEF Stores
<1> HIDE DEF row
<1>4. /\ payouts' \in Seq(PayoutRow) /\ Len(payouts') = Len(payouts)
      /\ \A q \in 1 .. Len(payouts) : payouts'[q] = IF q = r THEN row ELSE payouts[q]
  BY <1>1, <1>2, <1>3, ExceptSeq DEF Sequenced
<1>5. Requests' = Requests
  BY <1>1, <1>4, LenProperties DEF Requests
<1>6. payouts'[r] = row /\ \A q \in Requests \ {r} : payouts'[q] = payouts[q]
  BY <1>1, <1>4
<1> QED  BY <1>2, <1>4, <1>5, <1>6

\* A request to Moyasar is one more transfer.
LEMMA NewTransferWrites ==
  ASSUME Sequenced, NEW r \in Nat,
         transfers' = Append(transfers, [of |-> r, status |-> "asked"])
  PROVE  /\ transfers' \in Seq(TransferRow)
         /\ Len(transfers) + 1 \in Nat
         /\ Len(transfers) + 1 \notin DOMAIN transfers
         /\ DOMAIN transfers' = DOMAIN transfers \cup {Len(transfers) + 1}
         /\ transfers'[Len(transfers) + 1] = [of |-> r, status |-> "asked"]
         /\ \A t \in DOMAIN transfers : transfers'[t] = transfers[t]
<1> DEFINE row == [of |-> r, status |-> "asked"]
<1>1. row \in TransferRow
  BY DEF TransferRow, TransferStatus
<1>2. transfers' = Append(transfers, row)
  OBVIOUS
<1>3. Len(transfers) \in Nat /\ DOMAIN transfers = 1 .. Len(transfers)
  BY LenProperties DEF Sequenced
<1> HIDE DEF row
<1>4. /\ transfers' \in Seq(TransferRow) /\ Len(transfers') = Len(transfers) + 1
      /\ \A q \in 1 .. Len(transfers) : transfers'[q] = transfers[q]
      /\ transfers'[Len(transfers) + 1] = row
  BY <1>1, <1>2, AppendProperties DEF Sequenced
<1>5. DOMAIN transfers' = 1 .. Len(transfers) + 1
  BY <1>4, LenProperties
<1> QED  BY <1>3, <1>4, <1>5 DEF row

Becomes(t, s) == transfers' = [transfers EXCEPT ![t].status = s]

\* Moyasar changes the status of one transfer.
LEMMA TransferStatusWrites ==
  ASSUME Sequenced, NEW t \in DOMAIN transfers, NEW s \in TransferStatus,
         Becomes(t, s)
  PROVE  /\ transfers' \in Seq(TransferRow)
         /\ DOMAIN transfers' = DOMAIN transfers
         /\ transfers'[t].status = s
         /\ \A u \in DOMAIN transfers : transfers'[u].of = transfers[u].of
         /\ \A u \in DOMAIN transfers \ {t} : transfers'[u] = transfers[u]
<1> DEFINE row == [transfers[t] EXCEPT !.status = s]
<1>1. DOMAIN transfers = 1 .. Len(transfers) /\ transfers[t] \in TransferRow
  BY LenProperties, ElementOfSeq DEF Sequenced
<1>2. row \in TransferRow /\ row.status = s /\ row.of = transfers[t].of
  BY <1>1 DEF TransferRow
<1>3. transfers' = [transfers EXCEPT ![t] = row]
  BY DEF Becomes
<1> HIDE DEF row
<1>4. /\ transfers' \in Seq(TransferRow) /\ Len(transfers') = Len(transfers)
      /\ \A u \in 1 .. Len(transfers) : transfers'[u] = IF u = t THEN row ELSE transfers[u]
  BY <1>1, <1>2, <1>3, ExceptSeq DEF Sequenced
<1>5. DOMAIN transfers' = DOMAIN transfers
  BY <1>1, <1>4, LenProperties
<1>6. transfers'[t] = row /\ \A u \in DOMAIN transfers \ {t} : transfers'[u] = transfers[u]
  BY <1>1, <1>4
<1> QED  BY <1>2, <1>4, <1>5, <1>6
-----------------------------------------------------------------------------
(* Types *)

\* The rows of each table are finitely many, numbered from 1.
LEMMA RequestsFinite ==
  ASSUME Sequenced
  PROVE  /\ Requests \subseteq Nat /\ IsFiniteSet(Requests)
         /\ DOMAIN transfers \subseteq Nat /\ IsFiniteSet(DOMAIN transfers)
         /\ DOMAIN withdrawals \subseteq Nat /\ IsFiniteSet(DOMAIN withdrawals)
         /\ 0 \notin DOMAIN transfers
<1>1. /\ Requests = 1 .. Len(payouts) /\ Len(payouts) \in Nat
      /\ DOMAIN transfers = 1 .. Len(transfers) /\ Len(transfers) \in Nat
      /\ DOMAIN withdrawals = 1 .. Len(withdrawals) /\ Len(withdrawals) \in Nat
  BY LenProperties DEF Sequenced, Requests
<1>2. \A n \in Nat : 1 .. n \subseteq Nat /\ 0 \notin 1 .. n
  OBVIOUS
<1>3. \A n \in Nat : IsFiniteSet(1 .. n)
  BY FS_Interval
<1> QED  BY <1>1, <1>2, <1>3

\* The part of the invariant that speaks of transfers and memory
References ==
  /\ \A r \in Requests : payouts[r].transfer \in DOMAIN transfers \cup {NoTransfer}
  /\ \A t \in DOMAIN transfers : transfers[t].of \in Requests
  /\ waiting \subseteq DOMAIN transfers
  /\ syncing \subseteq Requests \X Callers
  /\ doubted \subseteq Requests

Typed == Sequenced /\ References /\ claimable \in Nat /\ earned \in 0 .. MaxEarned

\* The strengthened typing implies the type invariant the runs check.
LEMMA TypedIsTypeOK == Typed => PayoutTypeOK
<1> SUFFICES ASSUME Typed PROVE PayoutTypeOK
  OBVIOUS
<1>1. \A r \in Requests : payouts[r] \in PayoutRow
  BY LenProperties, ElementOfSeq DEF Typed, Sequenced, Requests
<1>2. \A t \in DOMAIN transfers : transfers[t] \in TransferRow
  BY LenProperties, ElementOfSeq DEF Typed, Sequenced
<1>3. \A w \in DOMAIN withdrawals : withdrawals[w] \in WithdrawalStatus
  BY LenProperties, ElementOfSeq DEF Typed, Sequenced
<1> QED
  BY <1>1, <1>2, <1>3 DEF Typed, References, PayoutTypeOK, PayoutRow, TransferRow, PayoutStatus,
     TransferStatus, WithdrawalStatus

\* The empty tables are typed.
LEMMA InitTyped == PayoutInit => Typed
<1> SUFFICES ASSUME PayoutInit PROVE Typed
  OBVIOUS
<1>1. Sequenced
  BY EmptySeq DEF PayoutInit, Sequenced
<1>2. DOMAIN << >> = {}
  OBVIOUS
<1> QED  BY <1>1, <1>2, PayoutAssumption DEF PayoutInit, Typed, References, Requests

\* A status change keeps the types if the wallet stays one.
LEMMA SetStatusTyped ==
  ASSUME Typed, NEW r \in Requests, NEW s \in PayoutStatus, SetStatus(r, s),
         claimable' \in Nat, UNCHANGED <<earned, withdrawals>>,
         \/ UNCHANGED transfers
         \/ transfers' = Append(transfers, [of |-> r, status |-> "asked"]),
         waiting' \subseteq DOMAIN transfers', syncing' \subseteq syncing,
         doubted' \subseteq Requests
  PROVE  Typed'
<1>1. /\ payouts' \in Seq(PayoutRow) /\ Requests' = Requests
      /\ \A q \in Requests : payouts'[q].transfer = payouts[q].transfer
  BY SetStatusWrites DEF Typed
<1>2. /\ transfers' \in Seq(TransferRow)
      /\ DOMAIN transfers \subseteq DOMAIN transfers'
      /\ \A t \in DOMAIN transfers' : transfers'[t].of \in Requests
  <2>1. CASE UNCHANGED transfers
    BY <2>1 DEF Typed, Sequenced, References
  <2>2. CASE transfers' = Append(transfers, [of |-> r, status |-> "asked"])
    <3>1. r \in Nat
      BY RequestsFinite DEF Typed
    <3>2. /\ transfers' \in Seq(TransferRow)
          /\ DOMAIN transfers' = DOMAIN transfers \cup {Len(transfers) + 1}
          /\ transfers'[Len(transfers) + 1] = [of |-> r, status |-> "asked"]
          /\ \A t \in DOMAIN transfers : transfers'[t] = transfers[t]
      BY <2>2, <3>1, NewTransferWrites DEF Typed
    <3> QED  BY <3>2 DEF Typed, References
  <2> QED  BY <2>1, <2>2
<1> QED  BY <1>1, <1>2 DEF Typed, References, Sequenced

\* A payout request that a provider or the escrow listener opens is typed.
LEMMA NewPayoutTyped ==
  ASSUME Typed, NEW o \in {"provider", "chain"}, payouts' = NewPayout(o), claimable' \in Nat,
         UNCHANGED <<earned, withdrawals, transfers, waiting, syncing, doubted>>
  PROVE  Typed'
<1>1. /\ payouts' \in Seq(PayoutRow)
      /\ Requests' = Requests \cup {Len(payouts) + 1}
      /\ payouts'[Len(payouts) + 1].transfer = NoTransfer
      /\ \A q \in Requests : payouts'[q] = payouts[q]
  BY NewPayoutWrites DEF Typed
<1> QED  BY <1>1 DEF Typed, References, Sequenced

\* What is held is a number, so a request never takes more than there is.
LEMMA HeldIsNat == ASSUME Sequenced PROVE Held \in Nat
<1>1. IsFiniteSet({r \in Requests : Open(r)})
  BY RequestsFinite, FS_Subset
<1> QED  BY <1>1, FS_CardinalityType DEF Held

\* A write to one withdrawal keeps their types.
LEMMA WithdrawalsTyped ==
  ASSUME Typed, withdrawals' \in Seq(WithdrawalStatus), claimable' \in Nat,
         UNCHANGED <<earned, payouts, transfers, waiting, syncing, doubted>>
  PROVE  Typed'
BY DEF Typed, References, Sequenced, Requests

\* The admin route writes one withdrawal to a status of the table.
LEMMA UpdateWithdrawalWrites ==
  ASSUME Sequenced, NEW w \in DOMAIN withdrawals, NEW s \in WithdrawalStatus,
         withdrawals' = [withdrawals EXCEPT ![w] = s]
  PROVE  /\ withdrawals' \in Seq(WithdrawalStatus)
         /\ DOMAIN withdrawals' = DOMAIN withdrawals
         /\ \A v \in DOMAIN withdrawals : withdrawals'[v] = IF v = w THEN s ELSE withdrawals[v]
<1>1. DOMAIN withdrawals = 1 .. Len(withdrawals)
  BY LenProperties DEF Sequenced
<1>2. /\ withdrawals' \in Seq(WithdrawalStatus) /\ Len(withdrawals') = Len(withdrawals)
      /\ \A v \in 1 .. Len(withdrawals) : withdrawals'[v] = IF v = w THEN s ELSE withdrawals[v]
  BY <1>1, ExceptSeq DEF Sequenced
<1>3. DOMAIN withdrawals' = DOMAIN withdrawals
  BY <1>1, <1>2, LenProperties
<1> QED  BY <1>1, <1>2, <1>3

\* A new withdrawal starts as pending.
LEMMA RequestWithdrawalWrites ==
  ASSUME Sequenced, withdrawals' = Append(withdrawals, "pending")
  PROVE  /\ withdrawals' \in Seq(WithdrawalStatus)
         /\ DOMAIN withdrawals' = DOMAIN withdrawals \cup {Len(withdrawals) + 1}
         /\ withdrawals'[Len(withdrawals) + 1] = "pending"
         /\ \A v \in DOMAIN withdrawals : withdrawals'[v] = withdrawals[v]
<1>1. DOMAIN withdrawals = 1 .. Len(withdrawals) /\ Len(withdrawals) \in Nat
  BY LenProperties DEF Sequenced
<1>2. "pending" \in WithdrawalStatus
  BY DEF WithdrawalStatus
<1>3. /\ withdrawals' \in Seq(WithdrawalStatus) /\ Len(withdrawals') = Len(withdrawals) + 1
      /\ \A v \in 1 .. Len(withdrawals) : withdrawals'[v] = withdrawals[v]
      /\ withdrawals'[Len(withdrawals) + 1] = "pending"
  BY <1>2, AppendProperties DEF Sequenced
<1>4. DOMAIN withdrawals' = 1 .. Len(withdrawals) + 1
  BY <1>3, LenProperties
<1> QED  BY <1>1, <1>3, <1>4
-----------------------------------------------------------------------------
\* Every handler, answer, webhook and sweep keeps the types.
LEMMA TypedStep == Typed /\ [PayoutNext]_payoutVars => Typed'
<1> SUFFICES ASSUME Typed, [PayoutNext]_payoutVars PROVE Typed'
  OBVIOUS
<1>0. /\ Sequenced /\ References /\ claimable \in Nat /\ claimable + 1 \in Nat
      /\ {"pending", "processing", "paid", "rejected"} = PayoutStatus
  BY DEF Typed, PayoutStatus
<1>1. CASE UNCHANGED payoutVars
  BY <1>1 DEF Typed, References, Sequenced, Requests, payoutVars
<1>2. CASE Earn
  BY <1>2, <1>0, PayoutAssumption DEF Typed, References, Sequenced, Requests, Earn
<1>3. CASE RequestPayout
  <2>1. claimable' \in Nat
    BY <1>3, <1>0, HeldIsNat DEF RequestPayout
  <2> QED  BY <1>3, <2>1, NewPayoutTyped DEF RequestPayout
<1>4. CASE ReleasedOnChain
  BY <1>4, <1>0, NewPayoutTyped DEF ReleasedOnChain
<1>5. CASE ClaimedOnChain
  BY <1>5, <1>0, SetStatusTyped DEF ClaimedOnChain, References
<1>6. ASSUME NEW r \in Requests, ApproveManually(r) \/ MarkPayoutPaid(r) \/ RejectPayout(r)
      PROVE  Typed'
  BY <1>6, <1>0, SetStatusTyped DEF ApproveManually, MarkPayoutPaid, RejectPayout, References
<1>7. ASSUME NEW r \in Requests, ApproveViaMoyasar(r) PROVE Typed'
  <2>1. /\ SetStatus(r, "processing") /\ UNCHANGED <<claimable, earned, withdrawals, syncing, doubted>>
        /\ transfers' = Append(transfers, [of |-> r, status |-> "asked"])
        /\ waiting' = waiting \cup {Len(transfers) + 1}
    BY <1>7 DEF ApproveViaMoyasar, Claim
  <2>2. r \in Nat
    BY RequestsFinite DEF Typed
  <2>3. waiting' \subseteq DOMAIN transfers'
    BY <1>0, <2>1, <2>2, NewTransferWrites DEF References
  <2> QED  BY <1>0, <2>1, <2>3, SetStatusTyped DEF References
<1>8. ASSUME NEW t \in DOMAIN transfers, ApproveAnswered(t) PROVE Typed'
  <2>1. transfers[t].of \in Requests /\ t \in Nat
    BY <1>0, RequestsFinite DEF References
  <2>2. Stores(transfers[t].of, t)
    BY <1>8 DEF ApproveAnswered, Stores
  <2>3. /\ payouts' \in Seq(PayoutRow) /\ Requests' = Requests
        /\ payouts'[transfers[t].of].transfer = t
        /\ \A q \in Requests \ {transfers[t].of} : payouts'[q] = payouts[q]
    BY <1>0, <2>1, <2>2, TransferWrites
  <2> QED  BY <1>8, <2>3 DEF ApproveAnswered, Typed, References, Sequenced
<1>9. ASSUME NEW t \in DOMAIN transfers, ApproveFails(t) PROVE Typed'
  <2>1. transfers[t].of \in Requests
    BY <1>0 DEF References
  <2>2. /\ UNCHANGED <<claimable, earned, withdrawals, transfers, syncing>>
        /\ waiting' \subseteq DOMAIN transfers' /\ doubted' \subseteq Requests
    BY <1>9, <1>0, <2>1 DEF ApproveFails, References
  <2>3. CASE SetStatus(transfers[t].of, "pending")
    BY <1>0, <2>1, <2>2, <2>3, SetStatusTyped
  <2>4. CASE UNCHANGED payouts
    BY <2>2, <2>4 DEF Typed, References, Sequenced, Requests
  <2> QED  BY <1>9, <2>3, <2>4 DEF ApproveFails
<1>10. ASSUME NEW t \in DOMAIN transfers, NEW s \in TransferStatus, GatewayAnswers(t, s)
       PROVE  Typed'
  <2>1. Becomes(t, s) /\ UNCHANGED <<claimable, earned, payouts, withdrawals, waiting, syncing, doubted>>
    BY <1>10 DEF GatewayAnswers, Becomes
  <2>2. /\ transfers' \in Seq(TransferRow) /\ DOMAIN transfers' = DOMAIN transfers
        /\ \A u \in DOMAIN transfers : transfers'[u].of = transfers[u].of
    BY <1>0, <2>1, TransferStatusWrites
  <2> QED  BY <2>1, <2>2 DEF Typed, References, Sequenced, Requests
<1>11. ASSUME NEW r \in Requests, NEW caller \in Callers, SyncStart(r, caller) PROVE Typed'
  BY <1>11 DEF SyncStart, Typed, References, Sequenced, Requests
<1>12. ASSUME NEW r \in Requests, NEW caller \in Callers, SyncAnswered(r, caller) PROVE Typed'
  <2>1. /\ UNCHANGED <<earned, withdrawals, transfers, waiting, doubted>>
        /\ syncing' \subseteq syncing
    BY <1>12 DEF SyncAnswered
  <2>2. CASE UNCHANGED <<payouts, claimable>>
    BY <2>1, <2>2 DEF Typed, References, Sequenced, Requests
  <2>3. CASE SetStatus(r, "paid") /\ UNCHANGED claimable
    BY <1>0, <2>1, <2>3, SetStatusTyped DEF References
  <2>4. CASE SetStatus(r, "rejected") /\ claimable' = claimable + 1
    BY <1>0, <2>1, <2>4, SetStatusTyped DEF References
  <2> QED  BY <1>12, <2>2, <2>3, <2>4 DEF SyncAnswered
<1>13. CASE RestartPayouts
  BY <1>13 DEF RestartPayouts, Typed, References, Sequenced, Requests
<1>14. CASE RequestWithdrawal
  BY <1>14, <1>0, RequestWithdrawalWrites, WithdrawalsTyped DEF RequestWithdrawal
<1>15. ASSUME NEW w \in DOMAIN withdrawals, NEW s \in WithdrawalStatus, UpdateWithdrawal(w, s)
       PROVE  Typed'
  <2>1. claimable' \in Nat
    BY <1>15, <1>0 DEF UpdateWithdrawal, Covered
  <2> QED  BY <1>15, <1>0, <2>1, UpdateWithdrawalWrites, WithdrawalsTyped DEF UpdateWithdrawal
<1> QED
  BY <1>1, <1>2, <1>3, <1>4, <1>5, <1>6, <1>7, <1>8, <1>9, <1>10, <1>11, <1>12, <1>13, <1>14, <1>15
     DEF PayoutNext, TransferStatus, WithdrawalStatus

\* Hence they always hold.
LEMMA AlwaysTyped == PayoutSpec => []Typed
BY InitTyped, TypedStep, PTL DEF PayoutSpec

\* Wallet, rows and memory keep their types; in particular no request and no paid
\* withdrawal takes a provider's earnings below zero (requestPayout, admin.js).
THEOREM PayoutTypes == PayoutSpec => []PayoutTypeOK
BY TypedIsTypeOK, AlwaysTyped, PTL
-----------------------------------------------------------------------------
(* A request that has ended *)

\* markPayoutPaid, rejectPayout, syncPayoutStatus and the release of a claim all look at
\* the status again: none of them, however late, moves a paid or rejected request.
THEOREM EndedPayoutsAreFinal == PayoutSpec => EndedPayoutIsFinal
<1>1. ASSUME Typed, [PayoutNext]_payoutVars, NEW r \in Requests, ~ Open(r)
      PROVE  payouts'[r].status = payouts[r].status
  <2>0. Sequenced /\ References
    BY <1>1 DEF Typed
  <2>1. CASE UNCHANGED payouts
    BY <2>1
  <2>2. ASSUME NEW q \in Requests, NEW s \in PayoutStatus, SetStatus(q, s), Open(q)
        PROVE  payouts'[r].status = payouts[r].status
    BY <2>0, <2>2, <1>1, SetStatusWrites
  <2>3. ASSUME NEW o \in {"provider", "chain"}, payouts' = NewPayout(o)
        PROVE  payouts'[r].status = payouts[r].status
    BY <2>0, <2>3, NewPayoutWrites
  <2>4. ASSUME NEW t \in DOMAIN transfers, ApproveAnswered(t)
        PROVE  payouts'[r].status = payouts[r].status
    <3>1. Stores(transfers[t].of, t) /\ transfers[t].of \in Requests /\ t \in Nat
      BY <2>0, <2>4, RequestsFinite DEF ApproveAnswered, Stores, References
    <3> QED  BY <2>0, <3>1, TransferWrites
  <2>5. ASSUME NEW t \in DOMAIN transfers, ApproveFails(t)
        PROVE  payouts'[r].status = payouts[r].status
    <3>1. transfers[t].of \in Requests
      BY <2>0 DEF References
    <3> QED  BY <2>1, <2>2, <2>5, <3>1 DEF ApproveFails, Unsent, Open, PayoutStatus
  <2>6. CASE ClaimedOnChain
    BY <2>2, <2>6 DEF ClaimedOnChain, Open, PayoutStatus
  <2>7. ASSUME NEW q \in Requests,
               ApproveManually(q) \/ ApproveViaMoyasar(q) \/ MarkPayoutPaid(q) \/ RejectPayout(q)
        PROVE  payouts'[r].status = payouts[r].status
    BY <2>2, <2>7 DEF ApproveManually, ApproveViaMoyasar, Claim, MarkPayoutPaid, Markable,
       RejectPayout, Open, PayoutStatus
  <2>8. ASSUME NEW q \in Requests, NEW caller \in Callers,
               SyncStart(q, caller) \/ SyncAnswered(q, caller)
        PROVE  payouts'[r].status = payouts[r].status
    BY <2>1, <2>2, <2>8 DEF SyncStart, SyncAnswered, Undecided, PayoutStatus
  <2>9. CASE RequestPayout \/ ReleasedOnChain
    BY <2>3, <2>9 DEF RequestPayout, ReleasedOnChain
  <2>10. CASE Earn \/ RestartPayouts \/ RequestWithdrawal \/ UNCHANGED payoutVars
    BY <2>1, <2>10 DEF Earn, RestartPayouts, RequestWithdrawal, payoutVars
  <2>11. ASSUME NEW t \in DOMAIN transfers, NEW s, GatewayAnswers(t, s) PROVE UNCHANGED payouts
    BY <2>11 DEF GatewayAnswers
  <2>12. ASSUME NEW w \in DOMAIN withdrawals, NEW s, UpdateWithdrawal(w, s)
         PROVE  UNCHANGED payouts
    BY <2>12 DEF UpdateWithdrawal
  <2> QED
    BY <1>1, <2>1, <2>4, <2>5, <2>6, <2>7, <2>8, <2>9, <2>10, <2>11, <2>12 DEF PayoutNext
<1>2. Typed /\ [PayoutNext]_payoutVars =>
        [\A r \in Requests : ~ Open(r) => payouts'[r].status = payouts[r].status]_payouts
  BY <1>1
<1> QED  BY <1>2, AlwaysTyped, PTL DEF PayoutSpec, EndedPayoutIsFinal
-----------------------------------------------------------------------------
(* Conservation of earnings, by the sets the money is in *)

Reserved ==
  {r \in Requests : payouts[r].origin = "provider"
                      /\ payouts[r].status \in {"pending", "processing", "paid"}}
Minted ==
  {r \in Requests : payouts[r].origin = "chain" /\ payouts[r].status \in {"rejected"}}
Drawn == {w \in DOMAIN withdrawals : withdrawals[w] = "paid"}

Balanced ==
  claimable + Cardinality(Reserved) + Cardinality(Drawn) = earned + Cardinality(Minted)

\* Numbers throughout
LEMMA CountsAreNat ==
  ASSUME Sequenced
  PROVE  /\ IsFiniteSet(Reserved) /\ Cardinality(Reserved) \in Nat
         /\ IsFiniteSet(Minted) /\ Cardinality(Minted) \in Nat
         /\ IsFiniteSet(Drawn) /\ Cardinality(Drawn) \in Nat
<1>1. Reserved \subseteq Requests /\ Minted \subseteq Requests /\ Drawn \subseteq DOMAIN withdrawals
  BY DEF Reserved, Minted, Drawn
<1>2. IsFiniteSet(Reserved) /\ IsFiniteSet(Minted) /\ IsFiniteSet(Drawn)
  BY <1>1, RequestsFinite, FS_Subset
<1> QED  BY <1>2, FS_CardinalityType

\* An open request that stays open or is paid moves no money.
LEMMA OpenKeepsSets ==
  ASSUME Sequenced, NEW r \in Requests, Open(r), NEW s \in {"pending", "processing", "paid"},
         SetStatus(r, s)
  PROVE  Reserved' = Reserved /\ Minted' = Minted
<1>1. /\ Requests' = Requests /\ payouts'[r].status = s
      /\ payouts'[r].origin = payouts[r].origin
      /\ \A q \in Requests \ {r} : payouts'[q] = payouts[q]
  BY SetStatusWrites DEF PayoutStatus
<1>2. \A q \in Requests : /\ q \in Reserved' <=> q \in Reserved
                          /\ q \in Minted' <=> q \in Minted
  BY <1>1 DEF Reserved, Minted, Open
<1> QED  BY <1>1, <1>2 DEF Reserved, Minted

\* Rejecting returns what the provider had reserved, or mints a unit for the chain's.
LEMMA RejectionBalances ==
  ASSUME Typed, Balanced, NEW r \in Requests, Open(r), SetStatus(r, "rejected"),
         claimable' = claimable + 1, UNCHANGED <<earned, withdrawals>>
  PROVE  Balanced'
<1>0. Sequenced /\ claimable \in Nat /\ earned \in Nat
  BY PayoutAssumption DEF Typed
<1>1. /\ Requests' = Requests /\ payouts'[r].status = "rejected"
      /\ payouts'[r].origin = payouts[r].origin
      /\ \A q \in Requests \ {r} : payouts'[q] = payouts[q]
  BY <1>0, SetStatusWrites DEF PayoutStatus
<1>2. Drawn' = Drawn
  BY DEF Drawn
<1>3. CASE payouts[r].origin = "provider"
  <2>1. \A q \in Requests : /\ q \in Reserved' <=> q \in Reserved /\ q # r
                            /\ q \in Minted' <=> q \in Minted
    BY <1>1, <1>3 DEF Reserved, Minted, Open
  <2>2. Reserved' = Reserved \ {r} /\ Minted' = Minted
    BY <1>1, <2>1 DEF Reserved, Minted
  <2>3. r \in Reserved
    BY <1>3 DEF Reserved, Open
  <2>4. Cardinality(Reserved \ {r}) = Cardinality(Reserved) - 1
    BY <1>0, <2>3, CountsAreNat, FS_RemoveElement
  <2> QED  BY <1>0, <1>2, <2>2, <2>4, CountsAreNat DEF Balanced
<1>4. CASE payouts[r].origin # "provider"
  <2>0. payouts[r].origin = "chain"
    <3>1. payouts[r] \in PayoutRow
      BY <1>0, LenProperties, ElementOfSeq DEF Sequenced, Requests
    <3> QED  BY <1>4, <3>1 DEF PayoutRow
  <2>1. \A q \in Requests : /\ q \in Minted' <=> q \in Minted \/ q = r
                            /\ q \in Reserved' <=> q \in Reserved
    BY <1>1, <2>0 DEF Reserved, Minted, Open
  <2>2. Minted' = Minted \cup {r} /\ Reserved' = Reserved
    BY <1>1, <2>1 DEF Reserved, Minted
  <2>3. r \notin Minted
    BY DEF Minted, Open
  <2>4. Cardinality(Minted \cup {r}) = Cardinality(Minted) + 1
    BY <1>0, <2>3, CountsAreNat, FS_AddElement
  <2> QED  BY <1>0, <1>2, <2>2, <2>4, CountsAreNat DEF Balanced
<1> QED  BY <1>3, <1>4

\* Every step keeps the sum of available, held and paid earnings.
LEMMA BalancedStep == Typed /\ Balanced /\ [PayoutNext]_payoutVars => Balanced'
<1> SUFFICES ASSUME Typed, Balanced, [PayoutNext]_payoutVars PROVE Balanced'
  OBVIOUS
<1>0. Sequenced /\ References /\ claimable \in Nat /\ earned \in Nat
  BY PayoutAssumption DEF Typed
<1>a. ASSUME UNCHANGED <<claimable, earned, payouts, withdrawals>> PROVE Balanced'
  BY <1>a DEF Balanced, Reserved, Minted, Drawn, Requests
<1>b. ASSUME NEW r \in Requests, Open(r), NEW s \in {"pending", "processing", "paid"},
             SetStatus(r, s), UNCHANGED <<claimable, earned, withdrawals>>
      PROVE  Balanced'
  BY <1>0, <1>b, OpenKeepsSets DEF Balanced, Drawn
<1>1. CASE Earn
  BY <1>1, <1>0, CountsAreNat DEF Earn, Balanced, Reserved, Minted, Drawn, Requests
<1>2. CASE RequestPayout
  <2>1. /\ payouts' = NewPayout("provider") /\ claimable' = claimable - 1
        /\ UNCHANGED <<earned, withdrawals>>
    BY <1>2 DEF RequestPayout
  <2> DEFINE n == Len(payouts) + 1
  <2>2. /\ n \notin Requests /\ Requests' = Requests \cup {n}
        /\ payouts'[n] = [status |-> "pending", origin |-> "provider", transfer |-> NoTransfer]
        /\ \A q \in Requests : payouts'[q] = payouts[q]
    BY <1>0, <2>1, NewPayoutWrites
  <2> HIDE DEF n
  <2>3. Reserved' = Reserved \cup {n} /\ Minted' = Minted /\ n \notin Reserved
    BY <2>2 DEF Reserved, Minted
  <2>4. Cardinality(Reserved') = Cardinality(Reserved) + 1 /\ Drawn' = Drawn
    BY <1>0, <2>1, <2>3, CountsAreNat, FS_AddElement DEF Drawn
  <2> QED  BY <1>0, <2>1, <2>3, <2>4, CountsAreNat DEF Balanced
<1>3. CASE ReleasedOnChain
  <2>1. payouts' = NewPayout("chain") /\ UNCHANGED <<claimable, earned, withdrawals>>
    BY <1>3 DEF ReleasedOnChain
  <2> DEFINE n == Len(payouts) + 1
  <2>2. /\ n \notin Requests /\ Requests' = Requests \cup {n}
        /\ payouts'[n] = [status |-> "pending", origin |-> "chain", transfer |-> NoTransfer]
        /\ \A q \in Requests : payouts'[q] = payouts[q]
    BY <1>0, <2>1, NewPayoutWrites
  <2> HIDE DEF n
  <2>3. Reserved' = Reserved /\ Minted' = Minted /\ Drawn' = Drawn
    BY <2>1, <2>2 DEF Reserved, Minted, Drawn
  <2> QED  BY <2>1, <2>3 DEF Balanced
<1>4. CASE ClaimedOnChain
  BY <1>4, <1>b DEF ClaimedOnChain, Open
<1>5. ASSUME NEW r \in Requests, ApproveManually(r) \/ ApproveViaMoyasar(r) \/ MarkPayoutPaid(r)
      PROVE  Balanced'
  BY <1>5, <1>b DEF ApproveManually, ApproveViaMoyasar, Claim, MarkPayoutPaid, Markable, Open
<1>6. ASSUME NEW r \in Requests, RejectPayout(r) PROVE Balanced'
  BY <1>6, RejectionBalances DEF RejectPayout
<1>7. ASSUME NEW t \in DOMAIN transfers, ApproveAnswered(t) PROVE Balanced'
  <2>1. /\ Stores(transfers[t].of, t) /\ transfers[t].of \in Requests /\ t \in Nat
        /\ UNCHANGED <<claimable, earned, withdrawals>>
    BY <1>0, <1>7, RequestsFinite DEF ApproveAnswered, Stores, References
  <2>2. /\ Requests' = Requests
        /\ \A q \in Requests : /\ payouts'[q].status = payouts[q].status
                               /\ payouts'[q].origin = payouts[q].origin
    BY <1>0, <2>1, TransferWrites
  <2>3. Reserved' = Reserved /\ Minted' = Minted /\ Drawn' = Drawn
    BY <2>1, <2>2 DEF Reserved, Minted, Drawn
  <2> QED  BY <2>1, <2>3 DEF Balanced
<1>8. ASSUME NEW t \in DOMAIN transfers, ApproveFails(t) PROVE Balanced'
  <2>1. transfers[t].of \in Requests
    BY <1>0 DEF References
  <2> QED  BY <1>8, <1>a, <1>b, <2>1 DEF ApproveFails, Unsent, Open
<1>9. ASSUME NEW r \in Requests, NEW caller \in Callers,
             SyncStart(r, caller) \/ SyncAnswered(r, caller)
      PROVE  Balanced'
  BY <1>9, <1>a, <1>b, RejectionBalances DEF SyncStart, SyncAnswered, Undecided
<1>10. CASE RestartPayouts \/ UNCHANGED payoutVars
  BY <1>10, <1>a DEF RestartPayouts, payoutVars
<1>11. ASSUME NEW t \in DOMAIN transfers, NEW s, GatewayAnswers(t, s) PROVE Balanced'
  BY <1>11, <1>a DEF GatewayAnswers
<1>12. CASE RequestWithdrawal
  <2>1. withdrawals' = Append(withdrawals, "pending") /\ UNCHANGED <<claimable, earned, payouts>>
    BY <1>12 DEF RequestWithdrawal
  <2>2. Drawn' = Drawn
    BY <1>0, <2>1, RequestWithdrawalWrites DEF Drawn
  <2> QED  BY <2>1, <2>2 DEF Balanced, Reserved, Minted, Requests
<1>13. ASSUME NEW w \in DOMAIN withdrawals, NEW s \in {"processing", "paid", "failed"},
              UpdateWithdrawal(w, s)
       PROVE  Balanced'
  <2>1. /\ withdrawals' = [withdrawals EXCEPT ![w] = s] /\ UNCHANGED <<earned, payouts>>
        /\ claimable' = IF s = "paid" THEN claimable - 1 ELSE claimable
        /\ w \notin Drawn
    BY <1>13 DEF UpdateWithdrawal, OpenWithdrawals, Drawn
  <2>2. /\ DOMAIN withdrawals' = DOMAIN withdrawals
        /\ \A v \in DOMAIN withdrawals : withdrawals'[v] = IF v = w THEN s ELSE withdrawals[v]
    BY <1>0, <2>1, UpdateWithdrawalWrites DEF WithdrawalStatus
  <2>3. Drawn' = IF s = "paid" THEN Drawn \cup {w} ELSE Drawn
    BY <2>1, <2>2 DEF Drawn
  <2>4. Cardinality(Drawn \cup {w}) = Cardinality(Drawn) + 1
    BY <1>0, <2>1, CountsAreNat, FS_AddElement
  <2>5. Reserved' = Reserved /\ Minted' = Minted
    BY <2>1 DEF Reserved, Minted, Requests
  <2> QED  BY <1>0, <2>1, <2>3, <2>4, <2>5, CountsAreNat DEF Balanced
<1> QED
  BY <1>1, <1>2, <1>3, <1>4, <1>5, <1>6, <1>7, <1>8, <1>9, <1>10, <1>11, <1>12, <1>13
     DEF PayoutNext

\* Every unit a provider earned is claimable, in one open or paid request, or in one
\* paid withdrawal, however syncs, admins and the listener interleave.
THEOREM EarningsAreConserved == PayoutSpec => []EarningsConserved
<1>1. PayoutInit => Balanced
  <2> SUFFICES ASSUME PayoutInit PROVE Balanced
    OBVIOUS
  <2>1. Reserved = {} /\ Minted = {} /\ Drawn = {}
    BY DEF PayoutInit, Reserved, Minted, Drawn, Requests
  <2>2. claimable = 0 /\ earned = 0
    BY DEF PayoutInit
  <2> QED  BY <2>1, <2>2, FS_EmptySet DEF Balanced
<1>2. Balanced => EarningsConserved
  BY DEF Balanced, EarningsConserved, Reserved, Minted, Drawn
<1> QED  BY <1>1, <1>2, BalancedStep, AlwaysTyped, PTL DEF PayoutSpec
-----------------------------------------------------------------------------
(* One disbursement *)

Active(t) == transfers[t].status \in {"asked", "queued", "paid"}

\* A request waits for at most one answer, and for none while it is pending.  Unless
\* an answer was lost, a transfer that may have moved money is the only one of its
\* request, and no pending request has one.
Single ==
  /\ \A t, u \in waiting : transfers[t].of = transfers[u].of => t = u
  /\ \A t \in waiting : payouts[transfers[t].of].status # "pending"
  /\ \A t, u \in DOMAIN transfers :
       Active(t) /\ transfers[t].of = transfers[u].of /\ transfers[t].of \notin doubted =>
         /\ payouts[transfers[t].of].status # "pending"
         /\ u # t => ~ Active(u) /\ u \notin waiting

\* A request that does not become pending: nothing to check but the new transfer's.
LEMMA SingleKept ==
  ASSUME Typed, Single, UNCHANGED transfers,
         waiting' \subseteq waiting, doubted \subseteq doubted',
         Requests \subseteq Requests',
         \A r \in Requests : payouts'[r].status = "pending" => payouts[r].status = "pending"
  PROVE  Single'
<1>1. \A t \in DOMAIN transfers : transfers[t].of \in Requests
  BY DEF Typed, References
<1>2. waiting \subseteq DOMAIN transfers
  BY DEF Typed, References
<1>3. DOMAIN transfers' = DOMAIN transfers /\ \A t \in DOMAIN transfers : Active(t)' <=> Active(t)
  BY DEF Active
<1> QED  BY <1>1, <1>2, <1>3 DEF Single

\* A step that leaves the payouts alone leaves their status alone.
LEMMA StatusKept ==
  ASSUME Sequenced, NEW r \in Requests, NEW s \in PayoutStatus \ {"pending"}, SetStatus(r, s)
  PROVE  /\ Requests \subseteq Requests'
         /\ \A q \in Requests : payouts'[q].status = "pending" => payouts[q].status = "pending"
BY SetStatusWrites

\* Every step keeps one live transfer for each request whose answer was not lost.
LEMMA SingleStep == Typed /\ Single /\ [PayoutNext]_payoutVars => Single'
<1> SUFFICES ASSUME Typed, Single, [PayoutNext]_payoutVars PROVE Single'
  OBVIOUS
<1>0. /\ Sequenced /\ References
      /\ {"processing", "paid", "rejected"} = PayoutStatus \ {"pending"}
  BY DEF Typed, PayoutStatus
<1>a. ASSUME UNCHANGED <<payouts, transfers>>, waiting' \subseteq waiting,
             doubted \subseteq doubted'
      PROVE  Single'
  BY <1>a, SingleKept DEF Requests
<1>b. ASSUME NEW r \in Requests, NEW s \in {"processing", "paid", "rejected"}, SetStatus(r, s),
             UNCHANGED <<transfers, waiting, doubted>>
      PROVE  Single'
  BY <1>0, <1>b, StatusKept, SingleKept
<1>1. CASE Earn \/ RequestWithdrawal \/ RestartPayouts \/ UNCHANGED payoutVars
  BY <1>1, <1>a DEF Earn, RequestWithdrawal, RestartPayouts, payoutVars
<1>2. CASE RequestPayout \/ ReleasedOnChain
  <2>1. /\ UNCHANGED <<transfers, waiting, doubted>>
        /\ \E o \in {"provider", "chain"} : payouts' = NewPayout(o)
    BY <1>2 DEF RequestPayout, ReleasedOnChain
  <2>2. /\ Requests \subseteq Requests'
        /\ \A q \in Requests : payouts'[q] = payouts[q]
    BY <1>0, <2>1, NewPayoutWrites
  <2> QED  BY <2>1, <2>2, SingleKept
<1>3. CASE ClaimedOnChain
  BY <1>3, <1>b DEF ClaimedOnChain
<1>4. ASSUME NEW r \in Requests, ApproveManually(r) \/ MarkPayoutPaid(r) \/ RejectPayout(r)
      PROVE  Single'
  BY <1>4, <1>b DEF ApproveManually, MarkPayoutPaid, RejectPayout
<1>5. ASSUME NEW r \in Requests, ApproveViaMoyasar(r) PROVE Single'
  <2> DEFINE n == Len(transfers) + 1
  <2>1. /\ payouts[r].status = "pending" /\ SetStatus(r, "processing")
        /\ transfers' = Append(transfers, [of |-> r, status |-> "asked"])
        /\ waiting' = waiting \cup {n} /\ UNCHANGED doubted
    BY <1>5 DEF ApproveViaMoyasar, Claim
  <2>2. r \in Nat
    BY <1>0, RequestsFinite
  <2>3. /\ n \notin DOMAIN transfers /\ DOMAIN transfers' = DOMAIN transfers \cup {n}
        /\ transfers'[n].of = r
        /\ \A t \in DOMAIN transfers : transfers'[t] = transfers[t]
    BY <1>0, <2>1, <2>2, NewTransferWrites
  <2>4. /\ payouts'[r].status = "processing"
        /\ \A q \in Requests \ {r} : payouts'[q] = payouts[q]
    BY <1>0, <2>1, SetStatusWrites
  <2> HIDE DEF n
  <2>5. /\ waiting \subseteq DOMAIN transfers
        /\ \A t \in DOMAIN transfers : transfers[t].of \in Requests
    BY <1>0 DEF References
  <2>6. \A t \in waiting : transfers[t].of # r
    BY <2>1, <2>5 DEF Single
  <2>7. \A t \in DOMAIN transfers : transfers[t].of = r /\ r \notin doubted => ~ Active(t)
    BY <2>1 DEF Single
  <2>8. \A t \in DOMAIN transfers : Active(t)' <=> Active(t)
    BY <2>3 DEF Active
  <2>9. \A t, u \in waiting' : transfers'[t].of = transfers'[u].of => t = u
    BY <2>1, <2>3, <2>5, <2>6 DEF Single
  <2>10. \A t \in waiting' : payouts'[transfers'[t].of].status # "pending"
    BY <2>1, <2>3, <2>4, <2>5, <2>6 DEF Single
  <2>11. ASSUME NEW t \in DOMAIN transfers', NEW u \in DOMAIN transfers',
                Active(t)', transfers'[t].of = transfers'[u].of, transfers'[t].of \notin doubted
         PROVE  /\ payouts'[transfers'[t].of].status # "pending"
                /\ u # t => ~ Active(u)' /\ u \notin waiting'
    <3>1. CASE t = n
      BY <2>1, <2>3, <2>4, <2>5, <2>6, <2>7, <2>8, <2>11, <3>1
    <3>2. CASE t # n
      <4>1. transfers[t].of # r /\ u # n /\ t \in DOMAIN transfers /\ u \in DOMAIN transfers
        BY <2>3, <2>7, <2>8, <2>11, <3>2
      <4> QED  BY <2>1, <2>3, <2>4, <2>5, <2>8, <2>11, <4>1 DEF Single
    <3> QED  BY <3>1, <3>2
  <2> QED  BY <2>1, <2>9, <2>10, <2>11 DEF Single
<1>6. ASSUME NEW t \in DOMAIN transfers, ApproveAnswered(t) PROVE Single'
  <2>1. /\ Stores(transfers[t].of, t) /\ transfers[t].of \in Requests /\ t \in Nat
        /\ UNCHANGED <<transfers, doubted>> /\ waiting' \subseteq waiting
    BY <1>0, <1>6, RequestsFinite DEF ApproveAnswered, Stores, References
  <2>2. /\ Requests' = Requests
        /\ \A q \in Requests : payouts'[q].status = payouts[q].status
    BY <1>0, <2>1, TransferWrites
  <2> QED  BY <2>1, <2>2, SingleKept
<1>7. ASSUME NEW t \in DOMAIN transfers, ApproveFails(t) PROVE Single'
  <2> DEFINE r == transfers[t].of
  <2>1. /\ t \in waiting /\ waiting' = waiting \ {t} /\ UNCHANGED transfers
        /\ doubted' = IF transfers[t].status = "refused" THEN doubted ELSE doubted \cup {r}
        /\ UNCHANGED payouts \/ SetStatus(r, "pending")
    BY <1>7 DEF ApproveFails
  <2>2. r \in Requests /\ waiting \subseteq DOMAIN transfers
        /\ \A u \in DOMAIN transfers : transfers[u].of \in Requests
    BY <1>0 DEF References
  <2>3. CASE UNCHANGED payouts
    BY <1>a, <2>1, <2>3
  <2>4. CASE SetStatus(r, "pending")
    <3>1. /\ \A q \in Requests \ {r} : payouts'[q] = payouts[q]
      BY <1>0, <2>2, <2>4, SetStatusWrites DEF PayoutStatus
    <3>2. \A u \in waiting' : transfers[u].of # r
      BY <2>1 DEF Single
    <3>3. \A u \in DOMAIN transfers : transfers[u].of = r /\ r \notin doubted' => ~ Active(u)
      BY <2>1, <2>2 DEF Single, Active
    <3>4. /\ DOMAIN transfers' = DOMAIN transfers
          /\ \A u \in DOMAIN transfers : Active(u)' <=> Active(u)
      BY <2>1 DEF Active
    <3>5. \A u \in DOMAIN transfers :
            u \notin waiting => u \notin waiting'
      BY <2>1
    <3>6. ASSUME NEW u \in DOMAIN transfers, NEW v \in DOMAIN transfers,
                 Active(u), transfers[u].of = transfers[v].of, transfers[u].of \notin doubted'
          PROVE  /\ payouts'[transfers[u].of].status # "pending"
                 /\ v # u => ~ Active(v) /\ v \notin waiting'
      <4>1. transfers[u].of # r /\ transfers[u].of \notin doubted
        BY <2>1, <3>3, <3>6
      <4> QED  BY <2>2, <3>1, <3>5, <3>6, <4>1 DEF Single
    <3>7. /\ \A u, v \in waiting' : transfers[u].of = transfers[v].of => u = v
          /\ \A u \in waiting' : payouts'[transfers[u].of].status # "pending"
      BY <2>1, <2>2, <3>1, <3>2 DEF Single
    <3> QED  BY <2>1, <3>4, <3>6, <3>7 DEF Single
  <2> QED  BY <2>1, <2>3, <2>4
<1>8. ASSUME NEW t \in DOMAIN transfers, NEW s \in TransferStatus, GatewayAnswers(t, s)
      PROVE  Single'
  <2>1. /\ Becomes(t, s) /\ UNCHANGED <<payouts, waiting, doubted>>
        /\ s \in {"asked", "queued", "paid"} => Active(t)
    BY <1>8 DEF GatewayAnswers, Becomes, Active
  <2>2. /\ DOMAIN transfers' = DOMAIN transfers /\ transfers'[t].status = s
        /\ \A u \in DOMAIN transfers : transfers'[u].of = transfers[u].of
        /\ \A u \in DOMAIN transfers \ {t} : transfers'[u] = transfers[u]
    BY <1>0, <2>1, TransferStatusWrites
  <2>3. \A u \in DOMAIN transfers : Active(u)' => Active(u)
    BY <2>1, <2>2 DEF Active
  <2>4. waiting \subseteq DOMAIN transfers
    BY <1>0 DEF References
  <2> QED  BY <2>1, <2>2, <2>3, <2>4 DEF Single
<1>9. ASSUME NEW r \in Requests, NEW caller \in Callers,
             SyncStart(r, caller) \/ SyncAnswered(r, caller)
      PROVE  Single'
  BY <1>9, <1>a, <1>b DEF SyncStart, SyncAnswered
<1>10. ASSUME NEW w \in DOMAIN withdrawals, NEW s, UpdateWithdrawal(w, s) PROVE Single'
  BY <1>10, <1>a DEF UpdateWithdrawal
<1> QED
  BY <1>1, <1>2, <1>3, <1>4, <1>5, <1>6, <1>7, <1>8, <1>9, <1>10
     DEF PayoutNext, TransferStatus

\* processPayoutViaMoyasar's compare-and-set before the call: two approvals, a retry and
\* a refusal never leave two live transfers of a request, unless an answer was lost.
THEOREM DisbursedAtMostOnce == PayoutSpec => []DisbursedOnce
<1>1. PayoutInit => Single
  <2>1. DOMAIN << >> = {}
    OBVIOUS
  <2> QED  BY <2>1 DEF PayoutInit, Single
<1>2. Typed /\ Single => DisbursedOnce
  <2> SUFFICES ASSUME Typed, Single, NEW r \in Requests \ doubted
               PROVE  Cardinality({t \in DOMAIN transfers :
                        transfers[t].of = r /\ transfers[t].status \in {"asked", "queued", "paid"}}) <= 1
    BY DEF DisbursedOnce
  <2> DEFINE S == {t \in DOMAIN transfers :
                     transfers[t].of = r /\ transfers[t].status \in {"asked", "queued", "paid"}}
  <2>1. CASE S = {}
    BY <2>1, FS_EmptySet
  <2>2. CASE S # {}
    <3>1. PICK t \in S : TRUE
      BY <2>2
    <3>2. S = {t}
      BY <3>1 DEF Single, Active
    <3>3. Cardinality({t}) = 1
      BY FS_Singleton
    <3> QED  BY <3>2, <3>3
  <2> QED  BY <2>1, <2>2
<1> QED  BY <1>1, <1>2, SingleStep, AlwaysTyped, PTL DEF PayoutSpec
=============================================================================
