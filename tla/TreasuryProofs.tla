----------------------------- MODULE TreasuryProofs ----------------------------
(***************************************************************************)
(* Theorems about TopUps and AutoTopUp, for any number of invoices,        *)
(* transfers, charges and recharges, any cap and any breaker: types, a     *)
(* charge is credited once unless it was guessed, only money Moyasar took  *)
(* is credited, paid rows are left by a refund only, a refund debits once, *)
(* and the counters of the recharges are right.                            *)
(***************************************************************************)
EXTENDS AutoTopUp, SequenceTheorems, FiniteSetTheorems, TLAPS

RowStatus == {"pending", "initiated", "paid", "failed", "refunded"}
RequestStatus == {"none", "pending", "processing", "approved"}
ChargeStatus == {"initiated", "paid", "failed", "refunded"}
Taken == {"paid", "refunded"}

InvoiceIds == {InvoiceId(n) : n \in DOMAIN invoices}
ChargeIds == {ChargeId(c) : c \in DOMAIN charges}
AttemptIds == {AttemptId(a) : a \in DOMAIN attempts}

Id == {"invoice", "charge", "none", "attempt"} \X Nat
PaymentRow == [source : Sources, moyasar : Id, status : RowStatus, request : RequestStatus]
ChargeRow == [of : Id, status : ChargeStatus]
AttemptRow == [status : {"initiated", "3ds_required", "paid", "failed"},
               charge : 0 .. MaxCharges]
Answers == {"none", "asked", "initiated", "paid", "failed"}
-----------------------------------------------------------------------------
(* The invariant *)

\* The tables, as sequences
Sequenced ==
  /\ invoices \in Seq({"open", "paid", "expired"})
  /\ charges \in Seq(ChargeRow) /\ Len(charges) <= MaxCharges
  /\ payments \in Seq(PaymentRow)
  /\ attempts \in Seq(AttemptRow)
  /\ answer \in Seq(Answers) /\ Len(answer) = Len(attempts)

Counters ==
  /\ balance \in Nat /\ credits \in [1 .. MaxCharges -> Nat]
  /\ used \in Nat /\ failures \in Nat
  /\ pause \in {"none", "running", "over"} /\ card \in {"none", "saved", "enabled"}
  /\ clearing \in BOOLEAN /\ locked \in BOOLEAN /\ restarts \in 0 .. MaxRestarts

\* Every id names something.
Linked ==
  /\ \A c \in DOMAIN charges : charges[c].of \in InvoiceIds \cup AttemptIds
  /\ \A k \in Rows : payments[k].moyasar \in InvoiceIds \cup ChargeIds \cup {NoId}
  /\ opening \subseteq DOMAIN invoices
  /\ \A s \in sweeping : s.row \in Rows /\ s.id \in InvoiceIds \cup ChargeIds
  /\ refunding \subseteq Rows
  /\ guessed \subseteq DOMAIN charges

\* A paid invoice was paid by a charge.
Invoiced ==
  \A n \in DOMAIN invoices : invoices[n] = "paid" =>
    \E c \in DOMAIN charges : charges[c].of = InvoiceId(n) /\ charges[c].status \in Taken

\* The invoice or the recharge that an id goes back to, and that of a row
Origin(id) == IF id[1] = "charge" THEN charges[id[2]].of ELSE id
From(k) == Origin(payments[k].moyasar)

\* A row per invoice and per recharge at most; the rows the sweep can pick go back
\* to an invoice.
OneRow ==
  /\ \A j, k \in Rows : From(j) = From(k) /\ From(k) # NoId => j = k
  /\ \A k \in Rows : payments[k].source = "card" /\ Payable(k) => From(k) \in InvoiceIds

\* An invoice whose row is not inserted yet
Unlisted ==
  \A n \in opening :
    /\ \A k \in Rows : From(k) # InvoiceId(n)
    /\ \A s \in sweeping : Origin(s.id) # InvoiceId(n)
    /\ \A c \in DOMAIN charges : charges[c].of = InvoiceId(n) => credits[c] = 0

\* What the sweep holds goes back to the row it was read from.
HeldBySweep ==
  \A s \in sweeping :
    /\ Origin(s.id) \in InvoiceIds
    /\ \A k \in Rows : From(k) = Origin(s.id) => k = s.row
    /\ \A t \in sweeping : Origin(t.id) = Origin(s.id) => t.row = s.row

\* A recharge has one charge, of which nothing is known before its answer.
Recharged ==
  /\ \A c, d \in DOMAIN charges :
       charges[c].of = charges[d].of /\ charges[c].of[1] = "attempt" => c = d
  /\ \A a \in DOMAIN attempts : answer[a] \in {"initiated", "paid", "failed"} =>
       \E c \in DOMAIN charges : charges[c].of = AttemptId(a)
  /\ \A a \in DOMAIN attempts, c \in DOMAIN charges :
       answer[a] # "none" /\ charges[c].of = AttemptId(a) =>
         /\ answer[a] = "paid" => charges[c].status \in Taken
         /\ c \notin guessed =>
              /\ credits[c] = 0
              /\ \A k \in Rows : From(k) # AttemptId(a)

\* A credited charge can be credited no more: its row is paid, and so is the row
\* that the sweep has read.
Credited ==
  /\ \A c \in 1 .. MaxCharges : c \notin DOMAIN charges => credits[c] = 0
  /\ \A c \in DOMAIN charges \ guessed :
       /\ credits[c] <= 1
       /\ credits[c] = 1 =>
            /\ \A k \in Rows : From(k) = charges[c].of => ~ Payable(k)
            /\ \A s \in sweeping : Origin(s.id) = charges[c].of => ~ Payable(s.row)

\* A recharge that awaits its answer has no result yet.
Counted ==
  /\ PaidAttemptsAreCounted
  /\ \A a \in DOMAIN attempts :
       answer[a] # "none" => attempts[a] = [status |-> "initiated", charge |-> 0]
  /\ \A a \in DOMAIN attempts : attempts[a].status = "paid" =>
       attempts[a].charge \in DOMAIN charges
  /\ PausedAfterFailures

Once == OneRow /\ Unlisted /\ HeldBySweep /\ Recharged /\ Credited

TreasuryInv == Sequenced /\ Counters /\ Linked /\ Invoiced /\ Once /\ Counted
-----------------------------------------------------------------------------
(* Ids and sequences *)

\* Ids of different kinds or numbers differ.
LEMMA IdParts ==
  /\ \A n \in Nat : /\ InvoiceId(n) \in Id /\ ChargeId(n) \in Id /\ AttemptId(n) \in Id
                    /\ InvoiceId(n)[1] = "invoice" /\ InvoiceId(n)[2] = n
                    /\ ChargeId(n)[1] = "charge" /\ ChargeId(n)[2] = n
                    /\ AttemptId(n)[1] = "attempt" /\ AttemptId(n)[2] = n
  /\ NoId \in Id /\ NoId[1] = "none"
BY DEF InvoiceId, ChargeId, AttemptId, NoId, Id

\* What the sequences of the tables are indexed by
LEMMA Indices ==
  ASSUME Sequenced
  PROVE  /\ DOMAIN invoices \subseteq Nat \ {0} /\ DOMAIN charges \subseteq 1 .. MaxCharges
         /\ DOMAIN charges \subseteq Nat \ {0} /\ Rows \subseteq Nat \ {0}
         /\ DOMAIN attempts \subseteq Nat \ {0}
         /\ DOMAIN answer = DOMAIN attempts
         /\ \A c \in DOMAIN charges : charges[c] \in ChargeRow
         /\ \A k \in Rows : payments[k] \in PaymentRow
         /\ \A a \in DOMAIN attempts : attempts[a] \in AttemptRow /\ answer[a] \in Answers
<1>1. /\ DOMAIN invoices = 1 .. Len(invoices) /\ Len(invoices) \in Nat
      /\ DOMAIN charges = 1 .. Len(charges) /\ Len(charges) \in Nat
      /\ Rows = 1 .. Len(payments) /\ Len(payments) \in Nat
      /\ DOMAIN attempts = 1 .. Len(attempts) /\ Len(attempts) \in Nat
      /\ DOMAIN answer = 1 .. Len(answer)
  BY LenProperties DEF Sequenced, Rows
<1>2. /\ \A c \in DOMAIN charges : charges[c] \in ChargeRow
      /\ \A k \in Rows : payments[k] \in PaymentRow
      /\ \A a \in DOMAIN attempts : attempts[a] \in AttemptRow /\ answer[a] \in Answers
  BY <1>1, ElementOfSeq DEF Sequenced, Rows
<1> QED  BY <1>1, <1>2, TopUpAssumption DEF Sequenced

\* A written element changes nothing else.
LEMMA Overwrite ==
  ASSUME NEW S, NEW s \in Seq(S), NEW i \in DOMAIN s, NEW e \in S
  PROVE  /\ [s EXCEPT ![i] = e] \in Seq(S)
         /\ DOMAIN [s EXCEPT ![i] = e] = DOMAIN s
         /\ Len([s EXCEPT ![i] = e]) = Len(s)
         /\ [s EXCEPT ![i] = e][i] = e
         /\ \A j \in DOMAIN s \ {i} : [s EXCEPT ![i] = e][j] = s[j]
<1>1. DOMAIN s = 1 .. Len(s)
  BY LenProperties
<1> DEFINE t == [s EXCEPT ![i] = e]
<1>2. t \in Seq(S) /\ Len(t) = Len(s)
  BY <1>1, ExceptSeq
<1>3. t[i] = e /\ \A j \in DOMAIN s \ {i} : t[j] = s[j]
  OBVIOUS
<1> QED  BY <1>1, <1>2, <1>3

\* An appended element leaves the others where they are.
LEMMA Appended ==
  ASSUME NEW S, NEW s \in Seq(S), NEW e \in S
  PROVE  /\ Append(s, e) \in Seq(S)
         /\ Len(s) + 1 \in Nat \ {0} /\ Len(s) + 1 \notin DOMAIN s
         /\ DOMAIN Append(s, e) = DOMAIN s \cup {Len(s) + 1}
         /\ Len(Append(s, e)) = Len(s) + 1
         /\ Append(s, e)[Len(s) + 1] = e
         /\ \A j \in DOMAIN s : Append(s, e)[j] = s[j]
<1>1. DOMAIN s = 1 .. Len(s) /\ Len(s) \in Nat
  BY LenProperties
<1>2. /\ Append(s, e) \in Seq(S) /\ Len(Append(s, e)) = Len(s) + 1
      /\ \A j \in 1 .. Len(s) : Append(s, e)[j] = s[j]
      /\ Append(s, e)[Len(s) + 1] = e
  BY AppendProperties
<1>3. DOMAIN Append(s, e) = 1 .. Len(s) + 1
  BY <1>2, LenProperties
<1> QED  BY <1>1, <1>2, <1>3
-----------------------------------------------------------------------------
(* How a step writes a payments row *)

\* One row changes, the others and the sources of all stay.
RowMoves(k, id, status, request) ==
  /\ payments' \in Seq(PaymentRow) /\ Rows' = Rows
  /\ payments'[k] = [source |-> payments[k].source, moyasar |-> id,
                     status |-> status, request |-> request]
  /\ \A j \in Rows \ {k} : payments'[j] = payments[j]

\* The writes of the handlers are of this form.
LEMMA RowWritten ==
  ASSUME Sequenced, NEW k \in Rows, NEW row \in PaymentRow,
         payments' = [payments EXCEPT ![k] = row], row.source = payments[k].source
  PROVE  RowMoves(k, row.moyasar, row.status, row.request)
<1>1. row = [source |-> payments[k].source, moyasar |-> row.moyasar,
             status |-> row.status, request |-> row.request]
  BY DEF PaymentRow
<1>2. /\ payments' \in Seq(PaymentRow) /\ DOMAIN payments' = DOMAIN payments
      /\ payments'[k] = row /\ \A j \in DOMAIN payments \ {k} : payments'[j] = payments[j]
  BY Overwrite DEF Sequenced, Rows
<1> QED  BY <1>1, <1>2 DEF RowMoves, Rows

\* markPaymentPaidOnce and the other writers of a status
LEMMA StatusWritten ==
  ASSUME Sequenced, NEW k \in Rows, NEW status \in RowStatus,
         payments' = [payments EXCEPT ![k].status = status]
  PROVE  RowMoves(k, payments[k].moyasar, status, payments[k].request)
<1> DEFINE row == [payments[k] EXCEPT !.status = status]
<1>1. payments[k] \in PaymentRow
  BY Indices
<1>2. /\ row \in PaymentRow /\ row.source = payments[k].source
      /\ row.moyasar = payments[k].moyasar /\ row.status = status
      /\ row.request = payments[k].request
  BY <1>1 DEF PaymentRow
<1>3. payments' = [payments EXCEPT ![k] = row]
  OBVIOUS
<1> HIDE DEF row
<1> QED  BY <1>2, <1>3, RowWritten

\* The writers of refund_request_status
LEMMA RequestWritten ==
  ASSUME Sequenced, NEW k \in Rows, NEW request \in RequestStatus,
         payments' = [payments EXCEPT ![k].request = request]
  PROVE  RowMoves(k, payments[k].moyasar, payments[k].status, request)
<1> DEFINE row == [payments[k] EXCEPT !.request = request]
<1>1. payments[k] \in PaymentRow
  BY Indices
<1>2. /\ row \in PaymentRow /\ row.source = payments[k].source
      /\ row.moyasar = payments[k].moyasar /\ row.request = request
      /\ row.status = payments[k].status
  BY <1>1 DEF PaymentRow
<1>3. payments' = [payments EXCEPT ![k] = row]
  OBVIOUS
<1> HIDE DEF row
<1> QED  BY <1>2, <1>3, RowWritten

\* The end of a refund
LEMMA RefundedWritten ==
  ASSUME Sequenced, NEW k \in Rows, Refunded(k)
  PROVE  RowMoves(k, payments[k].moyasar, "refunded", "approved")
<1> DEFINE row == [payments[k] EXCEPT !.status = "refunded", !.request = "approved"]
<1>1. payments[k] \in PaymentRow
  BY Indices
<1>2. /\ row \in PaymentRow /\ row.source = payments[k].source
      /\ row.moyasar = payments[k].moyasar /\ row.request = "approved"
      /\ row.status = "refunded"
  BY <1>1 DEF PaymentRow, RowStatus, RequestStatus
<1>3. payments' = [payments EXCEPT ![k] = row]
  BY DEF Refunded, Sequenced, Rows
<1> HIDE DEF row
<1> QED  BY <1>2, <1>3, RowWritten

\* The webhook's rebinding, with the status it sets or without
LEMMA BindWritten ==
  ASSUME Sequenced, NEW k \in Rows, NEW c \in DOMAIN charges, NEW status \in RowStatus,
         \/ payments' = [Bind(k, c) EXCEPT ![k].status = status]
         \/ payments' = Bind(k, c) /\ status = payments[k].status
  PROVE  RowMoves(k, ChargeId(c), status, payments[k].request)
<1> DEFINE row == [payments[k] EXCEPT !.moyasar = ChargeId(c), !.status = status]
<1>1. payments[k] \in PaymentRow /\ ChargeId(c) \in Id
  BY Indices, IdParts
<1>2. /\ row \in PaymentRow /\ row.source = payments[k].source
      /\ row.moyasar = ChargeId(c) /\ row.request = payments[k].request
      /\ row.status = status
  BY <1>1 DEF PaymentRow
<1>3. payments' = [payments EXCEPT ![k] = row]
  <2>1. CASE payments' = [Bind(k, c) EXCEPT ![k].status = status]
    BY <2>1 DEF Bind, Sequenced, Rows
  <2>2. CASE payments' = Bind(k, c) /\ status = payments[k].status
    <3>1. row = [payments[k] EXCEPT !.moyasar = ChargeId(c)]
      BY <1>1, <2>2 DEF PaymentRow
    <3> QED  BY <2>2, <3>1 DEF Bind
  <2> QED  BY <2>1, <2>2
<1> HIDE DEF row
<1> QED  BY <1>2, <1>3, RowWritten
-----------------------------------------------------------------------------
(* Steps that keep the links between charges and rows *)

\* No invoice or charge appears or changes what it is for.
GatewayKept ==
  /\ DOMAIN invoices \subseteq DOMAIN invoices'
  /\ DOMAIN charges' = DOMAIN charges
  /\ \A c \in DOMAIN charges :
       /\ charges'[c].of = charges[c].of
       /\ charges[c].status \in Taken => charges'[c].status \in Taken

\* No row goes back to another origin or becomes payable again.
RowsKept ==
  /\ Rows' = Rows
  /\ \A k \in Rows : /\ payments'[k].source = payments[k].source
                     /\ payments'[k].moyasar \in InvoiceIds \cup ChargeIds \cup {NoId}
                     /\ From(k)' = From(k)
                     /\ Payable(k)' => Payable(k)

\* Handlers only end; a new recharge has only been asked for.
HandlersEnd ==
  /\ opening' \subseteq opening /\ sweeping' \subseteq sweeping
  /\ refunding' \subseteq Rows /\ guessed' = guessed
  /\ DOMAIN attempts \subseteq DOMAIN attempts'
  /\ \A a \in DOMAIN attempts : answer'[a] \in {answer[a], "none"}
  /\ \A a \in DOMAIN attempts' \ DOMAIN attempts : answer'[a] = "asked"

\* What an id goes back to does not change while charges are kept.
LEMMA OriginKept ==
  ASSUME Sequenced,
         \A c \in DOMAIN charges : charges'[c].of = charges[c].of,
         NEW id \in InvoiceIds \cup ChargeIds \cup {NoId}
  PROVE  Origin(id)' = Origin(id)
<1>1. id[1] = "charge" => id[2] \in DOMAIN charges
  BY IdParts, Indices DEF InvoiceIds, ChargeIds
<1> QED  BY <1>1 DEF Origin

\* An id goes back to an invoice or to a recharge.
LEMMA OriginKinds ==
  ASSUME Sequenced, Linked, NEW id \in InvoiceIds \cup ChargeIds \cup {NoId}
  PROVE  /\ Origin(id) \in InvoiceIds \cup AttemptIds \cup {NoId}
         /\ id # NoId => Origin(id) # NoId
<1>1. CASE id \in ChargeIds
  <2>1. PICK c \in DOMAIN charges : id = ChargeId(c)
    BY <1>1 DEF ChargeIds
  <2>2. Origin(id) = charges[c].of
    BY <2>1, IdParts, Indices DEF Origin
  <2> QED  BY <2>2, IdParts, Indices DEF Linked, InvoiceIds, AttemptIds
<1>2. CASE id \in InvoiceIds \cup {NoId}
  BY <1>2, IdParts, Indices DEF Origin, InvoiceIds
<1> QED  BY <1>1, <1>2

\* Only the credits of recharges that were matched by a guess change.
OnlyGuessed ==
  \A c \in 1 .. MaxCharges :
    credits'[c] # credits[c] => c \in guessed /\ charges[c].of \in AttemptIds

\* Steps that credit no charge whose row is known
LEMMA QuietKeeps ==
  ASSUME Sequenced, Linked, Once, Sequenced', GatewayKept, RowsKept, HandlersEnd,
         OnlyGuessed
  PROVE  Once'
<1> USE DEF GatewayKept, RowsKept, HandlersEnd
<1>1. \A s \in sweeping : Origin(s.id)' = Origin(s.id) /\ s.row \in Rows
  BY OriginKept DEF Linked
<1>2. InvoiceIds \subseteq InvoiceIds'
  BY DEF InvoiceIds
<1>3. OneRow'
  BY <1>2 DEF Once, OneRow
<1>8. \A c \in DOMAIN charges :
        credits'[c] # credits[c] => c \in guessed /\ charges[c].of \in AttemptIds
  BY Indices DEF OnlyGuessed
<1>4. Unlisted'
  <2>1. \A n \in opening : InvoiceId(n) \notin AttemptIds
    BY IdParts, Indices DEF Linked, AttemptIds
  <2> QED  BY <1>1, <1>8, <2>1 DEF Once, Unlisted
<1>5. HeldBySweep'
  BY <1>1, <1>2 DEF Once, HeldBySweep
<1>6. Recharged'
  <2>1. \A a \in DOMAIN attempts' \ DOMAIN attempts, c \in DOMAIN charges :
          charges[c].of # AttemptId(a)
    <3>1. DOMAIN attempts' \subseteq Nat
      BY LenProperties DEF Sequenced
    <3> QED  BY <3>1, IdParts, Indices DEF Linked, InvoiceIds, AttemptIds
  <2>2. \A c, d \in DOMAIN charges' :
          charges'[c].of = charges'[d].of /\ charges'[c].of[1] = "attempt" => c = d
    BY DEF Once, Recharged
  <2>3. ASSUME NEW a \in DOMAIN attempts', answer'[a] \in {"initiated", "paid", "failed"}
        PROVE  \E c \in DOMAIN charges' : charges'[c].of = AttemptId(a)
    <3>1. a \in DOMAIN attempts /\ answer[a] = answer'[a]
      BY <2>3
    <3> QED  BY <2>3, <3>1 DEF Once, Recharged
  <2>4. ASSUME NEW a \in DOMAIN attempts', NEW c \in DOMAIN charges',
               answer'[a] # "none", charges'[c].of = AttemptId(a)
        PROVE  /\ answer'[a] = "paid" => charges'[c].status \in Taken
               /\ c \notin guessed' =>
                    /\ credits'[c] = 0
                    /\ \A k \in Rows' : From(k)' # AttemptId(a)
    <3>1. a \in DOMAIN attempts /\ answer[a] = answer'[a]
      BY <2>1, <2>4
    <3> QED  BY <1>8, <2>4, <3>1 DEF Once, Recharged
  <2> QED  BY <2>2, <2>3, <2>4 DEF Recharged
<1>7. Credited'
  <2>1. \A c \in 1 .. MaxCharges : c \notin DOMAIN charges => credits'[c] = 0
    BY DEF Once, Credited, OnlyGuessed, Linked
  <2> QED  BY <1>1, <1>8, <2>1 DEF Once, Credited
<1> QED  BY <1>3, <1>4, <1>5, <1>6, <1>7 DEF Once

\* Steps that credit charges of one origin, by the row that goes back to it
LEMMA CreditKeeps ==
  ASSUME Sequenced, Counters, Linked, Once, Sequenced',
         GatewayKept, RowsKept, HandlersEnd,
         NEW o \in InvoiceIds \cup AttemptIds, NEW k \in Rows, NEW evidence,
         Payable(k), ~ Payable(k)',
         From(k) = o \/ \E s \in sweeping : s.row = k /\ Origin(s.id) = o,
         \A c \in evidence : c \in DOMAIN charges /\ charges[c].of = o,
         credits' = [c \in DOMAIN credits |->
           IF c \in evidence THEN credits[c] + 1 ELSE credits[c]]
  PROVE  Once'
<1> USE DEF GatewayKept, RowsKept, HandlersEnd
<1>0. /\ o # NoId
      /\ \A n \in opening : o # InvoiceId(n)
      /\ \A j \in Rows : From(j) = o => j = k
      /\ \A s \in sweeping : Origin(s.id) = o => s.row = k
  <2>1. o # NoId
    BY IdParts, Indices DEF InvoiceIds, AttemptIds
  <2>2. CASE From(k) = o
    BY <2>1, <2>2 DEF Once, OneRow, HeldBySweep, Unlisted
  <2>3. CASE \E s \in sweeping : s.row = k /\ Origin(s.id) = o
    BY <2>1, <2>3 DEF Once, HeldBySweep, Unlisted
  <2> QED  BY <2>2, <2>3
<1>1. \A s \in sweeping : Origin(s.id)' = Origin(s.id) /\ s.row \in Rows
  BY OriginKept DEF Linked
<1>2. InvoiceIds \subseteq InvoiceIds'
  BY DEF InvoiceIds
<1>8. \A c \in DOMAIN charges : credits'[c] = IF c \in evidence THEN credits[c] + 1 ELSE credits[c]
  BY Indices DEF Counters
<1>3. OneRow'
  BY <1>2 DEF Once, OneRow
<1>4. Unlisted'
  BY <1>0, <1>1, <1>8 DEF Once, Unlisted
<1>5. HeldBySweep'
  BY <1>1, <1>2 DEF Once, HeldBySweep
<1>6. Recharged'
  <2>1. \A a \in DOMAIN attempts' \ DOMAIN attempts, c \in DOMAIN charges :
          charges[c].of # AttemptId(a)
    <3>1. DOMAIN attempts' \subseteq Nat
      BY LenProperties DEF Sequenced
    <3> QED  BY <3>1, IdParts, Indices DEF Linked, InvoiceIds, AttemptIds
  <2>2. \A c, d \in DOMAIN charges' :
          charges'[c].of = charges'[d].of /\ charges'[c].of[1] = "attempt" => c = d
    BY DEF Once, Recharged
  <2>3. ASSUME NEW a \in DOMAIN attempts', answer'[a] \in {"initiated", "paid", "failed"}
        PROVE  \E c \in DOMAIN charges' : charges'[c].of = AttemptId(a)
    <3>1. a \in DOMAIN attempts /\ answer[a] = answer'[a]
      BY <2>3
    <3> QED  BY <2>3, <3>1 DEF Once, Recharged
  <2>4. ASSUME NEW a \in DOMAIN attempts', NEW c \in DOMAIN charges',
               answer'[a] # "none", charges'[c].of = AttemptId(a)
        PROVE  /\ answer'[a] = "paid" => charges'[c].status \in Taken
               /\ c \notin guessed' =>
                    /\ credits'[c] = 0
                    /\ \A j \in Rows' : From(j)' # AttemptId(a)
    <3>1. a \in DOMAIN attempts /\ answer[a] = answer'[a] /\ charges[c].of = AttemptId(a)
      BY <2>1, <2>4
    <3>2. c \notin guessed => credits[c] = 0 /\ \A j \in Rows : From(j) # AttemptId(a)
      BY <2>4, <3>1 DEF Once, Recharged
    <3>3. c \in evidence /\ c \notin guessed => FALSE
      <4> SUFFICES ASSUME c \in evidence, c \notin guessed  PROVE FALSE
        OBVIOUS
      <4>1. o = AttemptId(a)
        BY <3>1
      <4>2. \E s \in sweeping : Origin(s.id) = o
        BY <3>2, <4>1
      <4>3. o \in InvoiceIds
        BY <4>2 DEF Once, HeldBySweep
      <4> QED  BY <3>1, <4>1, <4>3, IdParts, Indices DEF InvoiceIds
    <3> QED  BY <1>8, <2>4, <3>1, <3>2, <3>3 DEF Once, Recharged
  <2> QED  BY <2>2, <2>3, <2>4 DEF Recharged
<1>7. Credited'
  <2>1. \A c \in 1 .. MaxCharges : c \notin DOMAIN charges' => credits'[c] = 0
    BY DEF Once, Credited, Counters
  <2>2. ASSUME NEW c \in DOMAIN charges' \ guessed'
        PROVE  /\ credits'[c] <= 1
               /\ credits'[c] = 1 =>
                    /\ \A j \in Rows' : From(j)' = charges'[c].of => ~ Payable(j)'
                    /\ \A s \in sweeping' :
                         Origin(s.id)' = charges'[c].of => ~ Payable(s.row)'
    <3>1. credits[c] \in Nat
      BY Indices DEF Counters
    <3>2. CASE c \in evidence
      <4>1. credits[c] # 1
        BY <3>2, <1>0 DEF Once, Credited
      <4>2. credits[c] = 0 /\ credits'[c] = 1
        BY <3>1, <3>2, <4>1, <1>8 DEF Once, Credited
      <4> QED  BY <1>0, <1>1, <3>2, <4>2
    <3>3. CASE c \notin evidence
      BY <1>1, <1>8, <3>3 DEF Once, Credited
    <3> QED  BY <3>2, <3>3
  <2> QED  BY <2>1, <2>2 DEF Credited
<1> QED  BY <1>3, <1>4, <1>5, <1>6, <1>7 DEF Once

\* Such a step keeps the ids of every table valid.
LEMMA LinksKept ==
  ASSUME Linked, GatewayKept, RowsKept, HandlersEnd
  PROVE  Linked'
<1>1. /\ InvoiceIds \subseteq InvoiceIds' /\ ChargeIds' = ChargeIds
      /\ AttemptIds \subseteq AttemptIds'
  BY DEF InvoiceIds, ChargeIds, AttemptIds, GatewayKept, HandlersEnd
<1>2. \A c \in DOMAIN charges' : charges'[c].of \in InvoiceIds' \cup AttemptIds'
  BY <1>1 DEF Linked, GatewayKept
<1>3. \A k \in Rows' : payments'[k].moyasar \in InvoiceIds' \cup ChargeIds' \cup {NoId}
  BY <1>1 DEF RowsKept
<1>4. /\ opening' \subseteq DOMAIN invoices'
      /\ refunding' \subseteq Rows' /\ guessed' \subseteq DOMAIN charges'
  BY DEF Linked, GatewayKept, RowsKept, HandlersEnd
<1>5. \A s \in sweeping' : s.row \in Rows' /\ s.id \in InvoiceIds' \cup ChargeIds'
  BY <1>1 DEF Linked, RowsKept, HandlersEnd
<1> QED  BY <1>2, <1>3, <1>4, <1>5 DEF Linked

\* The recharges that ended paid stay credited.
LEMMA CountKept ==
  ASSUME Sequenced, Counters, Counted,
         UNCHANGED <<attempts, answer, used, failures, pause>>,
         DOMAIN charges \subseteq DOMAIN charges',
         \A c \in 1 .. MaxCharges : credits'[c] \in Nat /\ credits'[c] >= credits[c]
  PROVE  Counted'
<1>1. \A a \in DOMAIN attempts : attempts[a].status = "paid" =>
        attempts[a].charge \in 1 .. MaxCharges
  BY Indices DEF Counted
<1>2. ASSUME NEW a \in DOMAIN attempts, attempts[a].status = "paid"
      PROVE  credits'[attempts[a].charge] > 0
  BY <1>1, <1>2 DEF Counted, PaidAttemptsAreCounted, Counters
<1>3. PaidAttemptsAreCounted'
  BY <1>2 DEF Counted, PaidAttemptsAreCounted
<1> QED  BY <1>3 DEF Counted, PausedAfterFailures

\* Credit adds one to the evidence.
LEMMA CreditWrites ==
  ASSUME Counters, NEW evidence, Credit(evidence)
  PROVE  /\ balance' = balance + 1 /\ balance' \in Nat
         /\ credits' \in [1 .. MaxCharges -> Nat]
         /\ credits' = [c \in DOMAIN credits |->
              IF c \in evidence THEN credits[c] + 1 ELSE credits[c]]
         /\ \A c \in 1 .. MaxCharges : /\ credits'[c] \in Nat /\ credits'[c] >= credits[c]
                                       /\ c \in evidence => credits'[c] > 0
                                       /\ c \in evidence => credits'[c] > credits[c]
BY DEF Credit, Counters

\* One row moves and goes back to what it went back to.
LEMMA OneMoves ==
  ASSUME Sequenced, Linked, GatewayKept, NEW k \in Rows,
         NEW id \in InvoiceIds \cup ChargeIds \cup {NoId},
         NEW status \in RowStatus, NEW request \in RequestStatus,
         RowMoves(k, id, status, request),
         Origin(id) = From(k),
         status \in {"pending", "initiated", "failed"} => Payable(k)
  PROVE  RowsKept
<1>1. \A j \in Rows : payments[j].moyasar \in InvoiceIds \cup ChargeIds \cup {NoId}
  BY DEF Linked
<1>2. Origin(id)' = Origin(id)
  BY OriginKept DEF GatewayKept
<1>3. \A j \in Rows : Origin(payments[j].moyasar)' = IF payments'[j].moyasar[1] = "charge"
                     THEN charges'[payments'[j].moyasar[2]].of ELSE payments'[j].moyasar
  BY DEF Origin
<1>4. \A j \in Rows : Origin(payments[j].moyasar) = IF payments[j].moyasar[1] = "charge"
                     THEN charges'[payments[j].moyasar[2]].of ELSE payments[j].moyasar
  <2> TAKE j \in Rows
  <2>1. payments[j].moyasar[1] = "charge" => payments[j].moyasar[2] \in DOMAIN charges
    BY <1>1, IdParts, Indices DEF InvoiceIds, ChargeIds
  <2> QED  BY <2>1 DEF Origin, GatewayKept
<1>5. ASSUME NEW j \in Rows
      PROVE  /\ payments'[j].source = payments[j].source
             /\ payments'[j].moyasar \in InvoiceIds \cup ChargeIds \cup {NoId}
             /\ From(j)' = From(j)
             /\ Payable(j)' => Payable(j)
  <2>1. CASE j = k
    <3>1. payments'[j].moyasar = id /\ payments'[j].source = payments[j].source
          /\ payments'[j].status = status
      BY <2>1 DEF RowMoves
    <3>2. From(j)' = Origin(id)'
      BY <3>1 DEF From, Origin
    <3> QED  BY <1>2, <2>1, <3>1, <3>2 DEF Payable
  <2>2. CASE j # k
    <3>1. payments'[j] = payments[j]
      BY <2>2 DEF RowMoves
    <3> QED  BY <1>1, <1>3, <1>4, <3>1 DEF From, Payable
  <2> QED  BY <2>1, <2>2
<1> QED  BY <1>5 DEF RowsKept, RowMoves

\* The steps that credit no charge preserve the invariant.
LEMMA QuietStep ==
  ASSUME TreasuryInv, GatewayKept, RowsKept, HandlersEnd, OnlyGuessed,
         Sequenced', Counters', Invoiced', Counted'
  PROVE  TreasuryInv'
<1>1. Once'
  BY QuietKeeps DEF TreasuryInv
<1>2. Linked'
  BY LinksKept DEF TreasuryInv
<1> QED  BY <1>1, <1>2 DEF TreasuryInv

\* So do those that credit an origin by its row.
LEMMA CreditStep ==
  ASSUME TreasuryInv, GatewayKept, RowsKept, HandlersEnd,
         NEW o \in InvoiceIds \cup AttemptIds, NEW k \in Rows, NEW evidence,
         Payable(k), ~ Payable(k)',
         From(k) = o \/ \E s \in sweeping : s.row = k /\ Origin(s.id) = o,
         \A c \in evidence : c \in DOMAIN charges /\ charges[c].of = o,
         Credit(evidence),
         Sequenced', Counters', Invoiced', Counted'
  PROVE  TreasuryInv'
<1>1. Once'
  BY CreditKeeps DEF TreasuryInv, Credit
<1>2. Linked'
  BY LinksKept DEF TreasuryInv
<1> QED  BY <1>1, <1>2 DEF TreasuryInv
-----------------------------------------------------------------------------
(* Handlers of payments rows *)

\* A step of TopUps that leaves Moyasar alone
LEMMA OnlyRows ==
  ASSUME TreasuryInv, UNCHANGED <<gateway, autoVars>>,
         payments' \in Seq(PaymentRow), balance' \in Nat,
         credits' \in [1 .. MaxCharges -> Nat],
         \A c \in 1 .. MaxCharges : credits'[c] >= credits[c]
  PROVE  GatewayKept /\ Sequenced' /\ Counters' /\ Invoiced' /\ Counted'
<1> USE DEF gateway, autoVars, breakerVars
<1>1. GatewayKept
  BY DEF GatewayKept
<1>2. Sequenced'
  BY DEF TreasuryInv, Sequenced
<1>3. Counters'
  BY DEF TreasuryInv, Counters
<1>4. Invoiced'
  BY DEF TreasuryInv, Invoiced
<1>5. \A c \in 1 .. MaxCharges : credits'[c] \in Nat
  OBVIOUS
<1>6. Counted'
  BY <1>5, CountKept DEF TreasuryInv
<1> QED  BY <1>1, <1>2, <1>3, <1>4, <1>6

\* One row changes its status or its refund request, and no charge is credited.
LEMMA RowStep ==
  ASSUME TreasuryInv, UNCHANGED <<gateway, autoVars, opening, guessed, credits>>,
         NEW k \in Rows, NEW status \in RowStatus, NEW request \in RequestStatus,
         RowMoves(k, payments[k].moyasar, status, request),
         status \in {"pending", "initiated", "failed"} => Payable(k),
         sweeping' \subseteq sweeping, refunding' \subseteq Rows, balance' \in Nat
  PROVE  TreasuryInv'
<1>1. /\ credits' \in [1 .. MaxCharges -> Nat]
      /\ \A c \in 1 .. MaxCharges : credits'[c] >= credits[c]
  BY DEF TreasuryInv, Counters
<1>2. GatewayKept /\ Sequenced' /\ Counters' /\ Invoiced' /\ Counted'
  <2>1. payments' \in Seq(PaymentRow)
    BY DEF RowMoves
  <2>2. UNCHANGED <<gateway, autoVars>>
    OBVIOUS
  <2> QED  BY <1>1, <2>1, <2>2, OnlyRows
<1>3. payments[k].moyasar \in InvoiceIds \cup ChargeIds \cup {NoId}
  BY DEF TreasuryInv, Linked
<1>4. RowsKept
  BY <1>2, <1>3, OneMoves DEF TreasuryInv, From
<1>5. HandlersEnd
  BY DEF HandlersEnd, autoVars, breakerVars
<1>6. OnlyGuessed
  BY DEF OnlyGuessed
<1> QED  BY <1>2, <1>4, <1>5, <1>6, QuietStep

\* What a row holds
LEMMA RowTypes ==
  ASSUME TreasuryInv, NEW k \in Rows
  PROVE  /\ Sequenced
         /\ payments[k].status \in RowStatus /\ payments[k].request \in RequestStatus
         /\ payments[k].source \in Sources
         /\ Payable(k) <=> payments[k].status \notin Taken
BY Indices DEF TreasuryInv, PaymentRow, Payable, Taken, RowStatus

\* A confirmed transfer credits no charge.
LEMMA ConfirmTransferKeeps ==
  ASSUME TreasuryInv, UNCHANGED autoVars, NEW k \in Rows, ConfirmTransfer(k)
  PROVE  TreasuryInv'
<1>1. balance' \in Nat /\ credits' = credits
  BY DEF ConfirmTransfer, Credit, TreasuryInv, Counters
<1>2. RowMoves(k, payments[k].moyasar, "paid", payments[k].request)
  BY RowTypes, StatusWritten DEF ConfirmTransfer, RowStatus
<1>3. /\ UNCHANGED <<gateway, autoVars, opening, guessed, credits>>
      /\ sweeping' = sweeping /\ refunding' \subseteq Rows
  BY <1>1 DEF ConfirmTransfer, TreasuryInv, Linked
<1> QED  BY <1>1, <1>2, <1>3, RowTypes, RowStep DEF RowStatus

\* Asking for a refund and rejecting the request touch the request only.
LEMMA RequestsKeep ==
  ASSUME TreasuryInv, UNCHANGED autoVars, NEW k \in Rows,
         RequestRefund(k) \/ RejectRefund(k)
  PROVE  TreasuryInv'
<1>1. PICK request \in {"pending", "none"} :
        payments' = [payments EXCEPT ![k].request = request]
  BY DEF RequestRefund, RejectRefund
<1>2. RowMoves(k, payments[k].moyasar, payments[k].status, request)
  BY <1>1, RowTypes, RequestWritten DEF RequestStatus
<1>3. /\ UNCHANGED <<gateway, autoVars, opening, guessed, credits>>
      /\ sweeping' = sweeping /\ refunding' \subseteq Rows /\ balance' \in Nat
  BY DEF RequestRefund, RejectRefund, TreasuryInv, Linked, Counters
<1>4. payments[k].status \in {"pending", "initiated", "failed"} => Payable(k)
  BY DEF Payable
<1> QED  BY <1>2, <1>3, <1>4, RowTypes, RowStep DEF RequestStatus

\* The debit of a refund stops at zero.
LEMMA DebitedNat ==
  ASSUME TreasuryInv
  PROVE  Debited \in Nat
BY DEF TreasuryInv, Counters, Debited

\* An approval claims the request, or ends it by hand.
LEMMA ApproveKeeps ==
  ASSUME TreasuryInv, UNCHANGED autoVars, NEW k \in Rows, ApproveRefund(k)
  PROVE  TreasuryInv'
<1>1. /\ UNCHANGED <<gateway, autoVars, opening, guessed, credits>>
      /\ sweeping' = sweeping /\ refunding' \subseteq Rows /\ balance' \in Nat
  BY DebitedNat DEF ApproveRefund, Refunded, TreasuryInv, Linked, Counters
<1>2. CASE Refunded(k)
  <2>1. RowMoves(k, payments[k].moyasar, "refunded", "approved")
    BY <1>2, RowTypes, RefundedWritten
  <2> QED  BY <1>1, <2>1, RowStep DEF RowStatus, RequestStatus
<1>3. CASE payments' = [payments EXCEPT ![k].request = "processing"]
  <2>1. RowMoves(k, payments[k].moyasar, payments[k].status, "processing")
    BY <1>3, RowTypes, RequestWritten DEF RequestStatus
  <2>2. payments[k].status \in {"pending", "initiated", "failed"} => Payable(k)
    BY DEF Payable
  <2> QED  BY <1>1, <2>1, <2>2, RowTypes, RowStep DEF RequestStatus
<1> QED  BY <1>2, <1>3 DEF ApproveRefund

\* A step that changes no row
LEMMA IdleStep ==
  ASSUME TreasuryInv, UNCHANGED <<charges, payments, guessed, credits>>, HandlersEnd,
         DOMAIN invoices \subseteq DOMAIN invoices',
         Sequenced', Counters', Invoiced', Counted'
  PROVE  TreasuryInv'
<1>1. GatewayKept
  BY DEF GatewayKept
<1>2. \A k \in Rows : payments[k].moyasar \in InvoiceIds \cup ChargeIds \cup {NoId}
  BY DEF TreasuryInv, Linked
<1>3. RowsKept
  BY <1>2 DEF RowsKept, Rows, From, Origin, Payable
<1>4. OnlyGuessed
  BY DEF OnlyGuessed
<1> QED  BY <1>1, <1>3, <1>4, QuietStep

\* Moyasar's answer to a refund, and its refusal
LEMMA RefundEndsKeep ==
  ASSUME TreasuryInv, UNCHANGED autoVars, NEW k \in Rows,
         RefundAnswered(k) \/ RefundFails(k)
  PROVE  TreasuryInv'
<1>1. /\ UNCHANGED <<gateway, autoVars, opening, guessed, credits>>
      /\ sweeping' = sweeping /\ refunding' \subseteq Rows /\ balance' \in Nat
  BY DebitedNat DEF RefundAnswered, RefundFails, Refunded, TreasuryInv, Linked, Counters
<1>2. CASE Refunded(k)
  <2>1. RowMoves(k, payments[k].moyasar, "refunded", "approved")
    BY <1>2, RowTypes, RefundedWritten
  <2> QED  BY <1>1, <2>1, RowStep DEF RowStatus, RequestStatus
<1>3. CASE payments' = [payments EXCEPT ![k].request = "pending"]
  <2>1. RowMoves(k, payments[k].moyasar, payments[k].status, "pending")
    BY <1>3, RowTypes, RequestWritten DEF RequestStatus
  <2>2. payments[k].status \in {"pending", "initiated", "failed"} => Payable(k)
    BY DEF Payable
  <2> QED  BY <1>1, <2>1, <2>2, RowTypes, RowStep DEF RequestStatus
<1>4. CASE payments' = payments
  <2>1. payments' \in Seq(PaymentRow)
    BY <1>4 DEF TreasuryInv, Sequenced
  <2>2. /\ credits' \in [1 .. MaxCharges -> Nat]
        /\ \A c \in 1 .. MaxCharges : credits'[c] >= credits[c]
    BY <1>1 DEF TreasuryInv, Counters
  <2>3. UNCHANGED <<gateway, autoVars>>
    BY <1>1
  <2>4. Sequenced' /\ Counters' /\ Invoiced' /\ Counted'
    BY <1>1, <2>1, <2>2, <2>3, OnlyRows
  <2>5. HandlersEnd
    BY <1>1 DEF HandlersEnd, autoVars, breakerVars
  <2> QED  BY <1>1, <1>4, <2>4, <2>5, IdleStep DEF gateway
<1> QED  BY <1>2, <1>3, <1>4 DEF RefundAnswered, RefundFails

\* Nothing but the handlers in memory changes.
LEMMA RowsUntouched ==
  ASSUME TreasuryInv, UNCHANGED <<gateway, autoVars, payments, balance, credits>>
  PROVE  Sequenced' /\ Counters' /\ Invoiced' /\ Counted'
<1>1. payments' \in Seq(PaymentRow) /\ balance' \in Nat
  BY DEF TreasuryInv, Sequenced, Counters
<1>2. /\ credits' \in [1 .. MaxCharges -> Nat]
      /\ \A c \in 1 .. MaxCharges : credits'[c] >= credits[c]
  BY DEF TreasuryInv, Counters
<1>3. UNCHANGED <<gateway, autoVars>>
  OBVIOUS
<1> QED  BY <1>1, <1>2, <1>3, OnlyRows

\* The sweep reads rows that go back to an invoice, each to its own.
LEMMA SweepSelectKeeps ==
  ASSUME TreasuryInv, UNCHANGED autoVars, SweepSelect
  PROVE  TreasuryInv'
<1>1. UNCHANGED <<gateway, autoVars, payments, opening, refunding, balance, credits, guessed>>
  BY DEF SweepSelect
<1>2. Sequenced' /\ Counters' /\ Invoiced' /\ Counted'
  BY <1>1, RowsUntouched
<1>3. ASSUME NEW s \in sweeping'
      PROVE  /\ s.row \in Rows /\ Payable(s.row)
             /\ s.id = payments[s.row].moyasar /\ Origin(s.id) = From(s.row)
             /\ Origin(s.id) \in InvoiceIds
  <2>1. PICK k \in Sweepable : s = [row |-> k, id |-> payments[k].moyasar]
    BY DEF SweepSelect
  <2>2. k \in Rows /\ Payable(k) /\ payments[k].source = "card"
    BY DEF Sweepable, Unsettled, Payable
  <2> QED  BY <2>1, <2>2 DEF From, TreasuryInv, Once, OneRow
<1>4. \A n \in DOMAIN invoices : NoId # InvoiceId(n)
  BY IdParts, Indices DEF TreasuryInv
<1>5. \A s \in sweeping' : s.id # NoId /\ From(s.row) # NoId
  BY <1>3, <1>4, IdParts DEF Origin, InvoiceIds
<1>6. Linked'
  BY <1>1, <1>3, <1>5 DEF TreasuryInv, Linked, InvoiceIds, ChargeIds, AttemptIds, gateway,
    autoVars, breakerVars, Rows
<1>7. /\ \A s \in sweeping' : Origin(s.id)' = Origin(s.id)
      /\ \A k \in Rows : From(k)' = From(k) /\ Payable(k)' = Payable(k)
      /\ Rows' = Rows /\ InvoiceIds' = InvoiceIds
  BY <1>1 DEF Origin, From, gateway, Payable, Rows, InvoiceIds
<1>8. OneRow'
  BY <1>1, <1>7 DEF TreasuryInv, Once, OneRow
<1>9. Unlisted'
  BY <1>1, <1>3, <1>7 DEF TreasuryInv, Once, Unlisted, gateway
<1>10. HeldBySweep'
  BY <1>3, <1>5, <1>7 DEF TreasuryInv, Once, OneRow, HeldBySweep
<1>11. Recharged'
  BY <1>1, <1>7 DEF TreasuryInv, Once, Recharged, gateway, autoVars, breakerVars
<1>12. Credited'
  BY <1>1, <1>3, <1>7 DEF TreasuryInv, Once, Credited, gateway
<1> QED  BY <1>2, <1>6, <1>8, <1>9, <1>10, <1>11, <1>12 DEF TreasuryInv, Once

\* An id's charges go back where the id does.
LEMMA EvidenceOf ==
  ASSUME Sequenced, Linked, NEW id \in InvoiceIds \cup ChargeIds, NEW c \in PaidBy(id)
  PROVE  c \in DOMAIN charges /\ charges[c].of = Origin(id) /\ charges[c].status \in Taken
<1>1. c \in DOMAIN charges /\ charges[c].status \in Taken
  BY DEF PaidBy, ChargesOf, Taken
<1>2. CASE id = ChargeId(c)
  BY <1>1, <1>2, IdParts, Indices DEF Origin
<1>3. CASE id = charges[c].of
  <2>1. id[1] # "charge"
    BY <1>1, <1>3, IdParts, Indices DEF Linked, InvoiceIds, AttemptIds
  <2> QED  BY <1>1, <1>3, <2>1 DEF Origin
<1> QED  BY <1>1, <1>2, <1>3 DEF PaidBy, ChargesOf

\* A row becomes paid and the charges of its id, or of the id the sweep read from
\* it, are credited.
LEMMA PayStep ==
  ASSUME TreasuryInv, UNCHANGED <<gateway, autoVars, opening, refunding, guessed>>,
         NEW k \in Rows, NEW id \in InvoiceIds \cup ChargeIds, Payable(k),
         payments' = [payments EXCEPT ![k].status = "paid"], Credit(PaidBy(id)),
         sweeping' \subseteq sweeping,
         From(k) = Origin(id) \/ \E s \in sweeping : s.row = k /\ s.id = id
  PROVE  TreasuryInv'
<1>1. RowMoves(k, payments[k].moyasar, "paid", payments[k].request)
  BY RowTypes, StatusWritten DEF RowStatus
<1>2. /\ balance' \in Nat /\ credits' \in [1 .. MaxCharges -> Nat]
      /\ \A c \in 1 .. MaxCharges : credits'[c] >= credits[c]
  BY CreditWrites DEF TreasuryInv
<1>3. GatewayKept /\ Sequenced' /\ Counters' /\ Invoiced' /\ Counted'
  <2>1. payments' \in Seq(PaymentRow) /\ UNCHANGED <<gateway, autoVars>>
    BY <1>1 DEF RowMoves
  <2> QED  BY <1>2, <2>1, OnlyRows
<1>4. payments[k].moyasar \in InvoiceIds \cup ChargeIds \cup {NoId}
  BY DEF TreasuryInv, Linked
<1>5. RowsKept
  <2>1. Origin(payments[k].moyasar) = From(k)
    BY DEF From
  <2> QED  BY <1>1, <1>3, <1>4, <2>1, OneMoves, RowTypes DEF TreasuryInv, RowStatus
<1>6. HandlersEnd
  BY DEF HandlersEnd, autoVars, breakerVars, TreasuryInv, Linked
<1>7. Origin(id) \in InvoiceIds \cup AttemptIds
  BY OriginKinds, IdParts, Indices DEF TreasuryInv, InvoiceIds, ChargeIds
<1>8. ~ Payable(k)'
  BY <1>1 DEF RowMoves, Payable
<1>9. \A c \in PaidBy(id) : c \in DOMAIN charges /\ charges[c].of = Origin(id)
  BY EvidenceOf DEF TreasuryInv
<1> QED  BY <1>3, <1>5, <1>6, <1>7, <1>8, <1>9, CreditStep

\* The verify poll credits by the row's own id.
LEMMA VerifyKeeps ==
  ASSUME TreasuryInv, UNCHANGED autoVars, NEW k \in Rows, Verify(k)
  PROVE  TreasuryInv'
<1>1. payments[k].moyasar \in InvoiceIds \cup ChargeIds
  BY IdParts, RowTypes DEF Verify, TreasuryInv, Linked
<1>2. From(k) = Origin(payments[k].moyasar)
  BY DEF From
<1>3. UNCHANGED <<gateway, autoVars, opening, refunding, guessed>> /\ sweeping' \subseteq sweeping
  BY DEF Verify
<1> QED  BY <1>1, <1>2, <1>3, PayStep DEF Verify

\* The sweep credits by the id it has read.
LEMMA SweepApplyKeeps ==
  ASSUME TreasuryInv, UNCHANGED autoVars, SweepApply
  PROVE  TreasuryInv'
<1>1. PICK s \in NextSwept :
        /\ sweeping' = sweeping \ {s}
        /\ \/ /\ Payable(s.row)
              /\ payments' = [payments EXCEPT ![s.row].status = "paid"]
              /\ Credit(PaidBy(s.id))
           \/ /\ Unsettled(s.row)
              /\ payments' = [payments EXCEPT ![s.row].status = "failed"]
              /\ UNCHANGED <<balance, credits>>
           \/ UNCHANGED <<payments, balance, credits>>
        /\ UNCHANGED <<gateway, opening, refunding, guessed>>
  BY DEF SweepApply
<1>2. s \in sweeping /\ s.row \in Rows /\ s.id \in InvoiceIds \cup ChargeIds
  BY DEF NextSwept, TreasuryInv, Linked
<1> DEFINE k == s.row
<1>3. UNCHANGED <<gateway, autoVars, opening, refunding, guessed>> /\ sweeping' \subseteq sweeping
  BY <1>1
<1>4. CASE /\ Payable(k) /\ payments' = [payments EXCEPT ![k].status = "paid"]
           /\ Credit(PaidBy(s.id))
  BY <1>2, <1>3, <1>4, PayStep
<1>5. CASE /\ Unsettled(k) /\ payments' = [payments EXCEPT ![k].status = "failed"]
           /\ UNCHANGED <<balance, credits>>
  <2>1. RowMoves(k, payments[k].moyasar, "failed", payments[k].request)
    BY <1>2, <1>5, RowTypes, StatusWritten DEF RowStatus
  <2>2. Payable(k) /\ refunding' \subseteq Rows /\ balance' \in Nat
    BY <1>3, <1>5 DEF Payable, Unsettled, TreasuryInv, Linked, Counters
  <2>3. UNCHANGED <<gateway, autoVars, opening, guessed, credits>>
    BY <1>3, <1>5
  <2> QED  BY <1>2, <1>3, <2>1, <2>2, <2>3, RowTypes, RowStep DEF RowStatus
<1>6. CASE UNCHANGED <<payments, balance, credits>>
  <2>1. Sequenced' /\ Counters' /\ Invoiced' /\ Counted'
    BY <1>3, <1>6, RowsUntouched
  <2>2. HandlersEnd
    BY <1>3 DEF HandlersEnd, autoVars, breakerVars, TreasuryInv, Linked
  <2> QED  BY <1>3, <1>6, <2>1, <2>2, IdleStep DEF gateway
<1> QED  BY <1>1, <1>4, <1>5, <1>6
-----------------------------------------------------------------------------
(* Moyasar *)

\* A new charge is of an invoice, or the first of a recharge that awaits it.
LEMMA ChargeAdded ==
  ASSUME TreasuryInv, NEW o, NEW status \in ChargeStatus,
         charges' = Append(charges, [of |-> o, status |-> status]),
         Len(charges) < MaxCharges,
         UNCHANGED <<invoices, payments, opening, sweeping, refunding, balance, credits,
                     guessed, attempts, used, breakerVars, locked, restarts>>,
         \/ o \in InvoiceIds /\ answer' = answer
         \/ \E a \in DOMAIN attempts :
              /\ o = AttemptId(a) /\ answer[a] = "asked"
              /\ status \in Answers /\ answer' = [answer EXCEPT ![a] = status]
              /\ \A c \in DOMAIN charges : charges[c].of # AttemptId(a)
  PROVE  TreasuryInv'
<1> DEFINE new == Len(charges) + 1
           row == [of |-> o, status |-> status]
<1>1. Sequenced
  BY DEF TreasuryInv
<1>2. o \in Id /\ row \in ChargeRow /\ o \in InvoiceIds \cup AttemptIds
  BY <1>1, IdParts, Indices DEF ChargeRow, InvoiceIds, AttemptIds
<1>3. /\ charges' \in Seq(ChargeRow) /\ new \in Nat \ {0} /\ new \notin DOMAIN charges
      /\ DOMAIN charges' = DOMAIN charges \cup {new} /\ Len(charges') = Len(charges) + 1
      /\ charges'[new] = row /\ \A c \in DOMAIN charges : charges'[c] = charges[c]
  <2> HIDE DEF row
  <2> QED  BY <1>1, <1>2, Appended DEF Sequenced, row
<1>4. row.of = o /\ row.status = status
  OBVIOUS
<1>5. new \in 1 .. MaxCharges
  BY <1>1, <1>3, TopUpAssumption, LenProperties DEF Sequenced
<1> HIDE DEF row, new
<1>6. /\ answer' \in Seq(Answers) /\ Len(answer') = Len(answer)
      /\ \A a \in DOMAIN attempts :
           \/ answer'[a] = answer[a]
           \/ o = AttemptId(a) /\ answer'[a] = status /\ answer[a] = "asked"
  <2>1. CASE answer' = answer
    BY <1>1, <2>1 DEF Sequenced
  <2>2. ASSUME NEW a \in DOMAIN attempts, o = AttemptId(a), answer[a] = "asked",
               status \in Answers, answer' = [answer EXCEPT ![a] = status]
        PROVE  <1>6
    BY <1>1, <2>2, Indices, Overwrite DEF Sequenced
  <2> QED  BY <2>1, <2>2
<1>7. Sequenced'
  <2>1. Len(charges) \in Nat
    BY <1>1, LenProperties DEF Sequenced
  <2>2. Len(charges') <= MaxCharges
    BY <1>3, <2>1, TopUpAssumption
  <2> QED  BY <1>1, <1>3, <1>6, <2>2 DEF Sequenced
<1>8. Counters'
  BY DEF TreasuryInv, Counters, breakerVars
<1>9. /\ InvoiceIds' = InvoiceIds /\ ChargeIds \subseteq ChargeIds'
      /\ AttemptIds' = AttemptIds /\ Rows' = Rows
  BY <1>3 DEF InvoiceIds, ChargeIds, AttemptIds, Rows
<1>10. Linked'
  <2>1. \A c \in DOMAIN charges' : charges'[c].of \in InvoiceIds' \cup AttemptIds'
    BY <1>2, <1>3, <1>4, <1>9 DEF TreasuryInv, Linked
  <2> QED  BY <1>3, <1>9, <2>1 DEF TreasuryInv, Linked
<1>11. Invoiced'
  BY <1>3 DEF TreasuryInv, Invoiced
<1>12. /\ \A k \in Rows : From(k)' = From(k) /\ Payable(k)' = Payable(k)
       /\ \A s \in sweeping : Origin(s.id)' = Origin(s.id)
  <2>1. ASSUME NEW id \in InvoiceIds \cup ChargeIds \cup {NoId}
        PROVE  Origin(id)' = Origin(id)
    BY <1>1, <1>3, OriginKept
  <2>2. ASSUME NEW k \in Rows
        PROVE  From(k)' = From(k)
    <3>1. Origin(payments[k].moyasar)' = Origin(payments[k].moyasar)
      <4>1. payments[k].moyasar[1] = "charge" => payments[k].moyasar[2] \in DOMAIN charges
        <5>1. payments[k].moyasar \in InvoiceIds \cup ChargeIds \cup {NoId}
          BY DEF TreasuryInv, Linked
        <5> QED  BY <1>1, <5>1, IdParts, Indices DEF InvoiceIds, ChargeIds
      <4> QED  BY <1>3, <4>1 DEF Origin
    <3> QED  BY <3>1 DEF From
  <2> QED  BY <2>1, <2>2 DEF TreasuryInv, Linked, Payable
<1>13. OneRow'
  BY <1>9, <1>12 DEF TreasuryInv, Once, OneRow
<1>14. credits[new] = 0
  BY <1>3, <1>5 DEF TreasuryInv, Once, Credited
<1>15. Unlisted'
  BY <1>3, <1>9, <1>12, <1>14 DEF TreasuryInv, Once, Unlisted
<1>16. HeldBySweep'
  BY <1>9, <1>12 DEF TreasuryInv, Once, HeldBySweep
<1>17. o \notin InvoiceIds =>
         /\ \A c \in DOMAIN charges : charges[c].of # o
         /\ \A k \in Rows : From(k) # o
  <2> SUFFICES ASSUME o \notin InvoiceIds
               PROVE  /\ \A c \in DOMAIN charges : charges[c].of # o
                      /\ \A k \in Rows : From(k) # o
    OBVIOUS
  <2>1. \A c \in DOMAIN charges : charges[c].of # o
    OBVIOUS
  <2>2. ASSUME NEW k \in Rows, From(k) = o
        PROVE  FALSE
    <3>1. payments[k].moyasar \in InvoiceIds \cup ChargeIds \cup {NoId}
      BY DEF TreasuryInv, Linked
    <3>2. payments[k].moyasar \in ChargeIds
      BY <1>1, <1>2, <2>2, <3>1, IdParts, Indices DEF From, Origin, InvoiceIds, AttemptIds
    <3> QED  BY <1>1, <2>1, <2>2, <3>2, IdParts, Indices DEF From, Origin, ChargeIds
  <2> QED  BY <2>1, <2>2
<1>18. o[1] = "attempt" => o \notin InvoiceIds
  BY <1>1, IdParts, Indices DEF InvoiceIds
<1>19. Recharged'
  <2>1. \A c, d \in DOMAIN charges' :
          charges'[c].of = charges'[d].of /\ charges'[c].of[1] = "attempt" => c = d
    BY <1>3, <1>4, <1>17, <1>18 DEF TreasuryInv, Once, Recharged
  <2>2. ASSUME NEW a \in DOMAIN attempts, answer'[a] \in {"initiated", "paid", "failed"}
        PROVE  \E c \in DOMAIN charges' : charges'[c].of = AttemptId(a)
    BY <1>3, <1>4, <1>6, <2>2 DEF TreasuryInv, Once, Recharged
  <2>3. ASSUME NEW a \in DOMAIN attempts, NEW c \in DOMAIN charges',
               answer'[a] # "none", charges'[c].of = AttemptId(a)
        PROVE  /\ answer'[a] = "paid" => charges'[c].status \in Taken
               /\ c \notin guessed' =>
                    /\ credits'[c] = 0
                    /\ \A k \in Rows' : From(k)' # AttemptId(a)
    <3>1. CASE c = new
      <4>1. o = AttemptId(a) /\ o \notin InvoiceIds
        BY <1>1, <1>3, <1>4, <2>3, <3>1, IdParts, Indices DEF InvoiceIds
      <4>2. answer'[a] = status
        BY <1>1, <4>1, IdParts, Indices DEF Answers
      <4> QED  BY <1>3, <1>4, <1>9, <1>12, <1>14, <1>17, <3>1, <4>1, <4>2 DEF Taken
    <3>2. CASE c # new
      <4>1. c \in DOMAIN charges /\ charges[c].of = AttemptId(a)
        BY <1>3, <2>3, <3>2
      <4>2. answer'[a] = answer[a]
        <5>1. o # AttemptId(a)
          <6>1. AttemptId(a) \notin InvoiceIds
            BY <1>1, IdParts, Indices DEF InvoiceIds
          <6> QED  BY <1>17, <4>1, <6>1
        <5> QED  BY <1>6, <5>1
      <4> QED  BY <1>3, <1>9, <1>12, <2>3, <4>1, <4>2 DEF TreasuryInv, Once, Recharged
    <3> QED  BY <3>1, <3>2
  <2> QED  BY <2>1, <2>2, <2>3 DEF Recharged
<1>20. Credited'
  <2>1. \A c \in 1 .. MaxCharges : c \notin DOMAIN charges' => credits'[c] = 0
    BY <1>3 DEF TreasuryInv, Once, Credited
  <2>2. ASSUME NEW c \in DOMAIN charges' \ guessed'
        PROVE  /\ credits'[c] <= 1
               /\ credits'[c] = 1 =>
                    /\ \A j \in Rows' : From(j)' = charges'[c].of => ~ Payable(j)'
                    /\ \A s \in sweeping' :
                         Origin(s.id)' = charges'[c].of => ~ Payable(s.row)'
    <3>1. CASE c = new
      BY <1>14, <3>1
    <3>2. CASE c # new
      BY <1>3, <1>9, <1>12, <3>2 DEF TreasuryInv, Once, Credited, Linked
    <3> QED  BY <3>1, <3>2
  <2> QED  BY <2>1, <2>2 DEF Credited
<1>21. Counted'
  <2>1. PaidAttemptsAreCounted'
    BY DEF TreasuryInv, Counted, PaidAttemptsAreCounted
  <2> QED  BY <1>3, <1>6, <2>1 DEF TreasuryInv, Counted, PausedAfterFailures, breakerVars
<1> QED  BY <1>7, <1>8, <1>10, <1>11, <1>13, <1>15, <1>16, <1>19, <1>20, <1>21
         DEF TreasuryInv, Once

\* The renter tries a card; a recharge is charged.
LEMMA ChargesKeep ==
  ASSUME TreasuryInv,
         \/ \E n \in DOMAIN invoices : TryCard(n) /\ UNCHANGED autoVars
         \/ \E a \in DOMAIN attempts, status \in {"initiated", "paid", "failed"} :
              GatewayCharges(a, status)
  PROVE  TreasuryInv'
<1>1. ASSUME NEW n \in DOMAIN invoices, TryCard(n), UNCHANGED autoVars
      PROVE  TreasuryInv'
  <2>1. InvoiceId(n) \in InvoiceIds /\ "initiated" \in ChargeStatus
    BY DEF InvoiceIds, ChargeStatus
  <2>2. UNCHANGED <<invoices, payments, opening, sweeping, refunding, balance, credits,
                    guessed, attempts, used, breakerVars, locked, restarts, answer>>
    BY <1>1 DEF TryCard, autoVars, breakerVars
  <2> QED  BY <1>1, <2>1, <2>2, ChargeAdded DEF TryCard
<1>2. ASSUME NEW a \in DOMAIN attempts, NEW status \in {"initiated", "paid", "failed"},
             GatewayCharges(a, status)
      PROVE  TreasuryInv'
  <2>1. status \in ChargeStatus /\ status \in Answers
    BY DEF ChargeStatus, Answers
  <2> QED  BY <1>2, <2>1, ChargeAdded DEF GatewayCharges
<1> QED  BY <1>1, <1>2

\* Charges settle and are refunded; an invoice expires or is opened.
LEMMA GatewayKeeps ==
  ASSUME TreasuryInv, UNCHANGED autoVars,
         \/ \E c \in DOMAIN charges : \/ RefundCharge(c)
                                    \/ \E status \in {"paid", "failed"} : SettleCharge(c, status)
         \/ \E n \in DOMAIN invoices : ExpireInvoice(n)
  PROVE  TreasuryInv'
<1>1. UNCHANGED <<payments, opening, sweeping, refunding, balance, credits, guessed>>
  BY DEF RefundCharge, SettleCharge, ExpireInvoice
<1>2. Sequenced
  BY DEF TreasuryInv
<1>3. /\ charges' \in Seq(ChargeRow) /\ Len(charges') = Len(charges)
      /\ DOMAIN charges' = DOMAIN charges
      /\ \A c \in DOMAIN charges :
           /\ charges'[c].of = charges[c].of
           /\ charges[c].status \in Taken => charges'[c].status \in Taken
  <2>1. CASE charges' = charges
    BY <1>2, <2>1 DEF Sequenced
  <2>2. ASSUME NEW c \in DOMAIN charges, NEW status \in ChargeStatus,
               charges' = [charges EXCEPT ![c].status = status],
               charges[c].status \in Taken => status \in Taken
        PROVE  <1>3
    <3> DEFINE row == [charges[c] EXCEPT !.status = status]
    <3>1. charges[c] \in ChargeRow
      BY <1>2, Indices
    <3>2. row \in ChargeRow /\ row.of = charges[c].of /\ row.status = status
      BY <3>1 DEF ChargeRow
    <3>3. charges' = [charges EXCEPT ![c] = row]
      BY <2>2
    <3> HIDE DEF row
    <3>4. charges \in Seq(ChargeRow) /\ Len(charges) \in Nat
      BY <1>2, LenProperties DEF Sequenced
    <3>5. /\ charges' \in Seq(ChargeRow) /\ Len(charges') = Len(charges)
          /\ DOMAIN charges' = DOMAIN charges /\ charges'[c] = row
          /\ \A d \in DOMAIN charges \ {c} : charges'[d] = charges[d]
      BY <3>2, <3>3, <3>4, Overwrite
    <3> QED  BY <2>2, <3>2, <3>5
  <2>3. ASSUME NEW c \in DOMAIN charges, RefundCharge(c)
        PROVE  <1>3
    BY <2>2, <2>3 DEF RefundCharge, Taken, ChargeStatus
  <2>4. ASSUME NEW c \in DOMAIN charges, NEW status \in {"paid", "failed"},
               SettleCharge(c, status)
        PROVE  <1>3
    BY <2>2, <2>4 DEF SettleCharge, Taken, ChargeStatus
  <2> QED  BY <2>1, <2>3, <2>4 DEF ExpireInvoice
<1>4. /\ invoices' \in Seq({"open", "paid", "expired"})
      /\ DOMAIN invoices' = DOMAIN invoices
      /\ \A n \in DOMAIN invoices : invoices'[n] = "paid" =>
           \/ invoices[n] = "paid"
           \/ \E c \in DOMAIN charges :
                charges[c].of = InvoiceId(n) /\ charges'[c].status \in Taken
  <2>1. CASE invoices' = invoices
    BY <1>2, <2>1 DEF Sequenced
  <2>2. ASSUME NEW n \in DOMAIN invoices, NEW status \in {"paid", "expired"},
               invoices' = [invoices EXCEPT ![n] = status],
               status = "paid" => \E c \in DOMAIN charges :
                 charges[c].of = InvoiceId(n) /\ charges'[c].status \in Taken
        PROVE  <1>4
    BY <1>2, <2>2, Overwrite DEF Sequenced
  <2>3. ASSUME NEW n \in DOMAIN invoices, ExpireInvoice(n)
        PROVE  <1>4
    BY <2>2, <2>3 DEF ExpireInvoice
  <2>4. ASSUME NEW c \in DOMAIN charges, NEW status \in {"paid", "failed"},
               SettleCharge(c, status)
        PROVE  <1>4
    <3>1. CASE ~ (charges[c].of[1] = "invoice" /\ status = "paid")
      BY <2>1, <2>4, <3>1 DEF SettleCharge
    <3>2. CASE charges[c].of[1] = "invoice" /\ status = "paid"
      <4> DEFINE n == charges[c].of[2]
      <4>1. n \in DOMAIN invoices /\ charges[c].of = InvoiceId(n)
        BY <1>2, <3>2, IdParts, Indices DEF TreasuryInv, Linked, InvoiceIds, AttemptIds
      <4>2. invoices' = [invoices EXCEPT ![n] = "paid"]
        BY <2>4, <3>2 DEF SettleCharge
      <4>3. charges'[c].status \in Taken
        <5>1. charges[c] \in ChargeRow /\ charges' = [charges EXCEPT ![c].status = "paid"]
          BY <1>2, <2>4, <3>2, Indices DEF SettleCharge
        <5> QED  BY <5>1 DEF ChargeRow, Taken
      <4> HIDE DEF n
      <4> QED  BY <2>2, <4>1, <4>2, <4>3
    <3> QED  BY <3>1, <3>2
  <2> QED  BY <2>1, <2>3, <2>4 DEF RefundCharge
<1>5. GatewayKept
  BY <1>3, <1>4 DEF GatewayKept
<1>6. Sequenced' /\ Counters'
  BY <1>1, <1>2, <1>3, <1>4 DEF Sequenced, Counters, TreasuryInv, autoVars, breakerVars
<1>7. Invoiced'
  BY <1>3, <1>4 DEF Invoiced, TreasuryInv
<1>8. Counted'
  <2>1. \A c \in 1 .. MaxCharges : credits'[c] \in Nat /\ credits'[c] >= credits[c]
    BY <1>1 DEF TreasuryInv, Counters
  <2> QED  BY <1>3, <2>1, CountKept DEF TreasuryInv, autoVars, breakerVars
<1>9. RowsKept
  <2>1. ASSUME NEW k \in Rows
        PROVE  payments[k].moyasar \in InvoiceIds \cup ChargeIds \cup {NoId} /\ From(k)' = From(k)
    <3>1. payments[k].moyasar \in InvoiceIds \cup ChargeIds \cup {NoId}
      BY DEF TreasuryInv, Linked
    <3>2. payments[k].moyasar[1] = "charge" => payments[k].moyasar[2] \in DOMAIN charges
      BY <1>2, <3>1, IdParts, Indices DEF InvoiceIds, ChargeIds
    <3> QED  BY <1>1, <1>3, <3>1, <3>2 DEF From, Origin
  <2> QED  BY <1>1, <2>1 DEF RowsKept, Rows, Payable
<1>10. HandlersEnd
  BY <1>1 DEF HandlersEnd, autoVars, breakerVars, TreasuryInv, Linked
<1>11. OnlyGuessed
  BY <1>1 DEF OnlyGuessed
<1> QED  BY <1>5, <1>6, <1>7, <1>8, <1>9, <1>10, <1>11, QuietStep

\* A new invoice has no charge, no row and no place in the sweep.
LEMMA OpenInvoiceKeeps ==
  ASSUME TreasuryInv, UNCHANGED autoVars, OpenInvoice
  PROVE  TreasuryInv'
<1> DEFINE new == Len(invoices) + 1
<1>1. Sequenced
  BY DEF TreasuryInv
<1>2. /\ invoices' \in Seq({"open", "paid", "expired"}) /\ new \in Nat \ {0}
      /\ new \notin DOMAIN invoices /\ DOMAIN invoices' = DOMAIN invoices \cup {new}
      /\ invoices'[new] = "open" /\ \A n \in DOMAIN invoices : invoices'[n] = invoices[n]
  BY <1>1, Appended DEF Sequenced, OpenInvoice
<1>3. opening' = opening \cup {new}
  BY DEF OpenInvoice
<1> HIDE DEF new
<1>4. UNCHANGED <<charges, payments, sweeping, refunding, balance, credits, guessed>>
  BY DEF OpenInvoice
<1>5. Sequenced' /\ Counters'
  BY <1>1, <1>2, <1>4 DEF Sequenced, Counters, TreasuryInv, autoVars, breakerVars
<1>6. Invoiced'
  BY <1>2, <1>4 DEF Invoiced, TreasuryInv
<1>7. Counted'
  <2>1. \A c \in 1 .. MaxCharges : credits'[c] \in Nat /\ credits'[c] >= credits[c]
    BY <1>4 DEF TreasuryInv, Counters
  <2> QED  BY <1>1, <1>4, <2>1, CountKept DEF TreasuryInv, autoVars, breakerVars
<1>8. /\ InvoiceIds \subseteq InvoiceIds' /\ ChargeIds' = ChargeIds
      /\ AttemptIds' = AttemptIds /\ Rows' = Rows
      /\ InvoiceId(new) \notin InvoiceIds \cup AttemptIds \cup {NoId}
  BY <1>1, <1>2, <1>4, IdParts, Indices DEF InvoiceIds, ChargeIds, AttemptIds, Rows, autoVars, breakerVars
<1>9. Linked'
  <2>1. opening' \subseteq DOMAIN invoices'
    BY <1>2, <1>3 DEF TreasuryInv, Linked
  <2> QED  BY <1>4, <1>8, <2>1 DEF TreasuryInv, Linked
<1>10. /\ \A k \in Rows : From(k)' = From(k) /\ Payable(k)' = Payable(k)
       /\ \A s \in sweeping : Origin(s.id)' = Origin(s.id)
  BY <1>4 DEF From, Origin, Payable
<1>11. /\ \A k \in Rows : From(k) # InvoiceId(new)
       /\ \A s \in sweeping : Origin(s.id) # InvoiceId(new)
       /\ \A c \in DOMAIN charges : charges[c].of # InvoiceId(new)
  <2>1. \A k \in Rows : From(k) \in InvoiceIds \cup AttemptIds \cup {NoId}
    BY <1>1, OriginKinds DEF TreasuryInv, Linked, From
  <2>2. \A s \in sweeping : Origin(s.id) \in InvoiceIds
    BY DEF TreasuryInv, Once, HeldBySweep
  <2> QED  BY <1>8, <2>1, <2>2 DEF TreasuryInv, Linked
<1>12. OneRow'
  BY <1>4, <1>8, <1>10 DEF TreasuryInv, Once, OneRow
<1>13. Unlisted'
  BY <1>3, <1>4, <1>8, <1>10, <1>11 DEF TreasuryInv, Once, Unlisted
<1>14. HeldBySweep'
  BY <1>4, <1>8, <1>10 DEF TreasuryInv, Once, HeldBySweep
<1>15. Recharged'
  BY <1>4, <1>8, <1>10 DEF TreasuryInv, Once, Recharged, autoVars, breakerVars
<1>16. Credited'
  <2>1. \A s \in sweeping : Payable(s.row)' = Payable(s.row)
    BY <1>10 DEF TreasuryInv, Linked
  <2> QED  BY <1>4, <1>8, <1>10, <2>1 DEF TreasuryInv, Once, Credited
<1> QED  BY <1>5, <1>6, <1>7, <1>9, <1>12, <1>13, <1>14, <1>15, <1>16 DEF TreasuryInv, Once
-----------------------------------------------------------------------------
(* New rows *)

\* A new row is the last one.
LEMMA NewRowWrites ==
  ASSUME Sequenced, NEW source \in Sources, NEW id \in Id, NEW status \in RowStatus,
         payments' = Append(payments, NewRow(source, id, status))
  PROVE  /\ payments' \in Seq(PaymentRow)
         /\ Len(payments) + 1 \in Nat \ {0} /\ Len(payments) + 1 \notin Rows
         /\ Rows' = Rows \cup {Len(payments) + 1}
         /\ payments'[Len(payments) + 1].source = source
         /\ payments'[Len(payments) + 1].moyasar = id
         /\ payments'[Len(payments) + 1].status = status
         /\ \A k \in Rows : payments'[k] = payments[k]
<1> DEFINE row == NewRow(source, id, status)
<1>1. /\ row \in PaymentRow /\ row.source = source /\ row.moyasar = id
      /\ row.status = status
  BY DEF NewRow, PaymentRow, RequestStatus
<1> HIDE DEF row
<1>2. payments' = Append(payments, row) /\ payments \in Seq(PaymentRow)
  BY DEF row, Sequenced
<1>3. /\ payments' \in Seq(PaymentRow)
      /\ Len(payments) + 1 \in Nat \ {0} /\ Len(payments) + 1 \notin Rows
      /\ Rows' = Rows \cup {Len(payments) + 1} /\ payments'[Len(payments) + 1] = row
      /\ \A k \in Rows : payments'[k] = payments[k]
  BY <1>1, <1>2, Appended DEF Rows
<1> QED  BY <1>1, <1>3

\* The first row of an origin whose charges are credited with it or not at all
LEMMA RowAdded ==
  ASSUME TreasuryInv, UNCHANGED <<gateway, sweeping, refunding, guessed>>,
         NEW source \in Sources, NEW status \in RowStatus,
         NEW id \in InvoiceIds \cup ChargeIds \cup {NoId},
         payments' = Append(payments, NewRow(source, id, status)),
         opening' \subseteq opening,
         Origin(id) # NoId => \A k \in Rows : From(k) # Origin(id),
         source = "card" => Origin(id) \in InvoiceIds,
         \A n \in opening' : Origin(id) # InvoiceId(n),
         \A s \in sweeping : Origin(s.id) # Origin(id),
         DOMAIN attempts' = DOMAIN attempts,
         \A a \in DOMAIN attempts : answer'[a] \in {answer[a], "none"},
         \A a \in DOMAIN attempts : answer'[a] # "none" => Origin(id) # AttemptId(a),
         \A c \in 1 .. MaxCharges : credits'[c] # credits[c] =>
           /\ c \in DOMAIN charges /\ charges[c].of = Origin(id)
           /\ Origin(id) \in AttemptIds
           /\ status = "paid" /\ credits'[c] = credits[c] + 1,
         \A c \in DOMAIN charges \ guessed : charges[c].of = Origin(id) => credits[c] = 0,
         Sequenced', Counters', Counted'
  PROVE  TreasuryInv'
<1> DEFINE o == Origin(id)
<1>1. Sequenced /\ id \in Id
  BY IdParts, Indices DEF TreasuryInv, InvoiceIds, ChargeIds
<1>2. PICK new : /\ new \notin Rows /\ Rows' = Rows \cup {new}
                  /\ payments'[new].source = source /\ payments'[new].moyasar = id
                  /\ payments'[new].status = status
                  /\ \A k \in Rows : payments'[k] = payments[k]
  <2>1. payments' = Append(payments, NewRow(source, id, status))
    OBVIOUS
  <2>2. Sequenced /\ id \in Id /\ source \in Sources /\ status \in RowStatus
    BY <1>1
  <2>3. /\ Len(payments) + 1 \notin Rows /\ Rows' = Rows \cup {Len(payments) + 1}
        /\ payments'[Len(payments) + 1].source = source
        /\ payments'[Len(payments) + 1].moyasar = id
        /\ payments'[Len(payments) + 1].status = status
        /\ \A k \in Rows : payments'[k] = payments[k]
    BY ONLY <2>1, <2>2, NewRowWrites
  <2> QED  BY <2>3
<1>3. charges' = charges /\ invoices' = invoices
  BY DEF gateway
<1>4. /\ From(new)' = o
      /\ \A k \in Rows : From(k)' = From(k) /\ Payable(k)' = Payable(k)
      /\ \A s \in sweeping : Origin(s.id)' = Origin(s.id)
  BY <1>2, <1>3 DEF From, Origin, Payable
<1>5. /\ InvoiceIds' = InvoiceIds /\ ChargeIds' = ChargeIds /\ AttemptIds' = AttemptIds
  BY <1>3 DEF InvoiceIds, ChargeIds, AttemptIds
<1>6. \A c \in DOMAIN charges :
        /\ c \in 1 .. MaxCharges /\ credits[c] \in Nat
        /\ charges[c].of # o => credits'[c] = credits[c]
  BY <1>1, Indices DEF TreasuryInv, Counters
<1> HIDE DEF o
<1>7. Linked'
  <2>1. \A c \in DOMAIN charges' : charges'[c].of \in InvoiceIds' \cup AttemptIds'
    BY <1>3, <1>5 DEF TreasuryInv, Linked
  <2>2. \A k \in Rows' : payments'[k].moyasar \in InvoiceIds' \cup ChargeIds' \cup {NoId}
    BY <1>2, <1>5 DEF TreasuryInv, Linked
  <2> QED  BY <1>2, <1>3, <1>5, <2>1, <2>2 DEF TreasuryInv, Linked
<1>8. Invoiced'
  BY <1>3 DEF TreasuryInv, Invoiced
<1>9. OneRow'
  <2>1. o # NoId => \A k \in Rows : From(k) # o
    BY DEF o
  <2>2. source = "card" => o \in InvoiceIds
    BY DEF o
  <2>3. ASSUME NEW j \in Rows', NEW k \in Rows', From(j)' = From(k)', From(k)' # NoId
        PROVE  j = k
    <3>1. CASE j \in Rows /\ k \in Rows
      BY <1>4, <2>3, <3>1 DEF TreasuryInv, Once, OneRow
    <3>2. CASE j = new /\ k \in Rows
      BY <1>4, <2>1, <2>3, <3>2
    <3>3. CASE j \in Rows /\ k = new
      BY <1>4, <2>1, <2>3, <3>3
    <3> QED  BY <1>2, <3>1, <3>2, <3>3
  <2>4. ASSUME NEW k \in Rows', payments'[k].source = "card", Payable(k)'
        PROVE  From(k)' \in InvoiceIds'
    <3>1. CASE k = new
      BY <1>2, <1>4, <1>5, <2>2, <2>4, <3>1
    <3>2. CASE k \in Rows
      BY <1>2, <1>4, <1>5, <2>4, <3>2 DEF TreasuryInv, Once, OneRow
    <3> QED  BY <1>2, <3>1, <3>2
  <2> QED  BY <2>3, <2>4 DEF OneRow
<1>10. Unlisted'
  <2>1. \A n \in opening' : o # InvoiceId(n)
    BY DEF o
  <2>2. ASSUME NEW n \in opening', NEW c \in DOMAIN charges, charges[c].of = InvoiceId(n)
        PROVE  credits'[c] = 0
    BY <1>6, <2>1, <2>2 DEF TreasuryInv, Once, Unlisted
  <2> QED  BY <1>2, <1>3, <1>4, <2>1, <2>2 DEF TreasuryInv, Once, Unlisted
<1>11. HeldBySweep'
  <2>1. \A s \in sweeping : Origin(s.id) # o
    BY DEF o
  <2> QED  BY <1>2, <1>4, <1>5, <2>1 DEF TreasuryInv, Once, HeldBySweep
<1>12. Recharged'
  <2>1. \A a \in DOMAIN attempts : answer'[a] # "none" => o # AttemptId(a) /\ answer'[a] = answer[a]
    BY DEF o
  <2>2. ASSUME NEW a \in DOMAIN attempts, NEW c \in DOMAIN charges,
               answer'[a] # "none", charges[c].of = AttemptId(a)
        PROVE  /\ answer'[a] = "paid" => charges[c].status \in Taken
               /\ c \notin guessed =>
                    /\ credits'[c] = 0
                    /\ \A k \in Rows' : From(k)' # AttemptId(a)
    BY <1>2, <1>4, <1>6, <2>1, <2>2 DEF TreasuryInv, Once, Recharged
  <2> QED  BY <1>3, <2>1, <2>2 DEF TreasuryInv, Once, Recharged
<1>13. Credited'
  <2>1. \A c \in 1 .. MaxCharges : c \notin DOMAIN charges' => credits'[c] = 0
    BY <1>3 DEF TreasuryInv, Once, Credited
  <2>2. ASSUME NEW c \in DOMAIN charges \ guessed
        PROVE  /\ credits'[c] <= 1
               /\ credits'[c] = 1 =>
                    /\ \A k \in Rows' : From(k)' = charges[c].of => ~ Payable(k)'
                    /\ \A s \in sweeping :
                         Origin(s.id)' = charges[c].of => ~ Payable(s.row)'
    <3>1. CASE charges[c].of = o
      <4>1. credits[c] = 0
        BY <3>1 DEF o
      <4>2. credits'[c] = 0 \/ (credits'[c] = 1 /\ status = "paid" /\ o \in AttemptIds)
        <5>1. c \in 1 .. MaxCharges
          BY <1>6
        <5>2. credits'[c] # credits[c] =>
                status = "paid" /\ o \in AttemptIds /\ credits'[c] = credits[c] + 1
          BY <5>1 DEF o
        <5> QED  BY <4>1, <5>2
      <4>3. CASE credits'[c] = 0
        BY <4>3
      <4>4. CASE credits'[c] = 1 /\ status = "paid" /\ o \in AttemptIds
        <5>1. o # NoId
          BY <1>1, <4>4, IdParts, Indices DEF AttemptIds
        <5>2. ~ Payable(new)'
          BY <1>2, <4>4 DEF Payable
        <5>3. \A k \in Rows : From(k) # o
          BY <5>1 DEF o
        <5>4. \A s \in sweeping : Origin(s.id)' # o
          BY <1>4 DEF o
        <5> QED  BY <1>2, <1>4, <3>1, <4>4, <5>2, <5>3, <5>4
      <4> QED  BY <4>2, <4>3, <4>4
    <3>2. CASE charges[c].of # o
      <4>1. credits'[c] = credits[c] /\ From(new)' # charges[c].of
        BY <1>4, <1>6, <3>2
      <4>2. \A s \in sweeping : Payable(s.row)' = Payable(s.row)
        BY <1>4 DEF TreasuryInv, Linked
      <4> QED  BY <1>2, <1>4, <4>1, <4>2 DEF TreasuryInv, Once, Credited
    <3> QED  BY <3>1, <3>2
  <2> QED  BY <1>3, <2>1, <2>2 DEF Credited
<1> QED  BY <1>7, <1>8, <1>9, <1>10, <1>11, <1>12, <1>13 DEF TreasuryInv, Once

\* Transfers are announced, and an opened invoice gets its row.
LEMMA NewRowsKeep ==
  ASSUME TreasuryInv, UNCHANGED autoVars,
         AnnounceTransfer \/ \E n \in DOMAIN invoices : InsertTopup(n)
  PROVE  TreasuryInv'
<1>1. UNCHANGED <<gateway, sweeping, refunding, balance, credits, guessed>>
  BY DEF AnnounceTransfer, InsertTopup
<1>2. Sequenced
  BY DEF TreasuryInv
<1>3. ASSUME NEW source \in Sources, NEW id \in Id, NEW status \in RowStatus,
             payments' = Append(payments, NewRow(source, id, status))
      PROVE  Sequenced' /\ Counters' /\ Counted'
  <2>1. payments' \in Seq(PaymentRow)
    BY <1>2, <1>3, NewRowWrites
  <2>2. /\ balance' \in Nat /\ credits' \in [1 .. MaxCharges -> Nat]
        /\ \A c \in 1 .. MaxCharges : credits'[c] >= credits[c]
    BY <1>1 DEF TreasuryInv, Counters
  <2>3. UNCHANGED <<gateway, autoVars>>
    BY <1>1
  <2> QED  BY <2>1, <2>2, <2>3, OnlyRows
<1>4. /\ DOMAIN attempts' = DOMAIN attempts
      /\ \A a \in DOMAIN attempts : answer'[a] = answer[a]
      /\ \A c \in 1 .. MaxCharges : credits'[c] = credits[c]
  BY <1>1 DEF autoVars, breakerVars
<1>5. CASE AnnounceTransfer
  <2>1. /\ Origin(NoId) = NoId /\ NoId \in Id
        /\ \A n \in DOMAIN invoices : NoId # InvoiceId(n)
        /\ \A a \in DOMAIN attempts : NoId # AttemptId(a)
    BY <1>2, IdParts, Indices DEF Origin
  <2>2. /\ opening' \subseteq opening /\ opening \subseteq DOMAIN invoices
        /\ payments' = Append(payments, NewRow("transfer", NoId, "pending"))
    BY <1>5 DEF AnnounceTransfer, TreasuryInv, Linked
  <2>3. \A s \in sweeping : Origin(s.id) # NoId
    BY <2>1 DEF TreasuryInv, Once, HeldBySweep, InvoiceIds
  <2>4. \A c \in DOMAIN charges : charges[c].of # NoId
    BY <2>1 DEF TreasuryInv, Linked, InvoiceIds, AttemptIds
  <2>5. "transfer" \in Sources /\ "pending" \in RowStatus
    BY DEF Sources, RowStatus
  <2>6. Sequenced' /\ Counters' /\ Counted'
    BY <1>3, <2>1, <2>2, <2>5
  <2> QED  BY <1>1, <1>4, <2>1, <2>2, <2>3, <2>4, <2>5, <2>6, RowAdded
<1>6. ASSUME NEW n \in DOMAIN invoices, InsertTopup(n)
      PROVE  TreasuryInv'
  <2>1. /\ InvoiceId(n) \in InvoiceIds /\ InvoiceId(n) \in Id
        /\ Origin(InvoiceId(n)) = InvoiceId(n)
        /\ \A m \in DOMAIN invoices : m # n => InvoiceId(m) # InvoiceId(n)
        /\ \A a \in DOMAIN attempts : InvoiceId(n) # AttemptId(a)
    BY <1>2, IdParts, Indices DEF Origin, InvoiceIds
  <2>2. /\ n \in opening /\ opening' = opening \ {n} /\ opening \subseteq DOMAIN invoices
        /\ payments' = Append(payments, NewRow("card", InvoiceId(n), "pending"))
    BY <1>6 DEF InsertTopup, TreasuryInv, Linked
  <2>3. /\ \A k \in Rows : From(k) # InvoiceId(n)
        /\ \A s \in sweeping : Origin(s.id) # InvoiceId(n)
        /\ \A c \in DOMAIN charges : charges[c].of = InvoiceId(n) => credits[c] = 0
    BY <2>2 DEF TreasuryInv, Once, Unlisted
  <2>4. \A m \in opening' : InvoiceId(n) # InvoiceId(m)
    BY <2>1, <2>2
  <2>5. "card" \in Sources /\ "pending" \in RowStatus
    BY DEF Sources, RowStatus
  <2>6. Sequenced' /\ Counters' /\ Counted'
    BY <1>3, <2>1, <2>2, <2>5
  <2> QED  BY <1>1, <1>4, <2>1, <2>2, <2>3, <2>4, <2>5, <2>6, RowAdded
<1> QED  BY <1>5, <1>6
-----------------------------------------------------------------------------
(* Recharges *)

\* A debit and the end of a pause may begin one recharge, of which nothing is known.
LEMMA TriggerWrites ==
  ASSUME Sequenced, NEW funds, NEW onHold, MaybeTrigger(funds, onHold)
  PROVE  /\ attempts' \in Seq(AttemptRow) /\ answer' \in Seq(Answers)
         /\ Len(answer') = Len(attempts')
         /\ DOMAIN attempts \subseteq DOMAIN attempts'
         /\ \A a \in DOMAIN attempts : attempts'[a] = attempts[a] /\ answer'[a] = answer[a]
         /\ \A a \in DOMAIN attempts' \ DOMAIN attempts :
              /\ attempts'[a] = [status |-> "initiated", charge |-> 0]
              /\ answer'[a] = "asked"
         /\ locked' = locked \/ locked' = TRUE
<1>1. CASE UNCHANGED <<attempts, answer, locked>>
  BY <1>1 DEF Sequenced
<1>2. CASE Begin
  <2> DEFINE row == [status |-> "initiated", charge |-> 0]
  <2>1. row \in AttemptRow /\ "asked" \in Answers
    BY TopUpAssumption DEF AttemptRow, Answers
  <2> HIDE DEF row
  <2>2. /\ attempts \in Seq(AttemptRow) /\ answer \in Seq(Answers)
        /\ Len(answer) = Len(attempts) /\ DOMAIN answer = DOMAIN attempts
    BY Indices DEF Sequenced
  <2>3. attempts' = Append(attempts, row) /\ answer' = Append(answer, "asked") /\ locked' = TRUE
    BY <1>2 DEF Begin, row
  <2>4. /\ attempts' \in Seq(AttemptRow) /\ Len(attempts') = Len(attempts) + 1
        /\ DOMAIN attempts' = DOMAIN attempts \cup {Len(attempts) + 1}
        /\ attempts'[Len(attempts) + 1] = row
        /\ \A a \in DOMAIN attempts : attempts'[a] = attempts[a]
    BY ONLY <2>1, <2>2, <2>3, Appended
  <2>5. /\ answer' \in Seq(Answers) /\ Len(answer') = Len(attempts) + 1
        /\ answer'[Len(attempts) + 1] = "asked"
        /\ \A a \in DOMAIN attempts : answer'[a] = answer[a]
    BY ONLY <2>1, <2>2, <2>3, Appended
  <2> QED  BY <2>3, <2>4, <2>5 DEF row
<1> QED  BY <1>1, <1>2 DEF MaybeTrigger

\* The breaker after a step of time, of the pause sweep or of the renter's settings
LEMMA BreakerWrites ==
  ASSUME Counters, BreakerStep
  PROVE  /\ UNCHANGED <<topUpVars, used, restarts>>
         /\ UNCHANGED <<attempts, answer, locked>> \/ MaybeTrigger(balance, FALSE)
         /\ \/ failures' = 0 /\ pause' = "none"
            \/ failures' = failures /\ pause' = pause
            \/ failures' = failures /\ pause = "running" /\ pause' = "over"
         /\ card' \in {"none", "saved", "enabled"} /\ clearing' \in BOOLEAN
<1>1. CASE PauseEnds
  BY <1>1 DEF PauseEnds, Counters
<1>2. CASE SelectPaused
  BY <1>2 DEF SelectPaused, Counters
<1>3. CASE ClearPause
  BY <1>3 DEF ClearPause, Reset, Counters
<1>4. CASE SaveCardToken
  BY <1>4 DEF SaveCardToken, Reset, Counters
<1>5. CASE UpdateSettings \/ DeleteCard
  BY <1>5 DEF UpdateSettings, DeleteCard, SetCard, Counters
<1> QED  BY <1>1, <1>2, <1>3, <1>4, <1>5 DEF BreakerStep

\* Debits, unbilled answers, the end of the soft lock and the breaker
LEMMA TriggersKeep ==
  ASSUME TreasuryInv, Debit \/ Unbilled \/ LockElapses \/ BreakerStep
  PROVE  TreasuryInv'
<1>2. Sequenced /\ Counters
  BY DEF TreasuryInv
<1>1. UNCHANGED <<gateway, payments, opening, sweeping, refunding, credits, guessed, used,
                  restarts>>
  BY <1>2, BreakerWrites DEF Debit, Unbilled, LockElapses, topUpVars
<1>3. /\ attempts' \in Seq(AttemptRow) /\ answer' \in Seq(Answers)
      /\ Len(answer') = Len(attempts')
      /\ DOMAIN attempts \subseteq DOMAIN attempts'
      /\ \A a \in DOMAIN attempts : attempts'[a] = attempts[a] /\ answer'[a] = answer[a]
      /\ \A a \in DOMAIN attempts' \ DOMAIN attempts :
           /\ attempts'[a] = [status |-> "initiated", charge |-> 0]
           /\ answer'[a] = "asked"
      /\ locked' \in BOOLEAN
  <2>1. \/ UNCHANGED <<attempts, answer>> /\ locked' \in BOOLEAN
        \/ MaybeTrigger(balance', OnHold)
        \/ MaybeTrigger(balance, OnHold)
        \/ MaybeTrigger(balance, FALSE)
    <3>1. CASE Debit \/ Unbilled \/ LockElapses
      BY <3>1 DEF Debit, Unbilled, LockElapses
    <3>2. CASE BreakerStep
      BY <1>2, <3>2, BreakerWrites DEF Counters
    <3> QED  BY <3>1, <3>2
  <2>2. CASE UNCHANGED <<attempts, answer>> /\ locked' \in BOOLEAN
    BY <1>2, <2>2 DEF Sequenced
  <2>3. CASE \/ MaybeTrigger(balance', OnHold)
             \/ MaybeTrigger(balance, OnHold)
             \/ MaybeTrigger(balance, FALSE)
    BY <1>2, <2>3, TriggerWrites DEF Counters
  <2> QED  BY <2>1, <2>2, <2>3
<1>4. balance' \in Nat
  <2>1. CASE Debit
    BY <1>2, <2>1 DEF Debit, Counters
  <2>2. CASE Unbilled \/ LockElapses
    BY <1>2, <2>2 DEF Unbilled, LockElapses, Counters, topUpVars
  <2>3. CASE BreakerStep
    BY <1>2, <2>3, BreakerWrites DEF Counters, topUpVars
  <2> QED  BY <2>1, <2>2, <2>3
<1>5. /\ failures' \in Nat /\ pause' \in {"none", "running", "over"}
      /\ card' \in {"none", "saved", "enabled"} /\ clearing' \in BOOLEAN
      /\ PausedAfterFailures'
  <2>1. PausedAfterFailures
    BY DEF TreasuryInv, Counted
  <2>2. CASE Debit \/ Unbilled \/ LockElapses
    <3>1. UNCHANGED <<failures, pause, card, clearing>>
      BY <2>2 DEF Debit, Unbilled, LockElapses, breakerVars
    <3> QED  BY <1>2, <2>1, <3>1 DEF Counters, PausedAfterFailures
  <2>3. CASE BreakerStep
    <3>1. /\ card' \in {"none", "saved", "enabled"} /\ clearing' \in BOOLEAN
          /\ \/ failures' = 0 /\ pause' = "none"
             \/ failures' = failures /\ pause' = pause
             \/ failures' = failures /\ pause = "running" /\ pause' = "over"
      BY <1>2, <2>3, BreakerWrites
    <3>2. /\ failures' \in Nat /\ pause' \in {"none", "running", "over"}
          /\ PausedAfterFailures'
      BY <1>2, <2>1, <3>1, AutoAssumption DEF Counters, PausedAfterFailures
    <3> QED  BY <3>1, <3>2
  <2> QED  BY <2>2, <2>3
<1>6. Sequenced' /\ Counters'
  BY <1>1, <1>2, <1>3, <1>4, <1>5 DEF Sequenced, Counters, gateway
<1>7. Invoiced'
  BY <1>1 DEF TreasuryInv, Invoiced, gateway
<1>8. Counted'
  <2>1. {a \in DOMAIN attempts' : attempts'[a].status = "paid"} =
        {a \in DOMAIN attempts : attempts[a].status = "paid"}
    BY <1>3
  <2>2. PaidAttemptsAreCounted'
    BY <1>1, <1>3, <2>1 DEF TreasuryInv, Counted, PaidAttemptsAreCounted
  <2>3. \A a \in DOMAIN attempts' :
          /\ answer'[a] # "none" => attempts'[a] = [status |-> "initiated", charge |-> 0]
          /\ attempts'[a].status = "paid" => attempts'[a].charge \in DOMAIN charges'
    BY <1>1, <1>3 DEF TreasuryInv, Counted, gateway
  <2> QED  BY <1>5, <2>2, <2>3 DEF Counted
<1>9. HandlersEnd
  BY <1>1, <1>3 DEF HandlersEnd, TreasuryInv, Linked
<1>10. UNCHANGED <<charges, payments, guessed, credits>> /\ DOMAIN invoices \subseteq DOMAIN invoices'
  BY <1>1 DEF gateway
<1> QED  BY <1>6, <1>7, <1>8, <1>9, <1>10, IdleStep

\* The handler of an attempt writes its row and ends.
LEMMA AttemptEnds ==
  ASSUME Sequenced, NEW a \in DOMAIN attempts, NEW row \in AttemptRow,
         attempts' = [attempts EXCEPT ![a] = row],
         answer' = [answer EXCEPT ![a] = "none"]
  PROVE  /\ attempts' \in Seq(AttemptRow) /\ answer' \in Seq(Answers)
         /\ Len(answer') = Len(attempts')
         /\ DOMAIN attempts' = DOMAIN attempts
         /\ attempts'[a] = row /\ answer'[a] = "none"
         /\ \A b \in DOMAIN attempts \ {a} :
              attempts'[b] = attempts[b] /\ answer'[b] = answer[b]
<1>1. /\ attempts \in Seq(AttemptRow) /\ answer \in Seq(Answers)
      /\ Len(answer) = Len(attempts) /\ DOMAIN answer = DOMAIN attempts
  BY Indices DEF Sequenced
<1>2. /\ attempts' \in Seq(AttemptRow) /\ DOMAIN attempts' = DOMAIN attempts
      /\ Len(attempts') = Len(attempts) /\ attempts'[a] = row
      /\ \A b \in DOMAIN attempts \ {a} : attempts'[b] = attempts[b]
  BY <1>1, Overwrite
<1>3. "none" \in Answers
  BY DEF Answers
<1>4. /\ answer' \in Seq(Answers) /\ Len(answer') = Len(answer) /\ answer'[a] = "none"
      /\ \A b \in DOMAIN attempts \ {a} : answer'[b] = answer[b]
  BY ONLY <1>1, <1>3, Overwrite, a \in DOMAIN attempts, answer' = [answer EXCEPT ![a] = "none"]
<1> QED  BY <1>1, <1>2, <1>4

\* An error, a decline or a timeout leaves the charge to the webhook.
LEMMA FinalizeFailureKeeps ==
  ASSUME TreasuryInv, NEW a \in DOMAIN attempts, FinalizeFailure(a)
  PROVE  TreasuryInv'
<1>1. UNCHANGED <<gateway, payments, opening, sweeping, refunding, balance, credits, guessed,
                  used, locked, restarts>>
  BY DEF FinalizeFailure, topUpVars
<1>2. Sequenced /\ Counters
  BY DEF TreasuryInv
<1> DEFINE row == [attempts[a] EXCEPT !.status = "failed"]
<1>3. row \in AttemptRow /\ row.status = "failed"
  BY <1>2, Indices DEF AttemptRow
<1>4. attempts' = [attempts EXCEPT ![a] = row] /\ answer' = [answer EXCEPT ![a] = "none"]
  BY DEF FinalizeFailure
<1> HIDE DEF row
<1>5. /\ attempts' \in Seq(AttemptRow) /\ answer' \in Seq(Answers)
      /\ Len(answer') = Len(attempts')
      /\ DOMAIN attempts' = DOMAIN attempts
      /\ attempts'[a] = row /\ answer'[a] = "none"
      /\ \A b \in DOMAIN attempts \ {a} :
           attempts'[b] = attempts[b] /\ answer'[b] = answer[b]
  BY <1>2, <1>3, <1>4, AttemptEnds
<1>6. /\ failures' \in Nat /\ pause' \in {"none", "running", "over"}
      /\ UNCHANGED <<card, clearing>> /\ PausedAfterFailures'
  BY <1>2 DEF FinalizeFailure, PausesAt, Counters, PausedAfterFailures
<1>7. Sequenced' /\ Counters'
  BY <1>1, <1>2, <1>5, <1>6 DEF Sequenced, Counters, gateway
<1>8. Invoiced'
  BY <1>1 DEF TreasuryInv, Invoiced, gateway
<1>9. Counted'
  <2>1. attempts[a].status = "initiated"
    BY DEF FinalizeFailure, TreasuryInv, Counted
  <2>2. {b \in DOMAIN attempts' : attempts'[b].status = "paid"} =
        {b \in DOMAIN attempts : attempts[b].status = "paid"}
    BY <1>3, <1>5, <2>1
  <2>3. PaidAttemptsAreCounted'
    BY <1>1, <1>3, <1>5, <2>2 DEF TreasuryInv, Counted, PaidAttemptsAreCounted
  <2>4. \A b \in DOMAIN attempts' :
          /\ answer'[b] # "none" => attempts'[b] = [status |-> "initiated", charge |-> 0]
          /\ attempts'[b].status = "paid" => attempts'[b].charge \in DOMAIN charges'
    BY <1>1, <1>3, <1>5 DEF TreasuryInv, Counted, gateway
  <2> QED  BY <1>6, <2>3, <2>4 DEF Counted
<1>10. HandlersEnd
  BY <1>1, <1>5 DEF HandlersEnd, TreasuryInv, Linked
<1>11. UNCHANGED <<charges, payments, guessed, credits>> /\ DOMAIN invoices \subseteq DOMAIN invoices'
  BY <1>1 DEF gateway
<1> QED  BY <1>7, <1>8, <1>9, <1>10, <1>11, IdleStep

\* A restart loses what is in memory.
LEMMA RestartKeeps ==
  ASSUME TreasuryInv, Restart
  PROVE  TreasuryInv'
<1>1. UNCHANGED <<gateway, payments, balance, credits, guessed, attempts, used, failures,
                  pause, card, locked>>
  BY DEF Restart, Lost
<1>2. /\ opening' = {} /\ sweeping' = {} /\ refunding' = {}
      /\ answer' = [a \in DOMAIN answer |-> "none"]
      /\ clearing' = FALSE /\ restarts' = restarts + 1 /\ restarts < MaxRestarts
  BY DEF Restart, Lost
<1>3. Sequenced /\ Counters
  BY DEF TreasuryInv
<1>4. answer' \in Seq(Answers) /\ Len(answer') = Len(answer) /\ DOMAIN answer' = DOMAIN attempts
  <2>1. /\ DOMAIN answer = 1 .. Len(answer) /\ Len(answer) \in Nat
        /\ DOMAIN answer = DOMAIN attempts
    BY <1>3, LenProperties, Indices DEF Sequenced
  <2>2. answer' \in [1 .. Len(answer) -> Answers]
    BY <1>2, <2>1 DEF Answers
  <2> QED  BY <2>1, <2>2
<1>5. Sequenced' /\ Counters'
  <2>1. restarts' \in 0 .. MaxRestarts
    BY <1>2, <1>3, AutoAssumption DEF Counters
  <2> QED  BY <1>1, <1>2, <1>3, <1>4, <2>1 DEF Sequenced, Counters, gateway
<1>6. Invoiced'
  BY <1>1 DEF TreasuryInv, Invoiced, gateway
<1>7. \A a \in DOMAIN attempts : answer'[a] = "none"
  BY <1>2, <1>4
<1>8. Counted'
  <2>1. PaidAttemptsAreCounted'
    BY <1>1 DEF TreasuryInv, Counted, PaidAttemptsAreCounted
  <2> QED  BY <1>1, <1>7, <2>1 DEF TreasuryInv, Counted, PausedAfterFailures, gateway
<1>9. HandlersEnd
  BY <1>1, <1>2, <1>7 DEF HandlersEnd
<1>10. UNCHANGED <<charges, payments, guessed, credits>> /\ DOMAIN invoices \subseteq DOMAIN invoices'
  BY <1>1 DEF gateway
<1> QED  BY <1>5, <1>6, <1>8, <1>9, <1>10, IdleStep

\* The charge of a recharge whose answer has come
LEMMA AnsweredCharge ==
  ASSUME TreasuryInv, NEW a \in DOMAIN attempts,
         answer[a] \in {"initiated", "paid", "failed"}
  PROVE  /\ ChargeOf(a) \in DOMAIN charges /\ charges[ChargeOf(a)].of = AttemptId(a)
         /\ ChargeId(ChargeOf(a)) \in ChargeIds /\ Origin(ChargeId(ChargeOf(a))) = AttemptId(a)
         /\ \A c \in DOMAIN charges : charges[c].of = AttemptId(a) => c = ChargeOf(a)
<1>1. \E c \in DOMAIN charges : charges[c].of = AttemptId(a)
  BY DEF TreasuryInv, Once, Recharged
<1>2. ChargeOf(a) \in DOMAIN charges /\ charges[ChargeOf(a)].of = AttemptId(a)
  BY <1>1 DEF ChargeOf
<1>3. Sequenced
  BY DEF TreasuryInv
<1>4. ChargeId(ChargeOf(a)) \in ChargeIds /\ Origin(ChargeId(ChargeOf(a))) = AttemptId(a)
  BY <1>2, <1>3, IdParts, Indices DEF ChargeIds, Origin
<1>5. \A c \in DOMAIN charges : charges[c].of = AttemptId(a) => c = ChargeOf(a)
  BY <1>2, <1>3, IdParts, Indices DEF TreasuryInv, Once, Recharged
<1> QED  BY <1>2, <1>4, <1>5

\* The handler of a charged recharge mirrors it in payments, unless the webhook has
\* guessed a row for it, and ends.
LEMMA MirrorKeeps ==
  ASSUME TreasuryInv, NEW a \in DOMAIN attempts, NEW status \in {"initiated", "paid"},
         answer[a] = status, payments' = Mirror(a, status),
         answer' = [answer EXCEPT ![a] = "none"],
         NEW row \in AttemptRow, attempts' = [attempts EXCEPT ![a] = row],
         UNCHANGED <<gateway, opening, sweeping, refunding, guessed>>,
         \A c \in 1 .. MaxCharges : credits'[c] # credits[c] =>
           c = ChargeOf(a) /\ status = "paid" /\ credits'[c] = credits[c] + 1,
         Counters', Counted'
  PROVE  TreasuryInv'
<1> DEFINE c == ChargeOf(a)
<1>1. Sequenced
  BY DEF TreasuryInv
<1>2. /\ c \in DOMAIN charges /\ charges[c].of = AttemptId(a)
      /\ ChargeId(c) \in ChargeIds /\ Origin(ChargeId(c)) = AttemptId(a)
      /\ \A d \in DOMAIN charges : charges[d].of = AttemptId(a) => d = c
  BY AnsweredCharge
<1>3. /\ attempts' \in Seq(AttemptRow) /\ answer' \in Seq(Answers)
      /\ Len(answer') = Len(attempts')
      /\ DOMAIN attempts' = DOMAIN attempts /\ answer'[a] = "none"
      /\ \A b \in DOMAIN attempts \ {a} : answer'[b] = answer[b]
  BY <1>1, AttemptEnds
<1>4. \A k \in Rows : From(k) = AttemptId(a) => k \in BoundTo(ChargeId(c))
  <2> SUFFICES ASSUME NEW k \in Rows, From(k) = AttemptId(a)
               PROVE  payments[k].moyasar = ChargeId(c)
    BY DEF BoundTo
  <2>1. payments[k].moyasar \in InvoiceIds \cup ChargeIds \cup {NoId}
    BY DEF TreasuryInv, Linked
  <2>2. payments[k].moyasar \in ChargeIds
    BY <1>1, <2>1, IdParts, Indices DEF From, Origin, InvoiceIds
  <2>3. PICK d \in DOMAIN charges : payments[k].moyasar = ChargeId(d)
    BY <2>2 DEF ChargeIds
  <2>4. charges[d].of = AttemptId(a)
    BY <1>1, <2>3, IdParts, Indices DEF From, Origin
  <2> QED  BY <1>2, <2>3, <2>4
<1>5. \A k \in BoundTo(ChargeId(c)) : k \in Rows /\ From(k) = AttemptId(a)
  BY <1>2 DEF BoundTo, From
<1>6. AttemptId(a) \in AttemptIds /\ AttemptId(a) # NoId /\ AttemptId(a) \notin InvoiceIds
  BY <1>1, IdParts, Indices DEF AttemptIds, InvoiceIds
<1>7. c \notin guessed => credits[c] = 0 /\ \A k \in Rows : From(k) # AttemptId(a)
  BY <1>2 DEF TreasuryInv, Once, Recharged
<1> HIDE DEF c
<1>8. CASE BoundTo(ChargeId(c)) # {}
  <2>1. payments' = payments
    BY <1>8 DEF Mirror, c
  <2>2. c \in guessed
    BY <1>5, <1>7, <1>8
  <2>3. OnlyGuessed
    BY <1>2, <1>6, <2>2 DEF OnlyGuessed, c
  <2>4. GatewayKept
    BY DEF GatewayKept, gateway
  <2>5. RowsKept
    <3>1. \A k \in Rows : payments[k].moyasar \in InvoiceIds \cup ChargeIds \cup {NoId}
      BY DEF TreasuryInv, Linked
    <3> QED  BY <2>1, <3>1 DEF RowsKept, Rows, From, Origin, Payable, gateway
  <2>6. HandlersEnd
    BY <1>3 DEF HandlersEnd, TreasuryInv, Linked
  <2>7. Sequenced'
    BY <1>1, <1>3, <2>1 DEF Sequenced, gateway
  <2>8. Invoiced'
    BY DEF TreasuryInv, Invoiced, gateway
  <2> QED  BY <2>3, <2>4, <2>5, <2>6, <2>7, <2>8, QuietStep
<1>9. CASE BoundTo(ChargeId(c)) = {}
  <2>1. payments' = Append(payments, NewRow("auto", ChargeId(c), status))
    BY <1>9 DEF Mirror, c
  <2>2. \A k \in Rows : From(k) # AttemptId(a)
    BY <1>4, <1>9
  <2>3. /\ "auto" \in Sources /\ status \in RowStatus
        /\ ChargeId(c) \in Id
    BY <1>1, <1>2, IdParts, Indices DEF Sources, RowStatus
  <2>4. \A s \in sweeping : Origin(s.id) # AttemptId(a)
    BY <1>6 DEF TreasuryInv, Once, HeldBySweep
  <2>5. \A n \in opening' : AttemptId(a) # InvoiceId(n)
    BY <1>6 DEF TreasuryInv, Linked, InvoiceIds
  <2>6. \A b \in DOMAIN attempts : answer'[b] # "none" => AttemptId(a) # AttemptId(b)
    BY <1>1, <1>3, IdParts, Indices
  <2>7. \A d \in DOMAIN charges \ guessed : charges[d].of = AttemptId(a) => credits[d] = 0
    BY <1>2, <1>7
  <2>8. \A d \in 1 .. MaxCharges : credits'[d] # credits[d] =>
          /\ d \in DOMAIN charges /\ charges[d].of = AttemptId(a)
          /\ AttemptId(a) \in AttemptIds
          /\ status = "paid" /\ credits'[d] = credits[d] + 1
    BY <1>2, <1>6 DEF c
  <2>9. payments' \in Seq(PaymentRow)
    BY ONLY <1>1, <2>1, <2>3, NewRowWrites
  <2>10. Sequenced'
    BY <1>1, <1>3, <2>9 DEF Sequenced, gateway
  <2>11. opening' \subseteq opening /\ UNCHANGED <<gateway, sweeping, refunding, guessed>>
    OBVIOUS
  <2>12. \A b \in DOMAIN attempts : answer'[b] \in {answer[b], "none"}
    BY <1>3
  <2> QED  BY ONLY TreasuryInv, Counters', Counted', <1>2, <1>3, <1>6, <2>1, <2>2, <2>3, <2>4,
              <2>5, <2>6, <2>7, <2>8, <2>10, <2>11, <2>12, RowAdded
<1> QED  BY <1>8, <1>9

\* A charge that needs 3-D Secure
LEMMA StepUpKeeps ==
  ASSUME TreasuryInv, NEW a \in DOMAIN attempts, StepUp(a)
  PROVE  TreasuryInv'
<1> DEFINE row == [status |-> "3ds_required", charge |-> ChargeOf(a)]
<1>1. Sequenced /\ Counters
  BY DEF TreasuryInv
<1>2. ChargeOf(a) \in DOMAIN charges /\ answer[a] = "initiated"
  BY AnsweredCharge DEF StepUp
<1>3. row \in AttemptRow /\ row.status = "3ds_required"
  BY <1>1, <1>2, Indices DEF AttemptRow
<1>4. attempts' = [attempts EXCEPT ![a] = row] /\ answer' = [answer EXCEPT ![a] = "none"]
  BY DEF StepUp
<1>5. UNCHANGED <<gateway, opening, sweeping, refunding, balance, credits, guessed, used,
                  failures, pause, card, clearing, locked, restarts>>
      /\ payments' = Mirror(a, "initiated")
  BY DEF StepUp, breakerVars
<1> HIDE DEF row
<1>6. /\ DOMAIN attempts' = DOMAIN attempts /\ attempts'[a] = row /\ answer'[a] = "none"
      /\ \A b \in DOMAIN attempts \ {a} :
           attempts'[b] = attempts[b] /\ answer'[b] = answer[b]
  BY <1>1, <1>3, <1>4, AttemptEnds
<1>7. Counters'
  BY <1>1, <1>5 DEF Counters
<1>8. Counted'
  <2>1. attempts[a].status = "initiated"
    BY <1>2 DEF TreasuryInv, Counted
  <2>2. {b \in DOMAIN attempts' : attempts'[b].status = "paid"} =
        {b \in DOMAIN attempts : attempts[b].status = "paid"}
    BY <1>3, <1>6, <2>1
  <2>3. PaidAttemptsAreCounted'
    BY <1>5, <1>3, <1>6, <2>2 DEF TreasuryInv, Counted, PaidAttemptsAreCounted
  <2>4. \A b \in DOMAIN attempts' :
          /\ answer'[b] # "none" => attempts'[b] = [status |-> "initiated", charge |-> 0]
          /\ attempts'[b].status = "paid" => attempts'[b].charge \in DOMAIN charges'
    BY <1>3, <1>5, <1>6 DEF TreasuryInv, Counted, gateway
  <2> QED  BY <1>5, <2>3, <2>4 DEF TreasuryInv, Counted, PausedAfterFailures
<1> QED  BY <1>2, <1>3, <1>4, <1>5, <1>7, <1>8, MirrorKeeps

\* Adding members to the paid attempts adds their number.
LEMMA PaidGrow ==
  ASSUME Sequenced, Counters, Counted, NEW more \in SUBSET DOMAIN attempts,
         \A a \in more : attempts[a].status # "paid",
         DOMAIN attempts' = DOMAIN attempts,
         \A a \in more : /\ attempts'[a].status = "paid"
                         /\ attempts'[a].charge \in 1 .. MaxCharges
                         /\ credits'[attempts'[a].charge] > 0,
         \A a \in DOMAIN attempts \ more : attempts'[a] = attempts[a],
         \A c \in 1 .. MaxCharges : credits'[c] \in Nat /\ credits'[c] >= credits[c],
         used' = used + Cardinality(more)
  PROVE  PaidAttemptsAreCounted' /\ used' \in Nat
<1> DEFINE P == {a \in DOMAIN attempts : attempts[a].status = "paid"}
<1>1. IsFiniteSet(DOMAIN attempts)
  <2>1. DOMAIN attempts = 1 .. Len(attempts) /\ Len(attempts) \in Nat
    BY LenProperties DEF Sequenced
  <2>2. IsFiniteSet(1 .. Len(attempts))
    BY ONLY <2>1, FS_Interval
  <2> QED  BY ONLY <2>1, <2>2
<1>2. IsFiniteSet(P) /\ IsFiniteSet(more) /\ P \cap more = {}
  BY <1>1, FS_Subset
<1>3. Cardinality(P) \in Nat /\ Cardinality(more) \in Nat
  BY <1>2, FS_CardinalityType
<1>4. Cardinality(P \cup more) = Cardinality(P) + Cardinality(more)
  <2>1. Cardinality(P \cap more) = 0
    BY <1>2, FS_EmptySet
  <2>2. Cardinality(P \cup more) = Cardinality(P) + Cardinality(more) - Cardinality(P \cap more)
    BY <1>2, FS_Union
  <2> QED  BY <1>3, <2>1, <2>2
<1>5. {a \in DOMAIN attempts' : attempts'[a].status = "paid"} = P \cup more
  OBVIOUS
<1>6. used = Cardinality(P)
  BY DEF Counted, PaidAttemptsAreCounted
<1>7. \A a \in P \cup more : credits'[attempts'[a].charge] > 0
  <2> TAKE a \in P \cup more
  <2>1. CASE a \in more
    BY <2>1
  <2>2. CASE a \notin more
    <3>1. a \in P /\ attempts'[a] = attempts[a]
      BY <2>2
    <3>2. attempts[a].charge \in 1 .. MaxCharges /\ credits[attempts[a].charge] > 0
      BY <3>1, Indices DEF Counted, PaidAttemptsAreCounted
    <3>3. credits[attempts[a].charge] \in Nat
      BY <3>2 DEF Counters
    <3> QED  BY <3>1, <3>2, <3>3
  <2> QED  BY <2>1, <2>2
<1> HIDE DEF P
<1>8. used' = Cardinality(P \cup more)
  BY <1>4, <1>6
<1>9. used' \in Nat
  BY <1>3, <1>4, <1>8
<1> QED  BY <1>5, <1>7, <1>8, <1>9 DEF PaidAttemptsAreCounted

\* A charge that is paid at once
LEMMA FinalizePaidKeeps ==
  ASSUME TreasuryInv, NEW a \in DOMAIN attempts, FinalizePaid(a)
  PROVE  TreasuryInv'
<1> DEFINE c == ChargeOf(a)
           row == [status |-> "paid", charge |-> c]
<1>1. Sequenced /\ Counters /\ Counted
  BY DEF TreasuryInv
<1>2. c \in DOMAIN charges /\ answer[a] = "paid" /\ c \in 1 .. MaxCharges
  BY <1>1, AnsweredCharge, Indices DEF FinalizePaid
<1>3. row \in AttemptRow /\ row.status = "paid" /\ row.charge = c
  BY <1>1, <1>2, Indices DEF AttemptRow
<1>4. attempts' = [attempts EXCEPT ![a] = row] /\ answer' = [answer EXCEPT ![a] = "none"]
  BY DEF FinalizePaid
<1>5. /\ UNCHANGED <<gateway, opening, sweeping, refunding, guessed, card, clearing, locked,
                    restarts>>
      /\ payments' = Mirror(a, "paid") /\ used' = used + 1
      /\ Credit({c}) /\ failures' = 0 /\ pause' = "none"
  BY DEF FinalizePaid, Reset
<1> HIDE DEF row, c
<1>6. /\ DOMAIN attempts' = DOMAIN attempts /\ attempts'[a] = row /\ answer'[a] = "none"
      /\ \A b \in DOMAIN attempts \ {a} :
           attempts'[b] = attempts[b] /\ answer'[b] = answer[b]
  BY <1>1, <1>3, <1>4, AttemptEnds
<1>7. /\ balance' \in Nat /\ credits' \in [1 .. MaxCharges -> Nat]
      /\ credits' = [d \in DOMAIN credits |-> IF d \in {c} THEN credits[d] + 1 ELSE credits[d]]
      /\ \A d \in 1 .. MaxCharges : credits'[d] \in Nat /\ credits'[d] >= credits[d]
      /\ credits'[c] > 0
  BY <1>1, <1>2, <1>5, CreditWrites
<1>8. PaidAttemptsAreCounted' /\ used' \in Nat
  <2>1. attempts[a].status # "paid"
    BY <1>2 DEF TreasuryInv, Counted
  <2>2. Cardinality({a}) = 1
    BY FS_Singleton
  <2>3. used' = used + Cardinality({a})
    BY <1>5, <2>2
  <2>4. \A b \in {a} : /\ attempts[b].status # "paid" /\ attempts'[b].status = "paid"
                       /\ attempts'[b].charge \in 1 .. MaxCharges
                       /\ credits'[attempts'[b].charge] > 0
    BY <1>2, <1>3, <1>6, <1>7, <2>1
  <2>5. {a} \in SUBSET DOMAIN attempts
    OBVIOUS
  <2>6. \A b \in DOMAIN attempts \ {a} : attempts'[b] = attempts[b]
    BY <1>6
  <2> QED  BY ONLY <1>1, <1>6, <1>7, <2>3, <2>4, <2>5, <2>6, PaidGrow
<1>9. Counters'
  BY <1>1, <1>5, <1>7, <1>8 DEF Counters
<1>10. Counted'
  <2>1. ~ (failures' >= MaxFailures)
    BY <1>5, AutoAssumption
  <2>2. PausedAfterFailures'
    BY <1>5, <2>1, Zenon DEF PausedAfterFailures
  <2>3. \A b \in DOMAIN attempts' :
          /\ answer'[b] # "none" => attempts'[b] = [status |-> "initiated", charge |-> 0]
          /\ attempts'[b].status = "paid" => attempts'[b].charge \in DOMAIN charges'
    BY <1>1, <1>2, <1>3, <1>5, <1>6 DEF Counted, gateway
  <2> QED  BY <1>8, <2>2, <2>3 DEF Counted
<1>11. \A d \in 1 .. MaxCharges : credits'[d] # credits[d] =>
         d = ChargeOf(a) /\ "paid" = "paid" /\ credits'[d] = credits[d] + 1
  BY <1>1, <1>7 DEF c, Counters
<1> QED  BY <1>2, <1>3, <1>4, <1>5, <1>9, <1>10, <1>11, MirrorKeeps
-----------------------------------------------------------------------------
(* The webhook *)

\* The row is known by the charge or by what it is for, or it is guessed.
LEMMA MatchKinds ==
  ASSUME TreasuryInv, NEW c \in DOMAIN charges, NEW status, NEW k \in Match(c, status)
  PROVE  /\ k \in Rows /\ charges[c].of \in InvoiceIds \cup AttemptIds
         /\ \/ /\ k \in BoundTo(ChargeId(c)) \cup BoundTo(charges[c].of)
               /\ From(k) = charges[c].of
            \/ /\ BoundTo(ChargeId(c)) = {} /\ BoundTo(charges[c].of) = {}
               /\ charges[c].of \in AttemptIds
               /\ status = "paid" /\ payments[k].status = "pending"
<1>1. Sequenced /\ charges[c].of \in InvoiceIds \cup AttemptIds
  BY DEF TreasuryInv, Linked
<1>2. CASE k \in BoundTo(ChargeId(c))
  BY <1>1, <1>2, IdParts, Indices DEF BoundTo, From, Origin
<1>3. CASE k \in BoundTo(charges[c].of)
  <2>1. charges[c].of[1] # "charge"
    BY <1>1, IdParts, Indices DEF InvoiceIds, AttemptIds
  <2> QED  BY <1>1, <1>3, <2>1 DEF BoundTo, From, Origin
<1>4. CASE BoundTo(ChargeId(c)) = {} /\ BoundTo(charges[c].of) = {}
  <2>1. k \in Guess(c, status)
    BY <1>4 DEF Match
  <2>2. status = "paid" /\ charges[c].of[1] = "attempt" /\ k \in Pending
    BY <2>1 DEF Guess, Newest
  <2>3. charges[c].of \in AttemptIds
    BY <1>1, <2>2, IdParts, Indices DEF InvoiceIds
  <2> QED  BY <1>1, <1>4, <2>2, <2>3 DEF Pending
<1> QED  BY <1>2, <1>3, <1>4 DEF Match

\* Closed attempts keep the shape of the table.
LEMMA CloseWrites ==
  ASSUME TreasuryInv, NEW c \in DOMAIN charges, NEW status \in {"paid", "failed"},
         Close(c, status)
  PROVE  /\ attempts' \in Seq(AttemptRow) /\ Len(attempts') = Len(attempts)
         /\ DOMAIN attempts' = DOMAIN attempts
         /\ \A a \in OpenAttempts(c) :
              /\ a \in DOMAIN attempts /\ answer[a] = "none"
              /\ attempts[a].status # "paid"
              /\ attempts'[a].status = status /\ attempts'[a].charge = c
         /\ \A a \in DOMAIN attempts \ OpenAttempts(c) : attempts'[a] = attempts[a]
<1>1. /\ Sequenced /\ DOMAIN attempts = 1 .. Len(attempts) /\ Len(attempts) \in Nat
      /\ c # 0
  BY LenProperties, Indices DEF TreasuryInv, Sequenced
<1>2. ASSUME NEW a \in OpenAttempts(c)
      PROVE  /\ a \in DOMAIN attempts /\ answer[a] = "none"
             /\ attempts[a].status # "paid"
             /\ attempts'[a].status = status /\ attempts'[a].charge = c
             /\ attempts'[a] \in AttemptRow
  <2>1. /\ a \in DOMAIN attempts /\ attempts[a].charge = c /\ attempts[a].status # "paid"
        /\ attempts[a] \in AttemptRow
    BY <1>1, Indices DEF OpenAttempts
  <2>2. answer[a] = "none"
    BY <1>1, <2>1 DEF TreasuryInv, Counted
  <2>3. attempts'[a] = [attempts[a] EXCEPT !.status = status]
    BY <2>1 DEF Close
  <2> QED  BY <2>1, <2>2, <2>3 DEF AttemptRow
<1>3. \A a \in DOMAIN attempts \ OpenAttempts(c) :
        attempts'[a] = attempts[a] /\ attempts'[a] \in AttemptRow
  BY <1>1, Indices DEF Close
<1>4. DOMAIN attempts' = DOMAIN attempts
  BY DEF Close
<1>5. attempts' \in [1 .. Len(attempts) -> AttemptRow]
  <2>1. attempts' = [a \in DOMAIN attempts' |-> attempts'[a]]
    BY DEF Close
  <2> QED  BY <1>1, <1>2, <1>3, <1>4, <2>1
<1>6. attempts' \in Seq(AttemptRow) /\ Len(attempts') = Len(attempts)
  BY <1>1, <1>5
<1> QED  BY <1>2, <1>3, <1>4, <1>6

\* What a delivery does to the wallet
LEMMA DeliverCredits ==
  ASSUME TreasuryInv, NEW c \in DOMAIN charges, NEW status, NEW k \in Rows,
         Deliver(c, status, k)
  PROVE  /\ balance' \in Nat /\ credits' \in [1 .. MaxCharges -> Nat]
         /\ \A d \in 1 .. MaxCharges : credits'[d] \in Nat /\ credits'[d] >= credits[d]
         /\ UNCHANGED <<gateway, opening, sweeping, refunding>>
         /\ ~ Stale(payments[k].status, status) /\ status = "paid" =>
              Credit({c}) /\ credits'[c] > 0 /\ c \in 1 .. MaxCharges
<1>1. Sequenced /\ Counters /\ c \in 1 .. MaxCharges
  BY Indices DEF TreasuryInv
<1>2. UNCHANGED <<gateway, opening, sweeping, refunding>>
  BY DEF Deliver
<1>3. CASE Credit({c})
  BY <1>1, <1>2, <1>3, CreditWrites
<1>4. CASE UNCHANGED <<balance, credits>> /\ ~ (~ Stale(payments[k].status, status) /\ status = "paid")
  BY <1>1, <1>2, <1>4 DEF Counters
<1>5. CASE UNCHANGED credits /\ balance' \in {balance, Debited} /\ status = "refunded"
  BY <1>1, <1>2, <1>5, DebitedNat DEF Counters
<1>6. \/ Credit({c})
      \/ UNCHANGED <<balance, credits>> /\ ~ (~ Stale(payments[k].status, status) /\ status = "paid")
      \/ UNCHANGED credits /\ balance' \in {balance, Debited} /\ status = "refunded"
  BY DEF Deliver
<1> QED  BY <1>3, <1>4, <1>5, <1>6

\* What the webhook does to the attempts and their counters
LEMMA WebhookCounts ==
  ASSUME TreasuryInv, NEW c \in DOMAIN charges, NEW k \in Rows, NEW status,
         Webhook(c, status, k)
  PROVE  /\ attempts' \in Seq(AttemptRow) /\ Len(attempts') = Len(attempts)
         /\ DOMAIN attempts' = DOMAIN attempts /\ answer' = answer
         /\ Counters' /\ Counted'
<1>1. Sequenced /\ Counters /\ Counted
  BY DEF TreasuryInv
<1>2. /\ balance' \in Nat /\ credits' \in [1 .. MaxCharges -> Nat]
      /\ \A d \in 1 .. MaxCharges : credits'[d] \in Nat /\ credits'[d] >= credits[d]
      /\ UNCHANGED <<gateway, opening, sweeping, refunding>>
      /\ ~ Stale(payments[k].status, status) /\ status = "paid" =>
           Credit({c}) /\ credits'[c] > 0 /\ c \in 1 .. MaxCharges
  BY DeliverCredits DEF Webhook
<1>3. UNCHANGED <<answer, card, clearing, locked, restarts>> /\ charges' = charges
  BY <1>2 DEF Webhook, gateway
<1>4. CASE UNCHANGED <<attempts, used, failures, pause>>
  <2>1. Counters'
    BY <1>1, <1>2, <1>3, <1>4 DEF Counters
  <2>2. Counted'
    BY <1>1, <1>2, <1>3, <1>4, CountKept
  <2> QED  BY <1>1, <1>3, <1>4, <2>1, <2>2 DEF Sequenced
<1>5. CASE /\ ~ Stale(payments[k].status, status) /\ status = "paid"
           /\ Close(c, "paid") /\ used' = Count(c) /\ Reset
  <2>1. /\ attempts' \in Seq(AttemptRow) /\ Len(attempts') = Len(attempts)
        /\ DOMAIN attempts' = DOMAIN attempts
        /\ \A a \in OpenAttempts(c) :
             /\ a \in DOMAIN attempts /\ answer[a] = "none"
             /\ attempts[a].status # "paid"
             /\ attempts'[a].status = "paid" /\ attempts'[a].charge = c
        /\ \A a \in DOMAIN attempts \ OpenAttempts(c) : attempts'[a] = attempts[a]
    BY <1>5, CloseWrites
  <2>2. PaidAttemptsAreCounted' /\ used' \in Nat
    <3>1. OpenAttempts(c) \in SUBSET DOMAIN attempts
      BY DEF OpenAttempts
    <3>2. used' = used + Cardinality(OpenAttempts(c))
      BY <1>5 DEF Count
    <3>3. \A a \in OpenAttempts(c) :
            /\ attempts[a].status # "paid" /\ attempts'[a].status = "paid"
            /\ attempts'[a].charge \in 1 .. MaxCharges
            /\ credits'[attempts'[a].charge] > 0
      BY <1>2, <1>5, <2>1
    <3> QED  BY ONLY <1>1, <1>2, <2>1, <3>1, <3>2, <3>3, PaidGrow
  <2>3. failures' = 0 /\ pause' = "none"
    BY <1>5 DEF Reset
  <2>4. Counters'
    BY <1>1, <1>2, <1>3, <2>2, <2>3 DEF Counters
  <2>5. PausedAfterFailures'
    <3>1. ~ (failures' >= MaxFailures)
      BY <2>3, AutoAssumption
    <3> QED  BY <2>3, <3>1, Zenon DEF PausedAfterFailures
  <2>6. \A a \in DOMAIN attempts' :
          /\ answer'[a] # "none" => attempts'[a] = [status |-> "initiated", charge |-> 0]
          /\ attempts'[a].status = "paid" => attempts'[a].charge \in DOMAIN charges'
    BY <1>1, <1>3, <2>1 DEF Counted
  <2> QED  BY <1>3, <2>1, <2>2, <2>4, <2>5, <2>6 DEF Counted
<1>6. CASE Close(c, "failed") /\ UNCHANGED <<used, failures, pause>>
  <2>1. /\ attempts' \in Seq(AttemptRow) /\ Len(attempts') = Len(attempts)
        /\ DOMAIN attempts' = DOMAIN attempts
        /\ \A a \in OpenAttempts(c) :
             /\ a \in DOMAIN attempts /\ answer[a] = "none"
             /\ attempts[a].status # "paid"
             /\ attempts'[a].status = "failed" /\ attempts'[a].charge = c
        /\ \A a \in DOMAIN attempts \ OpenAttempts(c) : attempts'[a] = attempts[a]
    BY <1>6, CloseWrites
  <2> DEFINE P == {a \in DOMAIN attempts : attempts[a].status = "paid"}
  <2>2. {a \in DOMAIN attempts' : attempts'[a].status = "paid"} = P
    BY <2>1
  <2>3. \A a \in P : attempts'[a] = attempts[a] /\ credits'[attempts[a].charge] > 0
    <3> TAKE a \in P
    <3>1. attempts'[a] = attempts[a]
      BY <2>1
    <3>2. attempts[a].charge \in 1 .. MaxCharges /\ credits[attempts[a].charge] > 0
      BY <1>1, Indices DEF Counted, PaidAttemptsAreCounted
    <3>3. credits[attempts[a].charge] \in Nat
      BY <1>1, <3>2 DEF Counters
    <3> QED  BY <1>2, <3>1, <3>2, <3>3
  <2>4. used = Cardinality(P)
    BY <1>1 DEF Counted, PaidAttemptsAreCounted
  <2> HIDE DEF P
  <2>5. PaidAttemptsAreCounted'
    BY <1>6, <2>2, <2>3, <2>4 DEF PaidAttemptsAreCounted
  <2>6. Counters'
    BY <1>1, <1>2, <1>3, <1>6 DEF Counters
  <2>7. \A a \in DOMAIN attempts' :
          /\ answer'[a] # "none" => attempts'[a] = [status |-> "initiated", charge |-> 0]
          /\ attempts'[a].status = "paid" => attempts'[a].charge \in DOMAIN charges'
    BY <1>1, <1>3, <2>1 DEF Counted
  <2> QED  BY <1>1, <1>3, <1>6, <2>1, <2>5, <2>6, <2>7 DEF Counted, PausedAfterFailures
<1> QED  BY <1>4, <1>5, <1>6 DEF Webhook

\* A guess binds a pending row to a recharge that no row went back to.
LEMMA GuessKeeps ==
  ASSUME TreasuryInv, NEW c \in DOMAIN charges, NEW k \in Rows,
         charges[c].of \in AttemptIds, BoundTo(ChargeId(c)) = {},
         NEW request, RowMoves(k, ChargeId(c), "paid", request),
         guessed' = guessed \cup {c}, Credit({c}),
         UNCHANGED <<gateway, opening, sweeping, refunding, answer>>,
         DOMAIN attempts' = DOMAIN attempts,
         Sequenced', Counters', Counted'
  PROVE  TreasuryInv'
<1> DEFINE o == charges[c].of
<1>1. Sequenced /\ charges' = charges /\ invoices' = invoices
  BY DEF TreasuryInv, gateway
<1>2. /\ o \in AttemptIds /\ o \notin InvoiceIds /\ o # NoId
      /\ ChargeId(c) \in ChargeIds /\ ChargeId(c) \in Id
      /\ ChargeId(c)[1] = "charge" /\ ChargeId(c)[2] = c
      /\ o[1] = "attempt"
  BY <1>1, IdParts, Indices DEF AttemptIds, InvoiceIds, ChargeIds
<1>3. \A j \in Rows : From(j) # o
  <2> SUFFICES ASSUME NEW j \in Rows, From(j) = o
               PROVE  payments[j].moyasar = ChargeId(c)
    BY DEF BoundTo
  <2>1. payments[j].moyasar \in InvoiceIds \cup ChargeIds \cup {NoId}
    BY DEF TreasuryInv, Linked
  <2>2. payments[j].moyasar \in ChargeIds
    BY <1>1, <1>2, <2>1, IdParts, Indices DEF From, Origin, InvoiceIds
  <2>3. PICK d \in DOMAIN charges : payments[j].moyasar = ChargeId(d)
    BY <2>2 DEF ChargeIds
  <2>4. charges[d].of = o
    BY <1>1, <2>3, IdParts, Indices DEF From, Origin
  <2> QED  BY <1>2, <2>3, <2>4 DEF TreasuryInv, Once, Recharged
<1>4. /\ Rows' = Rows /\ payments'[k].moyasar = ChargeId(c) /\ payments'[k].status = "paid"
      /\ payments'[k].source = payments[k].source
      /\ \A j \in Rows \ {k} : payments'[j] = payments[j]
  BY DEF RowMoves
<1>5. /\ From(k)' = o /\ ~ Payable(k)'
      /\ \A j \in Rows \ {k} : From(j)' = From(j) /\ Payable(j)' = Payable(j)
      /\ \A s \in sweeping : Origin(s.id)' = Origin(s.id) /\ Origin(s.id) # o
  <2>1. From(k)' = o
    BY <1>1, <1>2, <1>4 DEF From, Origin
  <2>2. \A j \in Rows \ {k} : From(j)' = From(j) /\ Payable(j)' = Payable(j)
    BY <1>1, <1>4 DEF From, Origin, Payable
  <2>3. \A s \in sweeping : Origin(s.id)' = Origin(s.id)
    BY <1>1 DEF Origin
  <2>4. \A s \in sweeping : Origin(s.id) # o
    BY <1>2 DEF TreasuryInv, Once, HeldBySweep
  <2>5. ~ Payable(k)'
    BY <1>4 DEF Payable
  <2> QED  BY <2>1, <2>2, <2>3, <2>4, <2>5
<1>6. /\ InvoiceIds' = InvoiceIds /\ ChargeIds' = ChargeIds /\ AttemptIds' = AttemptIds
  BY <1>1 DEF InvoiceIds, ChargeIds, AttemptIds
<1>7. \A d \in DOMAIN charges \ {c} : credits'[d] = credits[d]
  BY <1>1, Indices DEF TreasuryInv, Counters, Credit
<1> HIDE DEF o
<1>8. Linked'
  <2>1. \A d \in DOMAIN charges' : charges'[d].of \in InvoiceIds' \cup AttemptIds'
    BY <1>1, <1>6 DEF TreasuryInv, Linked
  <2>2. \A j \in Rows' : payments'[j].moyasar \in InvoiceIds' \cup ChargeIds' \cup {NoId}
    BY <1>2, <1>4, <1>6 DEF TreasuryInv, Linked
  <2>3. guessed' \subseteq DOMAIN charges'
    BY <1>1 DEF TreasuryInv, Linked
  <2> QED  BY <1>1, <1>4, <1>6, <2>1, <2>2, <2>3 DEF TreasuryInv, Linked
<1>9. Invoiced'
  BY <1>1 DEF TreasuryInv, Invoiced
<1>10. OneRow'
  <2>1. ASSUME NEW i \in Rows, NEW j \in Rows, From(i)' = From(j)', From(j)' # NoId
        PROVE  i = j
    <3>1. CASE i # k /\ j # k
      BY <1>5, <2>1, <3>1 DEF TreasuryInv, Once, OneRow
    <3>2. CASE i = k \/ j = k
      BY <1>3, <1>5, <2>1, <3>2
    <3> QED  BY <3>1, <3>2
  <2>2. ASSUME NEW j \in Rows, payments'[j].source = "card", Payable(j)'
        PROVE  From(j)' \in InvoiceIds
    <3>1. j # k
      BY <1>5, <2>2
    <3> QED  BY <1>4, <1>5, <2>2, <3>1 DEF TreasuryInv, Once, OneRow
  <2> QED  BY <1>4, <1>6, <2>1, <2>2 DEF OneRow
<1>11. Unlisted'
  <2>1. \A n \in opening : InvoiceId(n) # o /\ InvoiceId(n) \in InvoiceIds
    BY <1>2 DEF TreasuryInv, Linked, InvoiceIds
  <2>2. \A n \in opening, d \in DOMAIN charges : charges[d].of = InvoiceId(n) => credits'[d] = 0
    <3> TAKE n \in opening, d \in DOMAIN charges
    <3> HAVE charges[d].of = InvoiceId(n)
    <3>1. d # c
      BY <2>1 DEF o
    <3> QED  BY <1>7, <3>1 DEF TreasuryInv, Once, Unlisted
  <2>3. \A n \in opening, j \in Rows : From(j)' # InvoiceId(n)
    BY <1>5, <2>1 DEF TreasuryInv, Once, Unlisted
  <2> QED  BY <1>1, <1>4, <1>5, <2>2, <2>3 DEF TreasuryInv, Once, Unlisted
<1>12. HeldBySweep'
  <2>1. \A s \in sweeping, j \in Rows : From(j)' = Origin(s.id) => j = s.row
    BY <1>5 DEF TreasuryInv, Once, HeldBySweep
  <2> QED  BY <1>4, <1>5, <1>6, <2>1 DEF TreasuryInv, Once, HeldBySweep
<1>13. Recharged'
  <2>1. ASSUME NEW a \in DOMAIN attempts, NEW d \in DOMAIN charges,
               answer[a] # "none", charges[d].of = AttemptId(a)
        PROVE  /\ answer[a] = "paid" => charges[d].status \in Taken
               /\ d \notin guessed' =>
                    /\ credits'[d] = 0
                    /\ \A j \in Rows : From(j)' # AttemptId(a)
    <3>1. answer[a] = "paid" => charges[d].status \in Taken
      BY <2>1 DEF TreasuryInv, Once, Recharged
    <3>2. ASSUME d \notin guessed'
          PROVE  /\ credits'[d] = 0 /\ \A j \in Rows : From(j)' # AttemptId(a)
      <4>1. d # c /\ d \notin guessed
        BY <3>2
      <4>2. credits[d] = 0 /\ \A j \in Rows : From(j) # AttemptId(a)
        BY <2>1, <4>1 DEF TreasuryInv, Once, Recharged
      <4>3. AttemptId(a) # o
        BY <1>1, <1>2, <2>1, <4>1, IdParts DEF TreasuryInv, Once, Recharged, o
      <4> QED  BY <1>5, <1>7, <4>1, <4>2, <4>3
    <3> QED  BY <3>1, <3>2
  <2>2. answer' = answer
    OBVIOUS
  <2>3. \A d, e \in DOMAIN charges :
          charges[d].of = charges[e].of /\ charges[d].of[1] = "attempt" => d = e
    BY DEF TreasuryInv, Once, Recharged
  <2>4. \A a \in DOMAIN attempts : answer[a] \in {"initiated", "paid", "failed"} =>
          \E d \in DOMAIN charges : charges[d].of = AttemptId(a)
    BY DEF TreasuryInv, Once, Recharged
  <2> QED  BY <1>1, <1>4, <2>1, <2>2, <2>3, <2>4 DEF Recharged
<1>14. Credited'
  <2>1. \A d \in 1 .. MaxCharges : d \notin DOMAIN charges => credits'[d] = 0
    BY DEF TreasuryInv, Once, Credited, Counters, Credit
  <2>2. ASSUME NEW d \in DOMAIN charges \ guessed'
        PROVE  /\ credits'[d] <= 1
               /\ credits'[d] = 1 =>
                    /\ \A j \in Rows : From(j)' = charges[d].of => ~ Payable(j)'
                    /\ \A s \in sweeping : Origin(s.id)' = charges[d].of => ~ Payable(s.row)'
    <3>1. d # c /\ d \notin guessed /\ credits'[d] = credits[d]
      BY <1>7, <2>2
    <3>2. \A s \in sweeping : Payable(s.row)' => Payable(s.row)
      BY <1>5 DEF TreasuryInv, Linked
    <3>3. \A j \in Rows : From(j)' = charges[d].of => ~ Payable(j)' \/ From(j) = charges[d].of
      BY <1>5
    <3> QED  BY <1>5, <3>1, <3>2, <3>3 DEF TreasuryInv, Once, Credited
  <2> QED  BY <1>1, <1>4, <2>1, <2>2 DEF Credited
<1> QED  BY <1>8, <1>9, <1>10, <1>11, <1>12, <1>13, <1>14 DEF TreasuryInv, Once

\* A delivery moves the row it matches, whatever order the events come in.
LEMMA WebhookKeeps ==
  ASSUME TreasuryInv, NEW c \in DOMAIN charges, NEW k \in Rows,
         NEW status \in {"initiated", "paid", "failed", "refunded"}, Webhook(c, status, k)
  PROVE  TreasuryInv'
<1>1. /\ attempts' \in Seq(AttemptRow) /\ Len(attempts') = Len(attempts)
      /\ DOMAIN attempts' = DOMAIN attempts /\ answer' = answer
      /\ Counters' /\ Counted'
  BY WebhookCounts
<1>2. /\ UNCHANGED <<gateway, opening, sweeping, refunding>>
      /\ ~ Stale(payments[k].status, status) /\ status = "paid" => Credit({c})
  BY DeliverCredits DEF Webhook
<1>3. Sequenced /\ payments[k].status \in RowStatus /\ payments[k].request \in RequestStatus
  BY RowTypes
<1>4. \E new \in RowStatus :
        /\ RowMoves(k, ChargeId(c), new, payments[k].request)
        /\ new \in {"pending", "initiated", "failed"} => Payable(k)
        /\ \/ credits' = credits /\ (Stale(payments[k].status, status) \/ status # "paid")
           \/ Credit({c}) /\ Payable(k) /\ new = "paid"
  <2>1. CASE /\ Stale(payments[k].status, status)
             /\ payments' = Bind(k, c) /\ UNCHANGED <<balance, credits>>
    <3>1. payments[k].status \in {"pending", "initiated", "failed"} => Payable(k)
      BY DEF Payable
    <3>2. RowMoves(k, ChargeId(c), payments[k].status, payments[k].request)
      BY <1>3, <2>1, BindWritten
    <3> QED  BY <1>3, <2>1, <3>1, <3>2
  <2>2. CASE /\ Payable(k) /\ payments' = [Bind(k, c) EXCEPT ![k].status = "paid"]
             /\ Credit({c})
    <3>1. "paid" \in RowStatus
      BY DEF RowStatus
    <3>2. RowMoves(k, ChargeId(c), "paid", payments[k].request)
      BY <1>3, <2>2, <3>1, BindWritten
    <3> QED  BY <2>2, <3>1, <3>2
  <2>3. CASE /\ ~ Stale(payments[k].status, status) /\ status \in {"initiated", "failed"}
             /\ payments' = [Bind(k, c) EXCEPT ![k].status = status]
             /\ UNCHANGED <<balance, credits>>
    <3>1. status \in RowStatus
      BY <2>3 DEF RowStatus
    <3>2. RowMoves(k, ChargeId(c), status, payments[k].request)
      BY <1>3, <2>3, <3>1, BindWritten
    <3>3. Payable(k)
      BY <1>3, <2>3 DEF Stale, Payable, RowStatus
    <3> QED  BY <2>3, <3>1, <3>2, <3>3
  <2>4. CASE /\ status = "refunded" /\ UNCHANGED credits
             /\ payments' = IF Refundable(k)
                  THEN [Bind(k, c) EXCEPT ![k].status = "refunded"] ELSE Bind(k, c)
    <3>1. CASE Refundable(k)
      <4>1. "refunded" \in RowStatus
        BY DEF RowStatus
      <4>2. RowMoves(k, ChargeId(c), "refunded", payments[k].request)
        BY <1>3, <2>4, <3>1, <4>1, BindWritten
      <4> QED  BY <2>4, <4>1, <4>2
    <3>2. CASE ~ Refundable(k)
      <4>1. RowMoves(k, ChargeId(c), payments[k].status, payments[k].request)
        BY <1>3, <2>4, <3>2, BindWritten
      <4>2. payments[k].status \in {"pending", "initiated", "failed"} => Payable(k)
        BY DEF Payable
      <4> QED  BY <1>3, <2>4, <4>1, <4>2
    <3> QED  BY <3>1, <3>2
  <2>5. Deliver(c, status, k)
    BY DEF Webhook
  <2> QED  BY <2>1, <2>2, <2>3, <2>4, <2>5 DEF Deliver
<1>5. PICK new \in RowStatus :
        /\ RowMoves(k, ChargeId(c), new, payments[k].request)
        /\ new \in {"pending", "initiated", "failed"} => Payable(k)
        /\ \/ credits' = credits /\ (Stale(payments[k].status, status) \/ status # "paid")
           \/ Credit({c}) /\ Payable(k) /\ new = "paid"
  BY <1>4
<1>6. /\ charges[c].of \in InvoiceIds \cup AttemptIds
      /\ \/ /\ k \in BoundTo(ChargeId(c)) \cup BoundTo(charges[c].of)
            /\ From(k) = charges[c].of
         \/ /\ BoundTo(ChargeId(c)) = {} /\ BoundTo(charges[c].of) = {}
            /\ charges[c].of \in AttemptIds
            /\ status = "paid" /\ payments[k].status = "pending"
  <2>1. k \in Match(c, status)
    BY DEF Webhook
  <2> QED  BY <2>1, MatchKinds
<1>7. Sequenced'
  BY <1>1, <1>2, <1>3, <1>5 DEF Sequenced, RowMoves, gateway
<1>8. Invoiced'
  BY <1>2 DEF TreasuryInv, Invoiced, gateway
<1>9. GatewayKept
  BY <1>2 DEF GatewayKept, gateway
<1>10. CASE /\ k \in BoundTo(ChargeId(c)) \cup BoundTo(charges[c].of)
            /\ From(k) = charges[c].of
  <2>1. guessed' = guessed
    BY <1>10 DEF Webhook, Deliver
  <2>2. HandlersEnd
    BY <1>1, <1>2, <2>1 DEF HandlersEnd, TreasuryInv, Linked
  <2>3. RowsKept
    <3>1. ChargeId(c) \in ChargeIds /\ Origin(ChargeId(c)) = From(k)
      BY <1>3, <1>10, IdParts, Indices DEF ChargeIds, Origin
    <3> QED  BY <1>3, <1>5, <1>9, <3>1, OneMoves DEF TreasuryInv
  <2>4. CASE credits' = credits
    <3>1. OnlyGuessed
      BY <2>4 DEF OnlyGuessed
    <3> QED  BY <1>1, <1>7, <1>8, <1>9, <2>2, <2>3, <3>1, QuietStep
  <2>5. CASE Credit({c}) /\ Payable(k) /\ new = "paid"
    <3>1. ~ Payable(k)'
      BY <1>5, <2>5 DEF RowMoves, Payable
    <3>2. \A d \in {c} : d \in DOMAIN charges /\ charges[d].of = charges[c].of
      OBVIOUS
    <3> QED  BY <1>1, <1>6, <1>7, <1>8, <1>9, <1>10, <2>2, <2>3, <2>5, <3>1, <3>2, CreditStep
  <2> QED  BY <1>5, <2>4, <2>5
<1>11. CASE /\ BoundTo(ChargeId(c)) = {} /\ BoundTo(charges[c].of) = {}
            /\ charges[c].of \in AttemptIds
            /\ status = "paid" /\ payments[k].status = "pending"
  <2>1. guessed' = guessed \cup {c}
    BY <1>11 DEF Webhook, Deliver
  <2>2. ~ Stale(payments[k].status, status)
    BY <1>11 DEF Stale
  <2>3. Credit({c}) /\ new = "paid"
    BY <1>2, <1>5, <1>11, <2>2
  <2> QED  BY <1>1, <1>2, <1>5, <1>7, <1>11, <2>1, <2>3, GuessKeeps
<1> QED  BY <1>6, <1>10, <1>11
-----------------------------------------------------------------------------
(* The invariant holds *)

\* Nothing has been opened, charged or asked for.
LEMMA InitInv == AutoInit => TreasuryInv
<1> SUFFICES ASSUME AutoInit PROVE TreasuryInv
  OBVIOUS
<1>1. /\ invoices = <<>> /\ charges = <<>> /\ payments = <<>> /\ attempts = <<>> /\ answer = <<>>
      /\ opening = {} /\ sweeping = {} /\ refunding = {} /\ guessed = {}
      /\ balance = Deposit /\ credits = [c \in 1 .. MaxCharges |-> 0]
      /\ used = 0 /\ failures = 0 /\ restarts = 0
      /\ pause = "none" /\ card = "enabled" /\ clearing = FALSE /\ locked = FALSE
  BY DEF AutoInit, TopUpInit
<1>2. /\ DOMAIN invoices = {} /\ DOMAIN charges = {} /\ Rows = {} /\ DOMAIN attempts = {}
  BY <1>1 DEF Rows
<1>3. Sequenced
  BY <1>1, TopUpAssumption DEF Sequenced
<1>4. Counters
  <2>1. balance \in Nat /\ used \in Nat /\ failures \in Nat /\ restarts \in 0 .. MaxRestarts
    BY <1>1, TopUpAssumption, AutoAssumption
  <2>2. credits \in [1 .. MaxCharges -> Nat]
    BY <1>1
  <2>3. /\ pause \in {"none", "running", "over"} /\ card \in {"none", "saved", "enabled"}
        /\ clearing \in BOOLEAN /\ locked \in BOOLEAN
    BY <1>1
  <2> QED  BY <2>1, <2>2, <2>3 DEF Counters
<1>5. Linked /\ Invoiced
  BY <1>1, <1>2 DEF Linked, Invoiced
<1>6. Once
  BY <1>1, <1>2 DEF Once, OneRow, Unlisted, HeldBySweep, Recharged, Credited
<1>7. Counted
  <2>1. {a \in DOMAIN attempts : attempts[a].status = "paid"} = {}
    BY <1>2
  <2>2. used = Cardinality({})
    BY <1>1, FS_EmptySet
  <2>3. PaidAttemptsAreCounted
    BY <2>1, <2>2 DEF PaidAttemptsAreCounted
  <2>4. ~ (failures >= MaxFailures)
    BY <1>1, AutoAssumption
  <2>5. PausedAfterFailures
    BY <1>1, <2>4, Zenon DEF PausedAfterFailures
  <2> QED  BY <1>2, <2>3, <2>5 DEF Counted
<1> QED  BY <1>3, <1>4, <1>5, <1>6, <1>7 DEF TreasuryInv

\* Every step preserves the invariant.
LEMMA StepInv == TreasuryInv /\ [AutoNext]_<<topUpVars, autoVars>> => TreasuryInv'
<1> SUFFICES ASSUME TreasuryInv, [AutoNext]_<<topUpVars, autoVars>> PROVE TreasuryInv'
  OBVIOUS
<1>1. ASSUME TopUpNext, UNCHANGED autoVars PROVE TreasuryInv'
  <2>1. CASE AnnounceTransfer \/ \E n \in DOMAIN invoices : InsertTopup(n)
    BY <1>1, <2>1, NewRowsKeep
  <2>2. CASE OpenInvoice
    BY <1>1, <2>2, OpenInvoiceKeeps
  <2>3. CASE \E n \in DOMAIN invoices : TryCard(n)
    BY <1>1, <2>3, ChargesKeep
  <2>4. CASE \/ \E c \in DOMAIN charges : \/ RefundCharge(c)
                                       \/ \E s \in {"paid", "failed"} : SettleCharge(c, s)
             \/ \E n \in DOMAIN invoices : ExpireInvoice(n)
    BY <1>1, <2>4, GatewayKeeps
  <2>5. ASSUME NEW k \in Rows, ConfirmTransfer(k) PROVE TreasuryInv'
    BY <1>1, <2>5, ConfirmTransferKeeps
  <2>6. ASSUME NEW k \in Rows, RequestRefund(k) \/ RejectRefund(k) PROVE TreasuryInv'
    BY <1>1, <2>6, RequestsKeep
  <2>7. ASSUME NEW k \in Rows, ApproveRefund(k) PROVE TreasuryInv'
    BY <1>1, <2>7, ApproveKeeps
  <2>8. ASSUME NEW k \in Rows, RefundAnswered(k) \/ RefundFails(k) PROVE TreasuryInv'
    BY <1>1, <2>8, RefundEndsKeep
  <2>9. CASE SweepSelect
    BY <1>1, <2>9, SweepSelectKeeps
  <2>10. CASE SweepApply
    BY <1>1, <2>10, SweepApplyKeeps
  <2> QED  BY <1>1, <2>1, <2>2, <2>3, <2>4, <2>5, <2>6, <2>7, <2>8, <2>9, <2>10 DEF TopUpNext
<1>2. ASSUME NEW c \in DOMAIN charges, NEW k \in Rows,
             NEW s \in {"initiated", "paid", "failed", "refunded"}, Webhook(c, s, k)
      PROVE  TreasuryInv'
  BY <1>2, WebhookKeeps
<1>3. ASSUME NEW k \in Rows, VerifyTopup(k) PROVE TreasuryInv'
  BY <1>3, VerifyKeeps DEF VerifyTopup
<1>4. CASE AutoStep
  <2>1. CASE Debit \/ Unbilled \/ LockElapses \/ BreakerStep
    BY <2>1, TriggersKeep
  <2>2. ASSUME NEW a \in DOMAIN attempts, NEW s \in {"initiated", "paid", "failed"},
               GatewayCharges(a, s)
        PROVE  TreasuryInv'
    BY <2>2, ChargesKeep
  <2>3. ASSUME NEW a \in DOMAIN attempts, FinalizePaid(a) PROVE TreasuryInv'
    BY <2>3, FinalizePaidKeeps
  <2>4. ASSUME NEW a \in DOMAIN attempts, StepUp(a) PROVE TreasuryInv'
    BY <2>4, StepUpKeeps
  <2>5. ASSUME NEW a \in DOMAIN attempts, FinalizeFailure(a) PROVE TreasuryInv'
    BY <2>5, FinalizeFailureKeeps
  <2> QED  BY <1>4, <2>1, <2>2, <2>3, <2>4, <2>5 DEF AutoStep
<1>5. CASE Restart
  BY <1>5, RestartKeeps
<1>6. CASE UNCHANGED <<topUpVars, autoVars>>
  <2> USE <1>6 DEF topUpVars, autoVars, breakerVars
  <2>1. Sequenced' /\ Counters' /\ Invoiced'
    BY DEF TreasuryInv, Sequenced, Counters, Invoiced, gateway
  <2>2. PaidAttemptsAreCounted'
    BY DEF TreasuryInv, Counted, PaidAttemptsAreCounted, gateway
  <2>3. Counted'
    BY <2>2 DEF TreasuryInv, Counted, PausedAfterFailures, gateway
  <2>4. HandlersEnd
    BY DEF HandlersEnd, TreasuryInv, Linked
  <2>5. UNCHANGED <<charges, payments, guessed, credits>> /\ DOMAIN invoices \subseteq DOMAIN invoices'
    BY DEF gateway
  <2> QED  BY <2>1, <2>3, <2>4, <2>5, IdleStep
<1> QED  BY <1>1, <1>2, <1>3, <1>4, <1>5, <1>6 DEF AutoNext

\* The invariant of the specification
LEMMA Invariant == AutoSpec => []TreasuryInv
BY InitInv, StepInv, PTL DEF AutoSpec
-----------------------------------------------------------------------------
(* What a step may do to a row and to the wallet *)

RowsFinal ==
  \A k \in Rows :
    /\ payments[k].status = "paid" => payments'[k].status \in {"paid", "refunded"}
    /\ payments[k].status = "refunded" => payments'[k].status = "refunded"

DebitsRefund ==
  balance' < balance /\ <<payments, refunding>>' # <<payments, refunding>> =>
    \E k \in Rows : payments[k].status = "paid" /\ payments'[k].status = "refunded"

CreditsMoney ==
  balance' > balance =>
    \/ \E k \in TransferRows : Payable(k) /\ payments'[k].status = "paid"
    \/ \E c \in DOMAIN charges :
         credits'[c] > credits[c] /\ charges[c].status \in {"paid", "refunded"}

Sound == RowsFinal /\ DebitsRefund /\ CreditsMoney

\* A step that only adds rows, or none, and leaves the wallet alone
LEMMA QuietSound ==
  ASSUME Counters, \A k \in Rows : payments'[k] = payments[k], balance' = balance
  PROVE  Sound
<1>1. ~ (balance' < balance) /\ ~ (balance' > balance)
  BY DEF Counters
<1> QED  BY <1>1 DEF Sound, RowsFinal, DebitsRefund, CreditsMoney

\* The debit of a refund never adds.
LEMMA DebitedLess ==
  ASSUME TreasuryInv
  PROVE  Debited <= balance
BY DEF TreasuryInv, Counters, Debited

\* A row that moves to a status it may move to, without the wallet
LEMMA MoveSound ==
  ASSUME TreasuryInv, NEW k \in Rows, NEW id, NEW status \in RowStatus, NEW request,
         RowMoves(k, id, status, request),
         \/ status = payments[k].status
         \/ Payable(k) /\ status # "refunded"
         \/ payments[k].status = "paid" /\ status = "refunded",
         \/ balance' = balance
         \/ balance' = Debited /\ payments[k].status = "paid" /\ status = "refunded"
         \/ /\ balance' = balance + 1 /\ Payable(k) /\ status = "paid"
            /\ \/ payments[k].source = "transfer"
               \/ \E c \in DOMAIN charges :
                    credits'[c] > credits[c] /\ charges[c].status \in {"paid", "refunded"}
  PROVE  Sound
<1>1. /\ payments'[k].status = status
      /\ \A j \in Rows \ {k} : payments'[j] = payments[j]
  BY DEF RowMoves
<1>2. balance \in Nat /\ Debited \in Nat /\ Debited <= balance
  BY DebitedLess, DebitedNat DEF TreasuryInv, Counters
<1>3. RowsFinal
  BY <1>1 DEF RowsFinal, Payable
<1>4. DebitsRefund
  BY <1>1, <1>2 DEF DebitsRefund
<1>5. \/ balance' = balance
      \/ balance' = Debited /\ payments[k].status = "paid" /\ status = "refunded"
      \/ /\ balance' = balance + 1 /\ Payable(k) /\ status = "paid"
         /\ \/ payments[k].source = "transfer"
            \/ \E c \in DOMAIN charges :
                 credits'[c] > credits[c] /\ charges[c].status \in {"paid", "refunded"}
  OBVIOUS
<1>6. CreditsMoney
  <2> SUFFICES ASSUME balance' > balance
               PROVE  \/ \E j \in TransferRows : Payable(j) /\ payments'[j].status = "paid"
                      \/ \E c \in DOMAIN charges :
                           credits'[c] > credits[c] /\ charges[c].status \in {"paid", "refunded"}
    BY DEF CreditsMoney
  <2>1. ~ (balance' = balance) /\ ~ (balance' = Debited)
    BY <1>2
  <2>2. /\ Payable(k) /\ status = "paid"
        /\ \/ payments[k].source = "transfer"
           \/ \E c \in DOMAIN charges :
                credits'[c] > credits[c] /\ charges[c].status \in {"paid", "refunded"}
    BY ONLY <1>5, <2>1
  <2>3. CASE payments[k].source = "transfer"
    BY <1>1, <2>2, <2>3 DEF TransferRows
  <2> QED  BY <2>2, <2>3
<1> QED  BY <1>3, <1>4, <1>6 DEF Sound

\* Transfers, refund requests and the end of a refund
LEMMA RowsSound ==
  ASSUME TreasuryInv, NEW k \in Rows,
         \/ ConfirmTransfer(k) \/ RequestRefund(k) \/ RejectRefund(k)
         \/ ApproveRefund(k) \/ RefundAnswered(k) \/ RefundFails(k)
  PROVE  Sound
<1>1. Sequenced /\ payments[k].status \in RowStatus /\ payments[k].request \in RequestStatus
  BY RowTypes
<1>2. CASE ConfirmTransfer(k)
  <2>1. RowMoves(k, payments[k].moyasar, "paid", payments[k].request)
    BY <1>1, <1>2, StatusWritten DEF ConfirmTransfer, RowStatus
  <2>2. Payable(k) /\ balance' = balance + 1 /\ payments[k].source = "transfer"
    BY <1>1, <1>2 DEF ConfirmTransfer, Payable, RowStatus, Credit, TransferRows
  <2>3. "paid" \in RowStatus
    BY DEF RowStatus
  <2> QED  BY <2>1, <2>2, <2>3, MoveSound
<1>3. ASSUME NEW request \in {"pending", "none", "processing"},
             payments' = [payments EXCEPT ![k].request = request], balance' = balance
      PROVE  Sound
  <2>1. RowMoves(k, payments[k].moyasar, payments[k].status, request)
    BY <1>1, <1>3, RequestWritten DEF RequestStatus
  <2> QED  BY <1>1, <1>3, <2>1, MoveSound
<1>4. ASSUME Refunded(k), payments[k].status = "paid"
      PROVE  Sound
  <2>1. RowMoves(k, payments[k].moyasar, "refunded", "approved")
    BY <1>1, <1>4, RefundedWritten
  <2>2. balance' = Debited
    BY <1>4 DEF Refunded
  <2>3. "refunded" \in RowStatus
    BY DEF RowStatus
  <2> QED  BY <1>4, <2>1, <2>2, <2>3, MoveSound
<1>5. CASE RequestRefund(k) \/ RejectRefund(k)
  BY <1>3, <1>5 DEF RequestRefund, RejectRefund
<1>6. CASE ApproveRefund(k)
  BY <1>3, <1>4, <1>6 DEF ApproveRefund
<1>7. CASE RefundAnswered(k) \/ RefundFails(k)
  <2>1. CASE payments' = payments /\ balance' = balance
    BY <2>1, QuietSound DEF TreasuryInv
  <2> QED  BY <1>3, <1>4, <1>7, <2>1 DEF RefundAnswered, RefundFails, StillPaid
<1> QED  BY <1>2, <1>5, <1>6, <1>7

\* A credit on the evidence of a charge Moyasar has taken
LEMMA PaySound ==
  ASSUME TreasuryInv, NEW k \in Rows, Payable(k), NEW id, NEW request,
         RowMoves(k, id, "paid", request), NEW evidence, Credit(evidence),
         NEW c \in evidence, c \in DOMAIN charges, charges[c].status \in Taken
  PROVE  Sound
<1>1. balance' = balance + 1 /\ credits'[c] > credits[c] /\ "paid" \in RowStatus
  BY CreditWrites, Indices DEF TreasuryInv, RowStatus
<1> QED  BY <1>1, MoveSound DEF Taken

\* Verify and the sweep credit for an invoice or a charge that is reported paid.
LEMMA ReportedSound ==
  ASSUME TreasuryInv, NEW id \in InvoiceIds \cup ChargeIds, Reported(id) = "paid"
  PROVE  \E c \in PaidBy(id) : c \in DOMAIN charges /\ charges[c].status \in Taken
<1>1. Sequenced
  BY DEF TreasuryInv
<1>2. CASE id \in InvoiceIds
  <2>1. PICK n \in DOMAIN invoices : id = InvoiceId(n)
    BY <1>2 DEF InvoiceIds
  <2>2. invoices[n] = "paid"
    BY <1>1, <2>1, IdParts, Indices DEF Reported
  <2>3. PICK c \in DOMAIN charges : charges[c].of = InvoiceId(n) /\ charges[c].status \in Taken
    BY <2>2 DEF TreasuryInv, Invoiced
  <2> QED  BY <2>1, <2>3 DEF PaidBy, ChargesOf, Taken
<1>3. CASE id \in ChargeIds
  <2>1. PICK c \in DOMAIN charges : id = ChargeId(c)
    BY <1>3 DEF ChargeIds
  <2>2. charges[c].status = "paid"
    BY <1>1, <2>1, IdParts, Indices DEF Reported
  <2> QED  BY <2>1, <2>2 DEF PaidBy, ChargesOf, Taken
<1> QED  BY <1>2, <1>3

\* The verify poll and the sweep
LEMMA SweepSound ==
  ASSUME TreasuryInv, SweepApply \/ \E k \in Rows : Verify(k)
  PROVE  Sound
<1>1. ASSUME NEW k \in Rows, NEW id \in InvoiceIds \cup ChargeIds, Reported(id) = "paid",
             Payable(k), payments' = [payments EXCEPT ![k].status = "paid"],
             Credit(PaidBy(id))
      PROVE  Sound
  <2>1. PICK c \in PaidBy(id) : c \in DOMAIN charges /\ charges[c].status \in Taken
    BY <1>1, ReportedSound
  <2>2. RowMoves(k, payments[k].moyasar, "paid", payments[k].request)
    BY <1>1, RowTypes, StatusWritten DEF RowStatus
  <2> QED  BY <1>1, <2>1, <2>2, PaySound
<1>2. ASSUME NEW k \in Rows, Verify(k) PROVE Sound
  <2>1. payments[k].moyasar \in InvoiceIds \cup ChargeIds
    BY <1>2, IdParts DEF Verify, TreasuryInv, Linked
  <2> QED  BY <1>1, <1>2, <2>1 DEF Verify
<1>3. CASE SweepApply
  <2>1. PICK s \in NextSwept :
          \/ /\ Credits(Reported(s.id)) /\ Payable(s.row)
             /\ payments' = [payments EXCEPT ![s.row].status = "paid"]
             /\ Credit(PaidBy(s.id))
          \/ /\ Unsettled(s.row)
             /\ payments' = [payments EXCEPT ![s.row].status = "failed"]
             /\ UNCHANGED <<balance, credits>>
          \/ UNCHANGED <<payments, balance, credits>>
    BY <1>3 DEF SweepApply
  <2>2. s.row \in Rows /\ s.id \in InvoiceIds \cup ChargeIds
    BY DEF NextSwept, TreasuryInv, Linked
  <2> DEFINE k == s.row
  <2>3. CASE /\ Credits(Reported(s.id)) /\ Payable(k)
             /\ payments' = [payments EXCEPT ![k].status = "paid"]
             /\ Credit(PaidBy(s.id))
    BY <1>1, <2>2, <2>3 DEF Credits
  <2>4. CASE /\ Unsettled(k) /\ payments' = [payments EXCEPT ![k].status = "failed"]
             /\ UNCHANGED <<balance, credits>>
    <3>1. RowMoves(k, payments[k].moyasar, "failed", payments[k].request)
      BY <2>2, <2>4, RowTypes, StatusWritten DEF RowStatus
    <3>2. Payable(k) /\ "failed" \in RowStatus
      BY <2>4 DEF Unsettled, Payable, RowStatus
    <3> QED  BY <2>2, <2>4, <3>1, <3>2, MoveSound
  <2>5. CASE UNCHANGED <<payments, balance, credits>>
    BY <2>5, QuietSound DEF TreasuryInv
  <2> QED  BY <2>1, <2>3, <2>4, <2>5
<1> QED  BY <1>2, <1>3

\* The webhook binds the row, credits it, moves it between open statuses, or refunds it.
LEMMA WebhookSound ==
  ASSUME TreasuryInv, NEW c \in DOMAIN charges, NEW k \in Rows,
         NEW status \in {"initiated", "paid", "failed", "refunded"}, Webhook(c, status, k)
  PROVE  Sound
<1>1. Sequenced /\ payments[k].status \in RowStatus
  BY RowTypes
<1>2. CASE payments' = Bind(k, c) /\ balance' = balance
  <2>1. RowMoves(k, ChargeId(c), payments[k].status, payments[k].request)
    BY <1>1, <1>2, BindWritten
  <2> QED  BY <1>1, <1>2, <2>1, MoveSound
<1>3. CASE /\ status = "paid" /\ Payable(k)
           /\ payments' = [Bind(k, c) EXCEPT ![k].status = "paid"] /\ Credit({c})
  <2>1. "paid" \in RowStatus
    BY DEF RowStatus
  <2>2. RowMoves(k, ChargeId(c), "paid", payments[k].request)
    BY <1>1, <1>3, <2>1, BindWritten
  <2>3. status \in EventsOf(c) /\ charges[c].status \in ChargeStatus
    BY <1>1, Indices DEF Webhook, ChargeRow
  <2>4. charges[c].status \in Taken
    BY <1>3, <2>3 DEF EventsOf, Taken, ChargeStatus
  <2> QED  BY <1>3, <2>2, <2>4, PaySound
<1>4. CASE /\ ~ Stale(payments[k].status, status) /\ status \in {"initiated", "failed"}
           /\ payments' = [Bind(k, c) EXCEPT ![k].status = status] /\ balance' = balance
  <2>1. status \in RowStatus /\ status # "refunded"
    BY <1>4 DEF RowStatus
  <2>2. Payable(k)
    BY <1>1, <1>4 DEF Stale, Payable, RowStatus
  <2>3. RowMoves(k, ChargeId(c), status, payments[k].request)
    BY <1>1, <1>4, <2>1, BindWritten
  <2> QED  BY <1>4, <2>1, <2>2, <2>3, MoveSound
<1>5. CASE /\ Refundable(k) /\ balance' = Debited
           /\ payments' = [Bind(k, c) EXCEPT ![k].status = "refunded"]
  <2>1. "refunded" \in RowStatus
    BY DEF RowStatus
  <2>2. RowMoves(k, ChargeId(c), "refunded", payments[k].request)
    BY <1>1, <1>5, <2>1, BindWritten
  <2>3. balance' = Debited /\ payments[k].status = "paid"
    BY <1>5 DEF Refundable
  <2> QED  BY <2>1, <2>2, <2>3, MoveSound
<1>6. Deliver(c, status, k)
  BY DEF Webhook
<1> QED  BY <1>2, <1>3, <1>4, <1>5, <1>6 DEF Deliver

\* INSERT OR IGNORE changes no row that was there.
LEMMA MirrorRows ==
  ASSUME TreasuryInv, NEW a \in DOMAIN attempts, NEW status \in {"initiated", "paid"},
         answer[a] = status, payments' = Mirror(a, status)
  PROVE  \A k \in Rows : payments'[k] = payments[k]
<1>1. Sequenced
  BY DEF TreasuryInv
<1>2. ChargeOf(a) \in DOMAIN charges
  BY AnsweredCharge
<1>3. ChargeId(ChargeOf(a)) \in Id /\ status \in RowStatus /\ "auto" \in Sources
  BY <1>1, <1>2, IdParts, Indices DEF RowStatus, Sources
<1>4. CASE payments' = Append(payments, NewRow("auto", ChargeId(ChargeOf(a)), status))
  BY <1>1, <1>3, <1>4, NewRowWrites
<1> QED  BY <1>4 DEF Mirror

\* finalizePaid credits for the charge of its recharge, which Moyasar has taken.
LEMMA FinalizePaidSound ==
  ASSUME TreasuryInv, NEW a \in DOMAIN attempts, FinalizePaid(a)
  PROVE  Sound
<1> DEFINE c == ChargeOf(a)
<1>1. Sequenced /\ answer[a] = "paid" /\ Credit({c}) /\ payments' = Mirror(a, "paid")
  BY DEF FinalizePaid, TreasuryInv
<1>2. c \in DOMAIN charges /\ charges[c].of = AttemptId(a) /\ c \in 1 .. MaxCharges
  BY <1>1, AnsweredCharge, Indices
<1>3. charges[c].status \in Taken
  BY <1>1, <1>2 DEF TreasuryInv, Once, Recharged
<1> HIDE DEF c
<1>4. balance' = balance + 1 /\ credits'[c] > credits[c] /\ balance \in Nat
  BY <1>1, <1>2, CreditWrites DEF TreasuryInv, Counters
<1>5. \A k \in Rows : payments'[k] = payments[k]
  BY <1>1, MirrorRows
<1>6. ~ (balance' < balance)
  BY <1>4
<1> QED  BY <1>2, <1>3, <1>4, <1>5, <1>6 DEF Sound, RowsFinal, DebitsRefund, CreditsMoney, Taken

\* Every step is sound.
LEMMA StepSound == TreasuryInv /\ [AutoNext]_<<topUpVars, autoVars>> => Sound
<1> SUFFICES ASSUME TreasuryInv, [AutoNext]_<<topUpVars, autoVars>> PROVE Sound
  OBVIOUS
<1>1. Sequenced /\ Counters
  BY DEF TreasuryInv
<1>2. CASE payments' = payments /\ balance' = balance
  BY <1>1, <1>2, QuietSound
<1>3. ASSUME \/ AnnounceTransfer
             \/ \E n \in DOMAIN invoices : InsertTopup(n)
      PROVE  Sound
  <2>1. balance' = balance
    BY <1>3 DEF AnnounceTransfer, InsertTopup
  <2>2. CASE AnnounceTransfer
    <3>1. payments' = Append(payments, NewRow("transfer", NoId, "pending"))
          /\ "transfer" \in Sources /\ NoId \in Id /\ "pending" \in RowStatus
      BY <2>2, IdParts DEF AnnounceTransfer, Sources, RowStatus
    <3>2. \A k \in Rows : payments'[k] = payments[k]
      BY <1>1, <3>1, NewRowWrites
    <3> QED  BY <1>1, <2>1, <3>2, QuietSound
  <2>3. CASE \E n \in DOMAIN invoices : InsertTopup(n)
    <3>1. PICK n \in DOMAIN invoices : InsertTopup(n)
      BY <2>3
    <3>2. payments' = Append(payments, NewRow("card", InvoiceId(n), "pending"))
          /\ "card" \in Sources /\ InvoiceId(n) \in Id /\ "pending" \in RowStatus
      BY <1>1, <3>1, IdParts, Indices DEF InsertTopup, Sources, RowStatus
    <3>3. \A k \in Rows : payments'[k] = payments[k]
      BY <1>1, <3>2, NewRowWrites
    <3> QED  BY <1>1, <2>1, <3>3, QuietSound
  <2> QED  BY <1>3, <2>2, <2>3
<1>4. ASSUME TopUpNext PROVE Sound
  <2>1. CASE \/ OpenInvoice \/ SweepSelect
             \/ \E n \in DOMAIN invoices : TryCard(n) \/ ExpireInvoice(n)
             \/ \E c \in DOMAIN charges :
                  RefundCharge(c) \/ \E s \in {"paid", "failed"} : SettleCharge(c, s)
    BY <1>2, <2>1
       DEF OpenInvoice, SweepSelect, TryCard, ExpireInvoice, RefundCharge, SettleCharge
  <2>2. ASSUME NEW k \in Rows, ConfirmTransfer(k) \/ RequestRefund(k) \/ RejectRefund(k)
                 \/ ApproveRefund(k) \/ RefundAnswered(k) \/ RefundFails(k)
        PROVE  Sound
    BY <2>2, RowsSound
  <2>3. CASE SweepApply
    BY <2>3, SweepSound
  <2>4. \/ AnnounceTransfer
        \/ \E n \in DOMAIN invoices : InsertTopup(n)
        \/ OpenInvoice \/ SweepSelect
        \/ \E n \in DOMAIN invoices : TryCard(n) \/ ExpireInvoice(n)
        \/ \E c \in DOMAIN charges :
             RefundCharge(c) \/ \E s \in {"paid", "failed"} : SettleCharge(c, s)
        \/ SweepApply
        \/ \E k \in Rows : \/ ConfirmTransfer(k) \/ RequestRefund(k) \/ RejectRefund(k)
                            \/ ApproveRefund(k) \/ RefundAnswered(k) \/ RefundFails(k)
    BY <1>4 DEF TopUpNext
  <2> QED  BY <1>3, <2>1, <2>2, <2>3, <2>4
<1>5. ASSUME NEW c \in DOMAIN charges, NEW k \in Rows,
             NEW s \in {"initiated", "paid", "failed", "refunded"}, Webhook(c, s, k)
      PROVE  Sound
  BY <1>5, WebhookSound
<1>6. ASSUME NEW k \in Rows, VerifyTopup(k) PROVE Sound
  BY <1>6, SweepSound DEF VerifyTopup
<1>7. CASE AutoStep
  <2>1. CASE Debit
    <3>1. /\ balance' = balance - 1 /\ UNCHANGED <<payments, refunding>>
      BY <2>1 DEF Debit
    <3>2. ~ (balance' > balance) /\ <<payments, refunding>>' = <<payments, refunding>>
      BY <1>1, <3>1 DEF Counters
    <3> QED  BY <3>1, <3>2 DEF Sound, RowsFinal, DebitsRefund, CreditsMoney
  <2>2. CASE Unbilled \/ LockElapses \/ BreakerStep
    <3>1. UNCHANGED topUpVars
      BY <1>1, <2>2, BreakerWrites DEF Unbilled, LockElapses
    <3> QED  BY <1>2, <3>1 DEF topUpVars
  <2>3. ASSUME NEW a \in DOMAIN attempts, NEW s \in {"initiated", "paid", "failed"},
               GatewayCharges(a, s)
        PROVE  Sound
    BY <1>2, <2>3 DEF GatewayCharges
  <2>4. ASSUME NEW a \in DOMAIN attempts, FinalizePaid(a) PROVE Sound
    BY <2>4, FinalizePaidSound
  <2>5. ASSUME NEW a \in DOMAIN attempts, StepUp(a) PROVE Sound
    <3>1. /\ payments' = Mirror(a, "initiated") /\ balance' = balance
          /\ answer[a] = "initiated"
      BY <2>5 DEF StepUp
    <3>2. \A k \in Rows : payments'[k] = payments[k]
      BY <3>1, MirrorRows
    <3> QED  BY <1>1, <3>1, <3>2, QuietSound
  <2>6. ASSUME NEW a \in DOMAIN attempts, FinalizeFailure(a) PROVE Sound
    BY <1>2, <2>6 DEF FinalizeFailure, topUpVars
  <2> QED  BY <1>7, <2>1, <2>2, <2>3, <2>4, <2>5, <2>6 DEF AutoStep
<1>8. CASE Restart
  BY <1>2, <1>8 DEF Restart, Lost
<1>9. CASE UNCHANGED <<topUpVars, autoVars>>
  BY <1>2, <1>9 DEF topUpVars
<1> QED  BY <1>4, <1>5, <1>6, <1>7, <1>8, <1>9 DEF AutoNext
-----------------------------------------------------------------------------
(* Theorems *)

\* Types: every table, id, flag and counter is what its column holds.
THEOREM TreasuryTypes == AutoSpec => []AutoTypeOK
<1>1. TreasuryInv => AutoTypeOK
  <2> SUFFICES ASSUME TreasuryInv PROVE AutoTypeOK
    OBVIOUS
  <2>1. Sequenced /\ Counters /\ Linked
    BY DEF TreasuryInv
  <2>2. \A id \in InvoiceIds : id[1] = "invoice"
    BY <2>1, IdParts, Indices DEF InvoiceIds
  <2>3. \A id \in ChargeIds : id[1] = "charge"
    BY <2>1, IdParts, Indices DEF ChargeIds
  <2>4. \A id \in AttemptIds : id[1] = "attempt"
    BY <2>1, IdParts, Indices DEF AttemptIds
  <2>5. \A n \in DOMAIN invoices : invoices[n] \in {"open", "paid", "expired"}
    BY <2>1, ElementOfSeq, LenProperties DEF Sequenced
  <2>6. \A c \in DOMAIN charges :
          /\ charges[c].status \in {"initiated", "paid", "failed", "refunded"}
          /\ charges[c].of[1] \in {"invoice", "attempt"}
    BY <2>1, <2>2, <2>4, Indices DEF Linked, ChargeRow, ChargeStatus
  <2>7. \A k \in Rows :
          /\ payments[k].source \in Sources
          /\ payments[k].moyasar[1] \in {"invoice", "charge", "none"}
          /\ payments[k].status \in {"pending", "initiated", "paid", "failed", "refunded"}
          /\ payments[k].request \in {"none", "pending", "processing", "approved"}
    BY <2>1, <2>2, <2>3, IdParts, Indices DEF Linked, PaymentRow, RowStatus, RequestStatus
  <2>8. \A s \in sweeping : s.row \in Rows /\ s.id[1] \in {"invoice", "charge"}
    BY <2>1, <2>2, <2>3 DEF Linked
  <2>9. TopUpTypeOK
    BY <2>1, <2>5, <2>6, <2>7, <2>8 DEF TopUpTypeOK, Counters, Linked
  <2>10. \A a \in DOMAIN attempts :
           /\ attempts[a].status \in {"initiated", "3ds_required", "paid", "failed"}
           /\ attempts[a].charge \in 0 .. MaxCharges
    BY <2>1, Indices DEF AttemptRow
  <2>11. answer \in [DOMAIN attempts -> {"none", "asked", "initiated", "paid", "failed"}]
    BY <2>1, Indices, LenProperties DEF Sequenced, Answers
  <2> QED  BY <2>1, <2>9, <2>10, <2>11 DEF AutoTypeOK, Counters
<1> QED  BY <1>1, Invariant, PTL

\* The webhook, the verify poll, the sweep and finalizePaid together credit a charge
\* once at most, unless the webhook guessed its row (payments.js:715).
THEOREM ChargesCreditedOnce == AutoSpec => []CreditedOnce
<1>1. TreasuryInv => CreditedOnce
  BY DEF TreasuryInv, Once, Credited, CreditedOnce
<1> QED  BY <1>1, Invariant, PTL

\* auto_topup_monthly_used is the number of attempts that ended paid, whether the
\* answer or the webhook ended them, and each was credited.
THEOREM RechargesAreCounted == AutoSpec => []PaidAttemptsAreCounted
<1>1. TreasuryInv => PaidAttemptsAreCounted
  BY DEF TreasuryInv, Counted
<1> QED  BY <1>1, Invariant, PTL

\* auto_topup_paused_until is set exactly while the counter has reached
\* MAX_CONSECUTIVE_FAILURES, also after the pause has passed and until the sweep, a paid
\* recharge or a new card clears both (finalizeFailure, sweepPausedRenters).
THEOREM BreakerIsExact == AutoSpec => []PausedAfterFailures
<1>1. TreasuryInv => PausedAfterFailures
  BY DEF TreasuryInv, Counted
<1> QED  BY <1>1, Invariant, PTL

\* No late event, sweep, poll or approval moves a paid row but to refunded, nor a
\* refunded row at all.
THEOREM PaidRowsAreFinal == AutoSpec => PaidIsFinal
<1>1. TreasuryInv /\ [AutoNext]_<<topUpVars, autoVars>> =>
        [\A k \in Rows :
           /\ payments[k].status = "paid" => payments'[k].status \in {"paid", "refunded"}
           /\ payments[k].status = "refunded" => payments'[k].status = "refunded"]_payments
  BY StepSound DEF Sound, RowsFinal
<1> QED  BY <1>1, Invariant, PTL DEF AutoSpec, PaidIsFinal

\* Refunds debit the wallet only as a row leaves paid for refunded, whoever learns of
\* the refund first.
THEOREM RefundsDebitOnce == AutoSpec => RefundedOnce
<1>1. TreasuryInv /\ [AutoNext]_<<topUpVars, autoVars>> =>
        [balance' < balance /\ <<payments, refunding>>' # <<payments, refunding>> =>
           \E k \in Rows : payments[k].status = "paid" /\ payments'[k].status = "refunded"
         ]_<<balance, payments, refunding>>
  BY StepSound DEF Sound, DebitsRefund
<1> QED  BY <1>1, Invariant, PTL DEF AutoSpec, RefundedOnce

\* The wallet grows only by a confirmed transfer or by a charge that Moyasar has taken.
THEOREM OnlyMoneyTakenIsCredited == AutoSpec => OnlyPaidIsCredited
<1>1. TreasuryInv /\ [AutoNext]_<<topUpVars, autoVars>> =>
        [balance' > balance =>
           \/ \E k \in TransferRows : Payable(k) /\ payments'[k].status = "paid"
           \/ \E c \in DOMAIN charges :
                credits'[c] > credits[c] /\ charges[c].status \in {"paid", "refunded"}
         ]_balance
  BY StepSound DEF Sound, CreditsMoney
<1> QED  BY <1>1, Invariant, PTL DEF AutoSpec, OnlyPaidIsCredited
=============================================================================
