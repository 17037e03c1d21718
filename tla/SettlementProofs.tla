---------------------------- MODULE SettlementProofs ----------------------------
(***************************************************************************)
(* The money of a job, for every set of jobs and providers and every quote:*)
(* it is settled once, within what was prepaid, with an escrow verdict and *)
(* a refund stamp that agree with where it went; and the whole marketplace *)
(* implements the prepaid contract.                                        *)
(*                                                                         *)
(* These hold where nobody acts on a job whose money is settled already    *)
(* (no late report, none of the repeating exposures); what happens         *)
(* otherwise is what the violation runs show.  A row is then open, with    *)
(* its ledger untouched, or closed, with its ledger final: every handler   *)
(* leaves one row open, closes one, or leaves a closed one alone.          *)
(***************************************************************************)
EXTENDS MarketplaceProofs

\* Nobody acts on settled jobs; metering may still overrun the quote.
NoRepeats == Exposures \subseteq {"overrun"} /\ MaxLate = 0

\* Nothing is metered beyond what was prepaid.
WithinQuote == "overrun" \notin Exposures

OpenRow(r) ==
  /\ r.settles = 0 /\ r.returned = 0 /\ r.earned = 0
  /\ ~r.refunded
  /\ r.hold \notin Released

ClosedRow(r) ==
  /\ r.settles = 1 /\ r.status \in Terminal
  /\ WithinQuote => 0 <= r.returned /\ r.returned + r.earned <= r.cost
  /\ r.refunded => r.returned = r.cost /\ r.earned = 0
  /\ r.hold = "released_renter" => r.earned = 0
  /\ r.hold = "released_provider" => ~r.refunded

\* burst.py and daemons work on rows that exist, and burst.py never stands
\* between its read and its write.
Grounded(r) ==
  /\ r.burst \in {"none", "launching"}
  /\ r.status = "absent" => r.burst = "none" /\ r.agents = {}

\* One row over one step: it stays open, it is closed, or its ledger is final.
StaysOpen(r, s) ==
  /\ OpenRow(r) /\ OpenRow(s) /\ s.cost = r.cost
  /\ s.status = "absent" <=> r.status = "absent"

Closes(r, s) ==
  /\ OpenRow(r) /\ ClosedRow(s) /\ s.cost = r.cost
  /\ r.status # "absent"

StaysClosed(r, s) ==
  /\ ClosedRow(r) /\ ClosedRow(s) /\ s.cost = r.cost
  /\ s.returned = r.returned /\ s.earned = r.earned

Idles(r, s) == StaysOpen(r, s) \/ StaysClosed(r, s)

Turns(r, s) == (Idles(r, s) \/ Closes(r, s)) /\ Grounded(s)

Once == \A j \in Jobs : (OpenRow(job[j]) \/ ClosedRow(job[j])) /\ Grounded(job[j])

\* One step of the table in which the ledger of at most one job moves.
TableTurns(j) ==
  /\ Turns(job[j], job'[j])
  /\ \A k \in Jobs \ {j} : Idles(job[k], job'[k]) /\ Grounded(job'[k])
-----------------------------------------------------------------------------
(* What the transformers do to the ledger of a row. *)

\* Settling an open row within its quote closes it.
LEMMA SettleCloses ==
  ASSUME NEW r \in Row, OpenRow(r), NEW s \in Terminal,
         NEW back \in Int, NEW pay \in Nat,
         WithinQuote => 0 <= back /\ back + pay <= r.cost
  PROVE  LET x == Settle(r, s, back, pay)
         IN  /\ ClosedRow(x) /\ x.cost = r.cost /\ x.earned = pay /\ ~x.refunded
             /\ x.hold = r.hold /\ x.burst = r.burst
  <1>1. /\ r.settles + 1 = 1 /\ r.returned + back = back /\ r.earned + pay = pay
    BY DEF OpenRow, Row
  <1>2. QED
    BY <1>1 DEF Settle, OpenRow, ClosedRow, Row, Released

\* A refund closes an open row with all of the prepaid returned.
LEMMA RefundCloses ==
  ASSUME NEW r \in Row, OpenRow(r), NEW s \in Terminal
  PROVE  LET x == Refund(r, s)
         IN  /\ ClosedRow(x) /\ x.cost = r.cost /\ x.earned = 0
             /\ x.hold = r.hold /\ x.burst = r.burst
             /\ RefundOnce(r, s) = x
  <1>1. /\ r.settles + 1 = 1 /\ r.returned + r.cost = r.cost /\ r.earned + 0 = 0
        /\ 0 <= r.cost /\ r.cost + 0 <= r.cost
    BY DEF OpenRow, Row
  <1>2. QED
    BY <1>1 DEF Refund, RefundOnce, Settle, OpenRow, ClosedRow, Row, Released

\* Releasing the hold of a row just closed, to the side its ledger names.
LEMMA ReleaseCloses ==
  ASSUME NEW r, r \in Row, ClosedRow(r), NEW v \in Released, r.hold \notin Released,
         v = "released_renter" => r.earned = 0,
         v = "released_provider" => ~r.refunded
  PROVE  /\ ClosedRow(Release(r, v)) /\ Release(r, v).cost = r.cost
         /\ Release(r, v).burst = r.burst
  BY DEF Release, ClosedRow, Row

\* What is metered stays within the quote where nothing overruns it.
LEMMA ChargeWithin ==
  ASSUME NEW r \in Row, NEW c \in Metered(r)
  PROVE  /\ 0 <= r.cost - Clamp(c, r.cost)
         /\ (r.cost - Clamp(c, r.cost)) + Share(Clamp(c, r.cost)) <= r.cost
         /\ WithinQuote => /\ 0 <= r.cost - c /\ (r.cost - c) + Share(c) <= r.cost
                           /\ Split(c) <= r.cost
  <1>1. c \in Nat /\ r.cost \in Nat /\ Clamp(c, r.cost) \in Nat /\ Clamp(c, r.cost) <= r.cost
    BY MeteredNat, ClampNat DEF Row
  <1>2. Share(Clamp(c, r.cost)) <= Clamp(c, r.cost) /\ Share(Clamp(c, r.cost)) \in Nat
    BY <1>1, ShareNat
  <1>3. Share(c) <= c /\ Split(c) <= c /\ Share(c) \in Nat /\ Split(c) \in Nat
    BY <1>1, ShareNat
  <1>4. WithinQuote => c <= r.cost
    BY <1>1 DEF WithinQuote, Metered
  <1>5. QED
    BY <1>1, <1>2, <1>3, <1>4
-----------------------------------------------------------------------------
(* From rows to the table. *)

\* A row that is not touched idles, and so does one whose ledger is not.
LEMMA UntouchedIdles ==
  ASSUME NEW r, OpenRow(r) \/ ClosedRow(r)
  PROVE  Idles(r, r)
  BY DEF Idles, StaysOpen, StaysClosed

LEMMA OnceFacts ==
  ASSUME Sound, Once, NEW j \in Jobs
  PROVE  /\ job[j] \in Row
         /\ OpenRow(job[j]) \/ ClosedRow(job[j])
         /\ Grounded(job[j])
         /\ job[j].status \notin Terminal => OpenRow(job[j])
         /\ job[j].settles = 0 => OpenRow(job[j])
  BY SoundFacts DEF Once, OpenRow, ClosedRow

LEMMA PostTurns ==
  ASSUME Sound, Once, NEW j \in Jobs, NEW r, Post(j, r), Turns(job[j], r)
  PROVE  TableTurns(j)
  <1>1. \A k \in Jobs : job'[k] = (IF k = j THEN r ELSE job[k])
    BY DEF Post, Sound
  <1>2. \A k \in Jobs \ {j} : Idles(job[k], job'[k]) /\ Grounded(job'[k])
    BY <1>1, UntouchedIdles DEF Once
  <1>3. QED
    BY <1>1, <1>2 DEF TableTurns, Post

\* A promoted row only waits differently.
LEMMA PostAndPromoteTurns ==
  ASSUME Sound, Once, NEW j \in Jobs, NEW r, PostAndPromote(j, r),
         Turns(job[j], r), r.status \in Terminal
  PROVE  TableTurns(j)
  <1> DEFINE rows == [job EXCEPT ![j] = r]
             promoted(k) == [job[k] EXCEPT !.status = "pending", !.timeout = TRUE]
  <1>1. "queued" \notin Terminal
    BY DEF Terminal
  <1>2. rows = [k \in Jobs |-> IF k = j THEN r ELSE job[k]]
    BY DEF Sound
  <1>3. \/ job' = rows
        \/ \E k \in Jobs : /\ rows[k].status = "queued"
                           /\ job' = [rows EXCEPT ![k].status = "pending",
                                                  ![k].timeout = TRUE]
    BY DEF PostAndPromote, Promoted
  <1>4. ASSUME NEW k \in Jobs \ {j}, job[k].status = "queued"
        PROVE  Idles(job[k], promoted(k)) /\ Grounded(promoted(k))
    <2>1. job[k] \in Row /\ OpenRow(job[k]) /\ Grounded(job[k])
      BY <1>1, <1>4, OnceFacts
    <2>2. QED
      BY <1>4, <2>1 DEF Idles, StaysOpen, OpenRow, Grounded, Row
  <1>5. \A k \in Jobs \ {j} : Idles(job[k], job[k]) /\ Grounded(job[k])
    BY UntouchedIdles DEF Once
  <1>6. /\ job'[j] = r
        /\ \A k \in Jobs \ {j} :
             \/ job'[k] = job[k]
             \/ job[k].status = "queued" /\ job'[k] = promoted(k)
    <2>1. CASE job' = rows
      BY <1>2, <2>1
    <2>2. ASSUME NEW k \in Jobs, rows[k].status = "queued",
                 job' = [rows EXCEPT ![k].status = "pending", ![k].timeout = TRUE]
          PROVE  /\ job'[j] = r
                 /\ \A i \in Jobs \ {j} :
                      \/ job'[i] = job[i]
                      \/ job[i].status = "queued" /\ job'[i] = promoted(i)
      <3>1. k # j
        BY <1>1, <1>2, <2>2
      <3>2. rows[k] = job[k] /\ job'[k] = promoted(k)
        BY <1>2, <2>2, <3>1
      <3>3. \A i \in Jobs \ {k} : job'[i] = rows[i]
        BY <1>2, <2>2
      <3>4. QED
        BY <1>2, <2>2, <3>1, <3>2, <3>3
    <2>3. QED
      BY <1>3, <2>1, <2>2
  <1> HIDE DEF promoted, rows
  <1>7. QED
    BY <1>4, <1>5, <1>6 DEF TableTurns, PostAndPromote

\* A debit: a job is opened, topped up, or refused and given back at once.
TableGrows(j, q) ==
  /\ q \in Quotes
  /\ OpenRow(job[j])
  /\ \A k \in Jobs \ {j} : job'[k] = job[k]
  /\ Grounded(job'[j])
  /\ \/ /\ job[j].status = "absent" /\ job'[j].status # "absent"
        /\ OpenRow(job'[j]) /\ job'[j].cost = q
     \/ /\ job[j].status # "absent" /\ job'[j].status # "absent"
        /\ OpenRow(job'[j]) /\ job'[j].cost = job[j].cost + q
     \/ /\ job[j].status = "absent" /\ job'[j].status # "absent"
        /\ ClosedRow(job'[j])
        /\ job'[j].cost = q /\ job'[j].returned = q /\ job'[j].earned = 0

\* A step that leaves every ledger alone.
TableIdles == \A k \in Jobs : Idles(job[k], job'[k]) /\ Grounded(job'[k])

LedgerStep ==
  \/ TableIdles
  \/ \E j \in Jobs : TableTurns(j)
  \/ \E j \in Jobs, q \in Quotes : TableGrows(j, q)

\* Each of the three kinds of step keeps rows open or closed.
LEMMA LedgerStepKeepsOnce ==
  ASSUME Once, LedgerStep
  PROVE  Once'
  <1>1. ASSUME NEW r, NEW s, Idles(r, s)
        PROVE  OpenRow(s) \/ ClosedRow(s)
    BY <1>1 DEF Idles, StaysOpen, StaysClosed
  <1>2. CASE TableIdles
    BY <1>1, <1>2 DEF TableIdles, Once
  <1>3. ASSUME NEW j \in Jobs, TableTurns(j)  PROVE Once'
    BY <1>1, <1>3 DEF TableTurns, Turns, Closes, Once
  <1>4. ASSUME NEW j \in Jobs, NEW q \in Quotes, TableGrows(j, q)  PROVE Once'
    BY <1>4 DEF TableGrows, Once
  <1>5. QED
    BY <1>2, <1>3, <1>4 DEF LedgerStep
-----------------------------------------------------------------------------
(* The handlers, one lemma for each group of actions. *)

\* A row of an open job whose ledger is not touched.
LEMMA EditTurns ==
  ASSUME NEW r, OpenRow(r), NEW s, Grounded(s),
         r.status # "absent", s.status # "absent",
         s.settles = r.settles, s.returned = r.returned, s.earned = r.earned,
         s.refunded = r.refunded, s.cost = r.cost, s.hold \notin Released
  PROVE  Turns(r, s) /\ OpenRow(s)
  BY DEF Turns, Idles, StaysOpen, OpenRow

\* A daemon leaving changes neither kind of row.
LEMMA LeaveTurns ==
  ASSUME NEW r \in Row, OpenRow(r) \/ ClosedRow(r), Grounded(r), NEW p
  PROVE  LET s == [r EXCEPT !.agents = @ \ {p}]
         IN  /\ Turns(r, s) /\ s.status = r.status /\ s.cost = r.cost /\ s \in Row
             /\ OpenRow(r) => OpenRow(s)
             /\ Grounded(s) /\ Metered(s) = Metered(r)
  <1> DEFINE s == [r EXCEPT !.agents = @ \ {p}]
  <1>1. r.agents \ {p} \in SUBSET Providers
    BY DEF Row
  <1>2. s \in Row /\ s.status = r.status /\ s.cost = r.cost
    BY <1>1 DEF Row
  <1>3. Grounded(s)
    BY DEF Grounded, Row
  <1>4. OpenRow(r) => OpenRow(s)
    BY DEF OpenRow, Row
  <1>5. ClosedRow(r) => StaysClosed(r, s)
    BY DEF ClosedRow, StaysClosed, Row
  <1>6. OpenRow(r) => StaysOpen(r, s)
    BY <1>4 DEF StaysOpen, Row
  <1>7. QED
    BY <1>2, <1>3, <1>4, <1>5, <1>6 DEF Turns, Idles, Metered

\* The handlers that settle an open row, released or not.
LEMMA SettlingTurns ==
  ASSUME NEW r \in Row, OpenRow(r), Grounded(r), r.status # "absent",
         NEW s \in Terminal, NEW back \in Int, NEW pay \in Nat,
         WithinQuote => 0 <= back /\ back + pay <= r.cost
  PROVE  LET x == Settle(r, s, back, pay)
         IN  /\ Turns(r, x) /\ x.status = s
             /\ Turns(r, Release(x, "released_provider"))
             /\ Release(x, "released_provider").status = s
             /\ pay = 0 => Turns(r, Release(x, "released_renter"))
  <1> DEFINE x == Settle(r, s, back, pay)
  <1>1. x \in Row
    <2>1. r.returned + back \in Int /\ r.earned + pay \in Nat /\ r.settles + 1 \in Nat
      BY DEF Row
    <2>2. QED
      BY <2>1, StatusNames DEF Settle, Row
  <1>2. x.status = s
    BY DEF Settle, Row
  <1>3. /\ ClosedRow(x) /\ x.cost = r.cost /\ x.earned = pay /\ ~x.refunded
        /\ x.hold = r.hold /\ x.burst = r.burst
    BY SettleCloses
  <1> HIDE DEF x
  <1>4. \A v \in Released : Release(x, v).status = s
    BY <1>1, <1>2 DEF Release, Row
  <1>5. x.hold \notin Released /\ Grounded(x) /\ s # "absent"
    BY <1>2, <1>3 DEF OpenRow, Grounded, Terminal
  <1>6. \A v \in Released : (v = "released_renter" => pay = 0) =>
          Turns(r, Release(x, v))
    BY <1>1, <1>3, <1>4, <1>5, ReleaseCloses DEF Turns, Closes, Grounded
  <1>7. Turns(r, x)
    BY <1>3, <1>5 DEF Turns, Closes
  <1>8. QED
    BY <1>2, <1>4, <1>6, <1>7 DEF Released, x

LEMMA RefundingTurns ==
  ASSUME NEW r \in Row, OpenRow(r), Grounded(r), r.status # "absent", NEW s \in Terminal
  PROVE  LET x == Refund(r, s)
         IN  /\ RefundOnce(r, s) = x /\ x \in Row
             /\ Turns(r, x) /\ x.status = s
             /\ Turns(r, Release(x, "released_renter"))
             /\ Release(x, "released_renter").status = s
  <1> DEFINE x == Refund(r, s)
  <1>1. x \in Row
    <2>1. r.returned + r.cost \in Int /\ r.earned + 0 \in Nat /\ r.settles + 1 \in Nat
      BY DEF Row
    <2>2. QED
      BY <2>1, StatusNames DEF Refund, Settle, Row
  <1>2. x.status = s
    BY DEF Refund, Settle, Row
  <1>3. /\ ClosedRow(x) /\ x.cost = r.cost /\ x.earned = 0
        /\ x.hold = r.hold /\ x.burst = r.burst /\ RefundOnce(r, s) = x
    BY RefundCloses
  <1> HIDE DEF x
  <1>4. /\ x.hold \notin Released /\ Grounded(x) /\ s # "absent"
        /\ "released_renter" \in Released /\ "released_renter" # "released_provider"
    BY <1>2, <1>3 DEF OpenRow, Grounded, Released, Terminal
  <1>5. Release(x, "released_renter").status = s
    BY <1>1, <1>2 DEF Release, Row
  <1>6. Turns(r, x) /\ Turns(r, Release(x, "released_renter"))
    BY <1>1, <1>3, <1>4, <1>5, ReleaseCloses DEF Turns, Closes, Grounded
  <1>7. QED
    BY <1>1, <1>2, <1>3, <1>5, <1>6 DEF x

\* The pod API.
LEMMA StopPodTurns ==
  ASSUME Sound, Once, NEW j \in Jobs, StopPod(j)
  PROVE  LedgerStep
  <1> DEFINE r == job[j]
  <1>1. /\ r \in Row /\ OpenRow(r) /\ Grounded(r) /\ r.status # "absent"
        /\ "stopped" \in Terminal /\ "cancelled" \in Terminal
    BY OnceFacts DEF StopPod, Terminal
  <1>2. ASSUME NEW c \in Metered(r)  PROVE Turns(r, StopRunning(r, c))
    <2> HIDE DEF r
    <2> DEFINE charge == Clamp(c, r.cost)
    <2>1. /\ Share(charge) \in Nat /\ r.cost - charge \in Int /\ 0 <= r.cost - charge
          /\ (r.cost - charge) + Share(charge) <= r.cost
      BY <1>1, ChargeFacts, ChargeWithin
    <2> HIDE DEF charge
    <2>2. LET x == Settle(r, "stopped", r.cost - charge, Share(charge))
          IN  /\ Turns(r, Release(x, "released_provider"))
              /\ Share(charge) = 0 => Turns(r, Release(x, "released_renter"))
      BY <1>1, <2>1, SettlingTurns
    <2>3. Share(charge) > 0 \/ Share(charge) = 0
      BY <2>1
    <2>4. QED
      BY <2>2, <2>3 DEF StopRunning, charge
  <1>3. Turns(r, StopUnstarted(r))
    BY <1>1, RefundingTurns DEF StopUnstarted
  <1>4. \/ \E c \in Metered(r) : Post(j, StopRunning(r, c))
        \/ Post(j, StopUnstarted(r))
    BY DEF StopPod
  <1>5. TableTurns(j)
    BY <1>2, <1>3, <1>4, PostTurns
  <1>6. QED
    BY <1>5 DEF LedgerStep

\* A debit opens a row whose ledger is empty.
LEMMA OpenGrows ==
  ASSUME Sound, Once, NEW j \in Jobs, NEW s, OpenRow(s), Grounded(s), s.status # "absent",
         s.cost \in Quotes, Open(j, s)
  PROVE  LedgerStep
  <1> DEFINE q == s.cost
  <1>1. job[j].status = "absent" /\ OpenRow(job[j])
    BY OnceFacts DEF Open, Terminal
  <1>2. job'[j] = s /\ \A k \in Jobs \ {j} : job'[k] = job[k]
    BY DEF Open, Sound
  <1>3. TableGrows(j, q)
    BY <1>1, <1>2 DEF Open, TableGrows
  <1>4. QED
    BY <1>3 DEF LedgerStep

LEMMA LaunchTurns ==
  ASSUME Sound, Once, NEW j \in Jobs, NEW q \in Quotes,
         \/ \E t \in Types, p \in Providers : LaunchPod(j, t, q, p)
         \/ LaunchBurst(j, q)
  PROVE  LedgerStep
  <1> DEFINE row == [NoRow EXCEPT !.type = "burst", !.status = "pulling",
                         !.provider = BurstHost, !.cost = q, !.timeout = TRUE]
             up == [row EXCEPT !.burst = "launching"]
             pod(t, p) == [NoRow EXCEPT !.type = t, !.status = "queued",
                                        !.provider = p, !.cost = q]
  <1>1. /\ OpenRow(row) /\ Grounded(row) /\ row.status # "absent" /\ row.cost = q
        /\ OpenRow(up) /\ Grounded(up) /\ up.status # "absent" /\ up.cost = q
    BY DEF NoRow, OpenRow, Grounded, Released
  <1>2. \A t, p : /\ OpenRow(pod(t, p)) /\ Grounded(pod(t, p))
                  /\ pod(t, p).status # "absent" /\ pod(t, p).cost = q
    BY DEF NoRow, OpenRow, Grounded, Released
  <1>3. row \in Row
    <2>1. q \in Nat /\ BurstHost \in Hosts /\ "pulling" \in Statuses
      BY QuotesAssumption, StatusNames DEF Hosts, Live
    <2>2. QED
      BY <2>1, NoRowTyped DEF Row, JobTypes
  <1>4. CASE Open(j, up)
    <2> HIDE DEF up
    <2>1. QED
      BY <1>1, <1>4, OpenGrows
  <1>5. ASSUME NEW t, NEW p, Open(j, pod(t, p))  PROVE LedgerStep
    <2> HIDE DEF pod
    <2>1. QED
      BY <1>2, <1>5, OpenGrows
  <1>6. ASSUME job[j].status = "absent", balance >= q,
               job' = [job EXCEPT ![j] = Refund(row, "failed")],
               UNCHANGED <<balance, late>>
        PROVE  LedgerStep
    <2> HIDE DEF row
    <2>1. OpenRow(job[j]) /\ "failed" \in Terminal
      BY <1>6, OnceFacts DEF Terminal
    <2>2. LET x == Refund(row, "failed")
          IN  /\ ClosedRow(x) /\ x.cost = q /\ x.earned = 0 /\ Grounded(x)
              /\ x.status # "absent" /\ x.returned = q
      <3>1. LET x == Refund(row, "failed")
            IN  ClosedRow(x) /\ x.cost = q /\ x.earned = 0 /\ Grounded(x)
        BY <1>1, <1>3, <2>1, RefundCloses DEF Grounded, ClosedRow, Terminal
      <3>2. LET x == Refund(row, "failed")
            IN  x.status = "failed" /\ x.refunded
        BY <1>3 DEF Refund, Settle, Row
      <3>3. QED
        BY <3>1, <3>2 DEF ClosedRow
    <2>3. job'[j] = Refund(row, "failed") /\ \A k \in Jobs \ {j} : job'[k] = job[k]
      BY <1>6 DEF Sound
    <2>4. TableGrows(j, q)
      BY <1>6, <2>1, <2>2, <2>3 DEF TableGrows
    <2>5. QED
      BY <2>4 DEF LedgerStep
  <1>7. QED
    BY <1>4, <1>5, <1>6 DEF LaunchPod, LaunchBurst

LEMMA ExtendPodTurns ==
  ASSUME Sound, Once, NEW j \in Jobs, NEW q \in Quotes, ExtendPod(j, q)
  PROVE  LedgerStep
  <1> DEFINE r == job[j]
             new == Extended(r, q)
  <1>1. r \in Row /\ OpenRow(r) /\ Grounded(r) /\ r.status # "absent"
    BY OnceFacts DEF ExtendPod, Terminal
  <1>2. job'[j] = new /\ \A k \in Jobs \ {j} : job'[k] = job[k]
    BY DEF ExtendPod, Sound
  <1>3. /\ OpenRow(new) /\ Grounded(new) /\ new.cost = r.cost + q
        /\ new.status = r.status
    BY <1>1 DEF Extended, OpenRow, Grounded, Row
  <1> HIDE DEF new
  <1>4. TableGrows(j, q)
    BY <1>1, <1>2, <1>3 DEF ExtendPod, TableGrows
  <1>5. QED
    BY <1>4 DEF LedgerStep

\* burst.py, when nothing comes between its read and its write.
LEMMA BurstProcessTurns ==
  ASSUME Sound, Once, NoRepeats, NEW j \in Jobs, BurstProcess(j)
  PROVE  LedgerStep
  <1> DEFINE r == job[j]
             mark == [r EXCEPT !.burst = "none"]
             up == [r EXCEPT !.status = "running", !.live = TRUE, !.started = TRUE,
                             !.timeout = TRUE, !.burst = "none"]
             down == [RefundOnce(r, "failed") EXCEPT !.burst = "none"]
  <1>1. r \in Row /\ Grounded(r) /\ (OpenRow(r) \/ ClosedRow(r))
        /\ (r.status \notin Terminal => OpenRow(r))
    BY OnceFacts
  <1>2. Turns(r, mark)
    <2>1. Grounded(mark) /\ (OpenRow(r) => StaysOpen(r, mark))
          /\ (ClosedRow(r) => StaysClosed(r, mark))
      BY <1>1 DEF Grounded, StaysOpen, StaysClosed, OpenRow, ClosedRow, Row
    <2>2. QED
      BY <1>1, <2>1 DEF Turns, Idles
  <1>3. ASSUME r.status \in {"pulling", "queued", "assigned"}  PROVE Turns(r, up)
    <2>1. OpenRow(r)
      BY <1>1, <1>3 DEF Terminal
    <2>2. Grounded(up) /\ StaysOpen(r, up)
      BY <1>1, <1>3, <2>1 DEF Grounded, StaysOpen, OpenRow, Row
    <2>3. QED
      BY <2>2 DEF Turns, Idles
  <1>4. ASSUME r.status \notin Terminal, r.status # "absent"  PROVE Turns(r, down)
    <2> DEFINE x == Refund(r, "failed")
    <2>1. "failed" \in Terminal /\ OpenRow(r)
      BY <1>1, <1>4 DEF Terminal
    <2>2. RefundOnce(r, "failed") = x /\ x \in Row /\ Turns(r, x)
      BY <1>1, <1>4, <2>1, RefundingTurns
    <2>3. ClosedRow(x) /\ x.cost = r.cost
      BY <1>1, <2>1, RefundCloses
    <2> HIDE DEF x
    <2>4. [x EXCEPT !.burst = "none"].burst = "none"
          /\ ClosedRow([x EXCEPT !.burst = "none"])
          /\ [x EXCEPT !.burst = "none"].cost = r.cost
      BY <2>2, <2>3 DEF ClosedRow, Row
    <2>5. QED
      BY <1>4, <2>1, <2>2, <2>4 DEF Turns, Closes, Grounded
  <1>5. "burstRace" \notin Exposures
    BY DEF NoRepeats
  <1>6. \/ Post(j, mark)
        \/ r.status \in {"pulling", "queued", "assigned"} /\ Post(j, up)
        \/ r.status \notin Terminal /\ Post(j, down)
    BY <1>5 DEF BurstProcess, BurstUp, BurstFail
  <1>7. r.status # "absent"
    BY <1>1, <1>5 DEF Grounded, BurstProcess, BurstUp, BurstFail
  <1>8. QED
    BY <1>2, <1>3, <1>4, <1>6, <1>7, PostTurns DEF LedgerStep

\* The provider API: delivery.
LEMMA DeliveryTurns ==
  ASSUME Sound, Once, NEW p \in Providers, NEW j \in Jobs,
         Pickup(p, j) \/ AssignNext(p, j)
  PROVE  LedgerStep
  <1> DEFINE r == job[j]
             given == [r EXCEPT !.provider = p, !.status = "running", !.picked = TRUE,
                                !.started = TRUE, !.timeout = TRUE,
                                !.agents = @ \cup {p}]
             taken == [r EXCEPT !.status = "assigned", !.picked = TRUE, !.timeout = TRUE,
                                !.agents = @ \cup {p},
                                !.hold = IF @ = "held" THEN "locked" ELSE @]
  <1>1. r \in Row /\ OpenRow(r) /\ Grounded(r) /\ r.status # "absent"
    BY OnceFacts DEF Pickup, AssignNext, Eligible, Deliverable, Terminal
  <1>2. Turns(r, Lock(given))
    <2>1. /\ Lock(given).settles = r.settles /\ Lock(given).returned = r.returned
          /\ Lock(given).earned = r.earned /\ Lock(given).refunded = r.refunded
          /\ Lock(given).cost = r.cost /\ Lock(given).burst = r.burst
          /\ Lock(given).status = "running"
          /\ Lock(given).hold \in {"locked", r.hold}
      BY <1>1 DEF Lock, Row
    <2>2. Lock(given).hold \notin Released /\ Grounded(Lock(given))
      BY <1>1, <2>1 DEF OpenRow, Released, Grounded
    <2> HIDE DEF given
    <2>3. QED
      BY <1>1, <2>1, <2>2, EditTurns
  <1>3. Turns(r, taken)
    <2>1. /\ taken.settles = r.settles /\ taken.returned = r.returned
          /\ taken.earned = r.earned /\ taken.refunded = r.refunded
          /\ taken.cost = r.cost /\ taken.burst = r.burst
          /\ taken.status = "assigned" /\ taken.hold \in {"locked", r.hold}
      BY <1>1 DEF Row
    <2>2. taken.hold \notin Released /\ Grounded(taken)
      BY <1>1, <2>1 DEF OpenRow, Released, Grounded
    <2> HIDE DEF taken
    <2>3. QED
      BY <1>1, <2>1, <2>2, EditTurns
  <1>4. Post(j, Lock(given)) \/ Post(j, taken)
    BY DEF Pickup, AssignNext
  <1> HIDE DEF given, taken
  <1>5. TableTurns(j)
    BY <1>2, <1>3, <1>4, PostTurns
  <1>6. QED
    BY <1>5 DEF LedgerStep

\* Without late reports, a report reaches an open row, and its ledger stays.
LEMMA ReportTurns ==
  ASSUME Sound, Once, NoRepeats, NEW p \in Providers, NEW j \in Jobs,
         \/ ProgressPulling(p, j) \/ ProgressExecuting(p, j)
         \/ PodReady(p, j) \/ ServeReady(p, j)
  PROVE  LedgerStep
  <1> DEFINE r == job[j]
             phase(s) == [r EXCEPT !.status = s, !.started = TRUE]
             serve == [r EXCEPT !.status = "running", !.started = TRUE,
                                !.agents = @ \ {p}]
  <1>1. r \in Row /\ Grounded(r) /\ late = 0 /\ MaxLate = 0
    BY SoundFacts, OnceFacts DEF NoRepeats
  <1>2. PICK x \in {phase("pulling"), phase("running"), Endpoint(r, p), serve} :
          Reported(p, j, x)
    BY DEF ProgressPulling, ProgressExecuting, PodReady, ServeReady
  <1>3. ~(r.status \in Terminal /\ r.settles > 0) /\ Post(j, x)
    BY <1>1, <1>2 DEF Reported
  <1>4. r.settles \in Nat
    BY <1>1 DEF Row
  <1>5. OpenRow(r)
    BY <1>3, <1>4, OnceFacts DEF ClosedRow
  <1>6. /\ x.settles = r.settles /\ x.returned = r.returned /\ x.earned = r.earned
        /\ x.refunded = r.refunded /\ x.cost = r.cost /\ x.burst = r.burst
        /\ x.status \in {"pulling", "running"} /\ x.hold = r.hold
    BY <1>1 DEF Endpoint, Row
  <1> HIDE DEF phase, serve
  <1>7. r.status # "absent"
    BY <1>1, <1>2 DEF Reported, Grounded
  <1>8. Turns(r, x)
    BY <1>1, <1>5, <1>6, <1>7, EditTurns DEF OpenRow, Grounded
  <1>9. TableTurns(j)
    BY <1>3, <1>8, PostTurns
  <1>10. QED
    BY <1>9 DEF LedgerStep

LEMMA DaemonLeavesTurns ==
  ASSUME Sound, Once, NEW p \in Providers, NEW j \in Jobs, DaemonLeaves(p, j)
  PROVE  LedgerStep
  <1> DEFINE x == [job[j] EXCEPT !.agents = @ \ {p}]
  <1>1. Turns(job[j], x)
    BY OnceFacts, LeaveTurns
  <1>2. Post(j, x)
    BY DEF DaemonLeaves
  <1> HIDE DEF x
  <1>3. QED
    BY <1>1, <1>2, PostTurns DEF LedgerStep

\* A handler that first lets the daemon go, then settles or edits the row.
LEMMA LeftTurns ==
  ASSUME NEW r, NEW a, NEW x, OpenRow(r), OpenRow(a), a.cost = r.cost,
         a.status = r.status, Turns(a, x)
  PROVE  Turns(r, x)
  BY DEF Turns, Idles, Closes, StaysOpen, StaysClosed, OpenRow, ClosedRow

LEMMA JobResultTurns ==
  ASSUME Sound, Once, NEW p \in Providers, NEW j \in Jobs, JobResult(p, j)
  PROVE  LedgerStep
  <1> DEFINE r == [job[j] EXCEPT !.agents = @ \ {p}]
  <1>1. OpenRow(job[j]) /\ job[j] \in Row /\ Grounded(job[j])
    BY OnceFacts DEF JobResult, Terminal
  <1>2. /\ r \in Row /\ OpenRow(r) /\ Grounded(r) /\ r.status # "absent"
        /\ r.cost = job[j].cost /\ r.status = job[j].status
    BY <1>1, LeaveTurns DEF JobResult
  <1>3. \/ \E c \in Metered(r) : Post(j, JobResultSuccess(r, c))
        \/ Post(j, Release(RefundOnce(r, "failed"), "released_renter"))
    BY DEF JobResult
  <1> HIDE DEF r
  <1>4. "completed" \in Terminal /\ "failed" \in Terminal
    BY DEF Terminal
  <1>5. ASSUME NEW c \in Metered(r)  PROVE Turns(r, JobResultSuccess(r, c))
    <2> DEFINE charge == ResultCharge(r, c)
    <2>1. /\ Share(charge) \in Nat /\ r.cost - charge \in Int
          /\ WithinQuote => /\ 0 <= r.cost - charge
                            /\ (r.cost - charge) + Share(charge) <= r.cost
      BY <1>2, ChargeFacts, ChargeWithin DEF ResultCharge
    <2> HIDE DEF charge
    <2>2. Turns(r, Release(Settle(r, "completed", r.cost - charge, Share(charge)),
                           "released_provider"))
      BY <1>2, <1>4, <2>1, SettlingTurns
    <2>3. QED
      BY <2>2 DEF JobResultSuccess, charge
  <1>6. Turns(r, Release(RefundOnce(r, "failed"), "released_renter"))
    BY <1>2, <1>4, RefundingTurns
  <1>7. TableTurns(j)
    BY <1>1, <1>2, <1>3, <1>5, <1>6, LeftTurns, PostTurns
  <1>8. QED
    BY <1>7 DEF LedgerStep

\* POST result and POST fail: the row is open, and so it is without its daemon.
LEMMA AnsweredTurns ==
  ASSUME NEW r \in Row, OpenRow(r), Grounded(r), r.status # "absent"
  PROVE  LET a == Answered(r)
         IN  /\ a \in Row /\ OpenRow(a) /\ Grounded(a) /\ a.status = r.status
             /\ a.cost = r.cost /\ Metered(a) = Metered(r)
  BY LeaveTurns DEF Answered

LEMMA ReportStepTurns ==
  ASSUME Sound, Once, NEW j \in Jobs,
         ResultSuccess(j) \/ ResultTransient(j) \/ ResultFailure(j) \/ FailReport(j)
  PROVE  LedgerStep
  <1> DEFINE r == job[j]
             a == Answered(r)
             again == [a EXCEPT !.status = "pending", !.picked = FALSE,
                                !.timeout = TRUE, !.retries = @ + 1]
  <1>1. r \in Row /\ OpenRow(r) /\ Grounded(r) /\ r.status # "absent"
    BY OnceFacts
    DEF ResultSuccess, ResultTransient, ResultFailure, FailReport, Live, Terminal
  <1>2. /\ a \in Row /\ OpenRow(a) /\ Grounded(a) /\ a.status # "absent"
        /\ a.status = r.status /\ a.cost = r.cost /\ Metered(a) = Metered(r)
    BY <1>1, AnsweredTurns
  <1>3. "completed" \in Terminal /\ "failed" \in Terminal
    BY DEF Terminal
  <1> HIDE DEF a
  <1>4. ASSUME NEW c \in Metered(r)
        PROVE LET x == Release(PayMetered(a, c), "released_provider")
              IN  Turns(r, x) /\ x.status \in Terminal
    <2>1. /\ Split(c) \in Nat /\ 0 \in Int
          /\ WithinQuote => 0 <= 0 /\ 0 + Split(c) <= a.cost
      BY <1>1, <1>2, ChargeFacts, ChargeWithin
    <2>2. LET x == Release(PayMetered(a, c), "released_provider")
          IN  Turns(a, x) /\ x.status \in Terminal
      BY <1>2, <1>3, <2>1, SettlingTurns DEF PayMetered
    <2>3. QED
      BY <1>1, <1>2, <2>2, LeftTurns
  <1>5. Turns(r, FailedBack(r)) /\ FailedBack(r).status \in Terminal
    <2>1. LET x == Release(RefundOnce(a, "failed"), "released_renter")
          IN  Turns(a, x) /\ x.status \in Terminal
      BY <1>2, <1>3, RefundingTurns
    <2>2. QED
      BY <1>1, <1>2, <2>1, LeftTurns DEF FailedBack, a
  <1>6. Turns(r, again)
    <2>1. /\ again.settles = a.settles /\ again.returned = a.returned
          /\ again.earned = a.earned /\ again.refunded = a.refunded
          /\ again.cost = a.cost /\ again.burst = a.burst
          /\ again.status = "pending" /\ again.hold = a.hold
      BY <1>2 DEF Row
    <2> HIDE DEF again
    <2>2. Turns(a, again)
      BY <1>2, <2>1, EditTurns DEF OpenRow, Grounded
    <2>3. QED
      BY <1>1, <1>2, <2>2, LeftTurns
  <1>7. \/ \E c \in Metered(r) :
             PostAndPromote(j, Release(PayMetered(a, c), "released_provider"))
        \/ Post(j, again)
        \/ PostAndPromote(j, FailedBack(r))
    BY DEF ResultSuccess, ResultTransient, ResultFailure, FailReport, a
  <1> HIDE DEF again, r
  <1>8. TableTurns(j)
    BY <1>4, <1>5, <1>6, <1>7, PostTurns, PostAndPromoteTurns DEF r
  <1>9. QED
    BY <1>8 DEF LedgerStep

\* The job API.  Without the repeating exposures a handler meets an open row.
LEMMA UnsettledOpen ==
  ASSUME Sound, Once, NoRepeats, NEW j \in Jobs,
         NEW e \in {"cancelSettled", "patchSettled", "requeueSettled"},
         job[j].status \in Terminal => MayRepeat(job[j], e)
  PROVE  OpenRow(job[j])
  BY OnceFacts DEF NoRepeats, MayRepeat

LEMMA SubmitTurns ==
  ASSUME Sound, Once, NEW j \in Jobs, NEW t, NEW q \in Quotes, NEW p, NEW queued,
         Open(j, SubmittedRow(t, q, p, queued))
  PROVE  LedgerStep
  <1> DEFINE s == SubmittedRow(t, q, p, queued)
  <1>1. /\ OpenRow(s) /\ s.cost = q /\ s.status \in {"queued", "pending"}
        /\ s.burst = "none"
    BY DEF SubmittedRow, NoRow, OpenRow, Released
  <1> HIDE DEF s
  <1>2. Grounded(s) /\ s.status # "absent"
    BY <1>1 DEF Grounded
  <1>3. QED
    BY <1>1, <1>2, OpenGrows DEF s

LEMMA CancelTurns ==
  ASSUME Sound, Once, NoRepeats, NEW j \in Jobs, Cancel(j) \/ AdminCancel(j)
  PROVE  LedgerStep
  <1> DEFINE r == job[j]
             x == Release(Refund(r, "cancelled"), "released_renter")
             y == Settle(r, "cancelled", r.cost, 0)
  <1>1. /\ r \in Row /\ OpenRow(r) /\ Grounded(r) /\ r.status # "absent"
        /\ "cancelled" \in Terminal
    BY OnceFacts, UnsettledOpen DEF Cancel, AdminCancel, Terminal
  <1>2. Turns(r, x) /\ x.status \in Terminal
    BY <1>1, RefundingTurns
  <1>3. Turns(r, y)
    <2>1. r.cost \in Int /\ 0 \in Nat /\ 0 <= r.cost /\ r.cost + 0 <= r.cost
      BY <1>1 DEF Row
    <2>2. QED
      BY <1>1, <2>1, SettlingTurns
  <1>4. PostAndPromote(j, x) \/ Post(j, y)
    BY DEF Cancel, AdminCancel
  <1> HIDE DEF x, y
  <1>5. TableTurns(j)
    BY <1>2, <1>3, <1>4, PostTurns, PostAndPromoteTurns
  <1>6. QED
    BY <1>5 DEF LedgerStep

LEMMA CompleteTurns ==
  ASSUME Sound, Once, NoRepeats, NEW j \in Jobs, Complete(j) \/ PatchComplete(j)
  PROVE  LedgerStep
  <1> DEFINE r == job[j]
             paid(pay) == Settle(r, "completed", 0, pay)
  <1>1. /\ r \in Row /\ OpenRow(r) /\ Grounded(r) /\ r.status # "absent"
        /\ "completed" \in Terminal
    BY OnceFacts, UnsettledOpen DEF Complete, PatchComplete, Terminal
  <1>2. ASSUME NEW c \in Metered(r), NEW pay \in {0, Split(c)}
        PROVE  Turns(r, paid(pay)) /\ Turns(r, Release(paid(pay), "released_provider"))
    <2>1. /\ pay \in Nat /\ 0 \in Int
          /\ WithinQuote => 0 <= 0 /\ 0 + pay <= r.cost
      BY <1>1, ChargeFacts, ChargeWithin DEF Row
    <2>2. QED
      BY <1>1, <2>1, SettlingTurns
  <1>3. \E c \in Metered(r) :
          \/ Post(j, Release(paid(Split(c)), "released_provider"))
          \/ Post(j, paid(IF r.provider = NoProvider THEN 0 ELSE Split(c)))
    BY DEF Complete, PatchComplete
  <1> HIDE DEF paid
  <1>4. TableTurns(j)
    BY <1>2, <1>3, PostTurns
  <1>5. QED
    BY <1>4 DEF LedgerStep

\* PATCH fail, pause, resume and the admin's requeue leave the ledger open.
LEMMA StatusStepTurns ==
  ASSUME Sound, Once, NoRepeats, NEW j \in Jobs,
         PatchFail(j) \/ Pause(j) \/ Resume(j) \/ AdminRequeue(j)
  PROVE  LedgerStep
  <1> DEFINE r == job[j]
             to(s) == [r EXCEPT !.status = s]
             again == [r EXCEPT !.status = "pending", !.started = FALSE,
                                !.picked = FALSE, !.timeout = TRUE]
  <1>1. r \in Row /\ OpenRow(r) /\ Grounded(r) /\ r.status # "absent"
    BY OnceFacts, UnsettledOpen
    DEF PatchFail, Pause, Resume, AdminRequeue, Live, Terminal
  <1>2. PICK x \in {to("failed"), to("paused"), to("running"), again} : Post(j, x)
    BY DEF PatchFail, Pause, Resume, AdminRequeue
  <1>3. /\ x.settles = r.settles /\ x.returned = r.returned /\ x.earned = r.earned
        /\ x.refunded = r.refunded /\ x.cost = r.cost /\ x.burst = r.burst
        /\ x.status # "absent" /\ x.hold = r.hold
    BY <1>1 DEF Row
  <1> HIDE DEF to, again
  <1>4. Turns(r, x)
    BY <1>1, <1>3, EditTurns DEF OpenRow, Grounded
  <1>5. TableTurns(j)
    BY <1>2, <1>4, PostTurns
  <1>6. QED
    BY <1>5 DEF LedgerStep

\* The timers.
LEMMA EnforceTimeoutTurns ==
  ASSUME Sound, Once, NEW j \in Jobs, EnforceTimeout(j)
  PROVE  LedgerStep
  <1> DEFINE r == job[j]
  <1>1. /\ r \in Row /\ OpenRow(r) /\ Grounded(r) /\ r.status # "absent"
        /\ "completed" \in Terminal /\ "failed" \in Terminal
    BY OnceFacts DEF EnforceTimeout, Live, Terminal
  <1>2. Turns(r, TimedOut(r)) /\ TimedOut(r).status \in Terminal
    BY <1>1, RefundingTurns DEF TimedOut
  <1>3. ASSUME NEW c \in Metered(r)
        PROVE  Turns(r, RentalOver(r, c)) /\ RentalOver(r, c).status \in Terminal
    <2> DEFINE charge == Clamp(c, r.cost)
    <2>1. /\ Share(charge) \in Nat /\ r.cost - charge \in Int /\ 0 <= r.cost - charge
          /\ (r.cost - charge) + Share(charge) <= r.cost
      BY <1>1, ChargeFacts, ChargeWithin
    <2> HIDE DEF charge, r
    <2>2. LET x == Release(Settle(r, "completed", r.cost - charge, Share(charge)),
                           "released_provider")
          IN  Turns(r, x) /\ x.status \in Terminal
      BY <1>1, <2>1, SettlingTurns
    <2>3. QED
      BY <2>2 DEF RentalOver, charge
  <1>4. \/ PostAndPromote(j, TimedOut(r))
        \/ \E c \in Metered(r) : PostAndPromote(j, RentalOver(r, c))
    BY DEF EnforceTimeout
  <1>5. TableTurns(j)
    BY <1>2, <1>3, <1>4, PostAndPromoteTurns
  <1>6. QED
    BY <1>5 DEF LedgerStep

LEMMA PodSweepTurns ==
  ASSUME Sound, Once, NEW j \in Jobs, SettleExpiredPod(j) \/ CancelStalePod(j)
  PROVE  LedgerStep
  <1> DEFINE r == job[j]
             x == Settle(r, "completed", 0, Share(r.cost))
             y == Refund(r, "cancelled")
  <1>1. /\ r \in Row /\ OpenRow(r) /\ Grounded(r) /\ r.status # "absent"
        /\ "completed" \in Terminal /\ "cancelled" \in Terminal
    BY OnceFacts DEF SettleExpiredPod, CancelStalePod, Deliverable, Terminal
  <1>2. Turns(r, x)
    <2>1. r.cost \in Nat
      BY <1>1 DEF Row
    <2>2. Share(r.cost) \in Nat /\ Share(r.cost) <= r.cost /\ 0 \in Int
      BY <2>1, ShareNat
    <2>3. 0 <= 0 /\ 0 + Share(r.cost) <= r.cost
      BY <2>2
    <2>4. QED
      BY <1>1, <2>2, <2>3, SettlingTurns
  <1>3. RefundOnce(r, "cancelled") = y /\ y \in Row /\ Turns(r, y)
    BY <1>1, RefundingTurns
  <1>4. StaleCancelled(r) = y
    <2>1. y.refunded = TRUE
      BY <1>1 DEF Refund, Settle, Row
    <2> HIDE DEF y
    <2>2. [y EXCEPT !.refunded = TRUE] = y
      BY <1>3, <2>1 DEF Row
    <2>3. QED
      BY <1>3, <2>2 DEF StaleCancelled
  <1>5. Post(j, x) \/ Post(j, y)
    BY <1>4 DEF SettleExpiredPod, CancelStalePod
  <1> HIDE DEF x, y
  <1>6. TableTurns(j)
    BY <1>2, <1>3, <1>5, PostTurns
  <1>7. QED
    BY <1>6 DEF LedgerStep

\* A row that leaves its provider keeps its ledger.
LEMMA UnassignKeeps ==
  ASSUME NEW r \in Row, NEW s
  PROVE  LET u == Unassign(r, s)
         IN  /\ u.settles = r.settles /\ u.returned = r.returned
             /\ u.earned = r.earned /\ u.refunded = r.refunded
             /\ u.cost = r.cost /\ u.burst = r.burst /\ u.hold = r.hold
             /\ u.status = s
  BY DEF Unassign, Row

LEMMA SweepRetryTurns ==
  ASSUME Sound, Once, NEW j \in Jobs, SweepRetry(j)
  PROVE  LedgerStep
  <1> DEFINE r == job[j]
             x == Retried(r)
  <1>1. r \in Row /\ OpenRow(r) /\ Grounded(r) /\ r.status # "absent"
    BY OnceFacts DEF SweepRetry, Terminal
  <1>2. /\ x.settles = r.settles /\ x.returned = r.returned /\ x.earned = r.earned
        /\ x.refunded = r.refunded /\ x.cost = r.cost /\ x.burst = r.burst
        /\ x.status \in {"queued", "failed"} /\ x.hold = r.hold
    BY <1>1 DEF Retried, Unassign, Row
  <1>3. Post(j, x)
    BY DEF SweepRetry
  <1> HIDE DEF x
  <1>4. Turns(r, x)
    BY <1>1, <1>2, EditTurns DEF OpenRow, Grounded
  <1>5. QED
    BY <1>3, <1>4, PostTurns DEF LedgerStep

\* Both heartbeat monitors: every row of the provider is open and stays so.
LEMMA OfflineTurns ==
  ASSUME Sound, Once, NEW p \in MayDropOff, ProviderOffline(p) \/ LivenessRequeue(p)
  PROVE  LedgerStep
  <1> DEFINE requeued(j) == [Unassign(job[j], "queued") EXCEPT !.retries = Bump(@)]
             pending(j) == Unassign(job[j], "pending")
  <1>1. ASSUME NEW j \in Jobs, job[j].status \in Live \cup {"pending"},
               NEW x \in {requeued(j), pending(j)}
        PROVE  Idles(job[j], x) /\ Grounded(x)
    <2>1. /\ job[j] \in Row /\ OpenRow(job[j]) /\ Grounded(job[j])
          /\ job[j].status # "absent"
      BY <1>1, OnceFacts DEF Live, Terminal
    <2>2. /\ x.settles = job[j].settles /\ x.returned = job[j].returned
          /\ x.earned = job[j].earned /\ x.refunded = job[j].refunded
          /\ x.cost = job[j].cost /\ x.burst = job[j].burst /\ x.hold = job[j].hold
          /\ x.status \in {"queued", "pending"}
      BY <1>1, <2>1 DEF Unassign, Row
    <2> HIDE DEF requeued, pending
    <2>3. QED
      BY <2>1, <2>2 DEF Idles, StaysOpen, OpenRow, Grounded
  <1>2. ASSUME NEW j \in Jobs
        PROVE  \/ job'[j] = job[j]
               \/ /\ job[j].status \in Live \cup {"pending"}
                  /\ job'[j] \in {requeued(j), pending(j)}
    BY DEF ProviderOffline, LivenessRequeue
  <1>3. \A j \in Jobs : Idles(job[j], job[j]) /\ Grounded(job[j])
    BY UntouchedIdles DEF Once
  <1> HIDE DEF requeued, pending
  <1>4. TableIdles
    BY <1>1, <1>2, <1>3 DEF TableIdles
  <1>5. QED
    BY <1>4 DEF LedgerStep
-----------------------------------------------------------------------------
(* The induction, and what follows from it. *)

\* Every step is a step of the ledger: idle, one job settled, or one debit.
LEMMA NextIsLedgerStep ==
  ASSUME Sound, Once, NoRepeats, Next
  PROVE  LedgerStep
  <1>1. ASSUME NEW j \in Jobs, RenterStep(j)  PROVE LedgerStep
    <2>1. ASSUME NEW q \in Quotes,
                 NEW t \in Types, NEW p \in Providers \cup {NoProvider}, Submit(j, t, q, p)
          PROVE  LedgerStep
      BY <2>1, SubmitTurns DEF Submit
    <2>2. ASSUME NEW q \in Quotes, NEW k \in Jobs, RetryJob(j, k, q)
          PROVE  LedgerStep
      BY <2>2, SubmitTurns DEF RetryJob
    <2>3. QED
      BY <1>1, <2>1, <2>2, LaunchTurns, ExtendPodTurns, StopPodTurns, CancelTurns,
         CompleteTurns
      DEF RenterStep
  <1>2. ASSUME NEW j \in Jobs, AdminStep(j) \/ ReportStep(j)  PROVE LedgerStep
    BY <1>2, CancelTurns, StatusStepTurns, ReportStepTurns, CompleteTurns
    DEF AdminStep, ReportStep
  <1>3. ASSUME NEW j \in Jobs, TimerStep(j)  PROVE LedgerStep
    BY <1>3, EnforceTimeoutTurns, PodSweepTurns, SweepRetryTurns DEF TimerStep
  <1>4. ASSUME NEW j \in Jobs, NEW p \in Providers, DaemonStep(p, j)  PROVE LedgerStep
    BY <1>4, DeliveryTurns, ReportTurns, DaemonLeavesTurns, JobResultTurns DEF DaemonStep
  <1>5. QED
    BY <1>1, <1>2, <1>3, <1>4, BurstProcessTurns, OfflineTurns DEF Next

LEMMA InitOnce == Init => Once
  BY BoundsAssumption DEF Init, Once, NoRow, OpenRow, Grounded, Released

LEMMA NextOnce ==
  ASSUME NoRepeats
  PROVE  Sound /\ Once /\ [Next]_vars => Once'
  <1> SUFFICES ASSUME Sound, Once, [Next]_vars PROVE Once'
    OBVIOUS
  <1>1. CASE Next
    BY <1>1, NextIsLedgerStep, NextSound, LedgerStepKeepsOnce
  <1>2. CASE UNCHANGED vars
    BY <1>2 DEF Once, vars, WithinQuote
  <1>3. QED
    BY <1>1, <1>2

\* Where nobody acts on a settled job, rows are open or closed for ever.
THEOREM OnceAlways ==
  ASSUME NoRepeats
  PROVE  Spec => [](Sound /\ Once)
  BY SoundAlways, InitOnce, NextOnce, PTL DEF Spec

\* The prepaid money of a job is disposed of at most once, and only as the job
\* ends, in whatever order stop, cancel, result, timers and burst.py come.
THEOREM AlwaysSettledOnce ==
  ASSUME NoRepeats
  PROVE  Spec => []SettledOnce
  <1>1. Sound /\ Once => SettledOnce
    BY DEF Sound, Once, SettledOnce, OpenRow, ClosedRow
  <1>2. QED
    BY <1>1, OnceAlways, PTL

\* The escrow verdict always agrees with where the money went.
THEOREM AlwaysHoldVerdict ==
  ASSUME NoRepeats
  PROVE  Spec => []HoldVerdict
  <1>1. Once => HoldVerdict
    BY DEF Once, HoldVerdict, OpenRow, ClosedRow, Released
  <1>2. QED
    BY <1>1, OnceAlways, PTL

\* A refund stamp always means that everything went back to the renter.
THEOREM AlwaysRefundIsWhole ==
  ASSUME NoRepeats
  PROVE  Spec => []RefundIsWhole
  <1>1. Once => RefundIsWhole
    BY DEF Once, RefundIsWhole, OpenRow, ClosedRow
  <1>2. QED
    BY <1>1, OnceAlways, PTL

\* Without overruns the platform never pays out more than was prepaid.
THEOREM PlatformNeverEverPays ==
  ASSUME NoRepeats, WithinQuote
  PROVE  Spec => []PlatformNeverPays
  <1>1. Sound /\ Once => PlatformNeverPays
    <2> SUFFICES ASSUME Sound, Once, NEW j \in Jobs
                 PROVE  job[j].returned + job[j].earned <= job[j].cost
      BY DEF PlatformNeverPays
    <2>1. job[j].cost \in Nat
      BY SoundFacts DEF Row
    <2>2. QED
      BY <2>1 DEF Once, OpenRow, ClosedRow
  <1>2. QED
    BY <1>1, OnceAlways, PTL
-----------------------------------------------------------------------------
(* The marketplace implements the prepaid contract. *)

\* The contract's view of a row.
Image(r) ==
  [phase |-> Phase(r), cost |-> r.cost, back |-> r.returned, pay |-> r.earned]

View == [j \in Jobs |-> Image(job[j])]

\* Idle rows look the same to the contract.
LEMMA IdleImage ==
  ASSUME NEW r, NEW s, Idles(r, s)
  PROVE  Image(s) = Image(r)
  BY DEF Image, Phase, Idles, StaysOpen, StaysClosed, OpenRow, ClosedRow, Terminal

LEMMA InitContract == Init => Contract!Init
  BY DEF Init, NoRow, Phase, Contract!Init, Contract!Unopened

\* A step of the ledger is a step of the contract, or none.
LEMMA LedgerStepContract ==
  ASSUME Sound, Sound', Once, WithinQuote, LedgerStep
  PROVE  Contract!Next \/ View' = View
  <1>1. CASE TableIdles
    BY <1>1, IdleImage DEF TableIdles, View, Image
  <1>2. ASSUME NEW j \in Jobs, TableTurns(j)
        PROVE  Contract!Next \/ View' = View
    <2> DEFINE s == job'[j]
               r == job[j]
    <2>1. \A k \in Jobs \ {j} : Image(job'[k]) = Image(job[k])
      BY <1>2, IdleImage DEF TableTurns
    <2>2. CASE Idles(r, s)
      BY <2>1, <2>2, IdleImage DEF View, Image
    <2>3. CASE Closes(r, s)
      <3>1. Phase(r) = "open" /\ Phase(s) = "closed"
        BY <2>3 DEF Closes, Phase, OpenRow, ClosedRow, Terminal
      <3>2. s \in Row
        BY DEF Sound
      <3>3. /\ s.returned \in Int /\ s.earned \in Nat /\ s.cost \in Nat
            /\ s.cost = r.cost /\ 0 <= s.returned /\ s.returned + s.earned <= s.cost
        BY <2>3, <3>2 DEF Closes, ClosedRow, Row
      <3>4. s.returned \in 0 .. r.cost /\ s.earned \in 0 .. r.cost
            /\ s.returned + s.earned <= r.cost
        BY <3>3
      <3>5. View' = [View EXCEPT ![j] = Image(s)]
        BY <2>1 DEF View, Image
      <3>6. View' = [View EXCEPT ![j].phase = "closed", ![j].back = s.returned,
                                 ![j].pay = s.earned]
        BY <3>1, <3>3, <3>5 DEF View, Image
      <3>7. View[j].phase = "open" /\ View[j].cost = r.cost
        BY <3>1 DEF View, Image
      <3>8. \E back, pay \in 0 .. View[j].cost :
              /\ back + pay <= View[j].cost
              /\ View' = [View EXCEPT ![j].phase = "closed", ![j].back = back,
                                      ![j].pay = pay]
        BY <3>4, <3>6, <3>7
      <3>9. Contract!Close(j)
        BY <3>7, <3>8 DEF Contract!Close, View, Image
      <3>10. QED
        BY <3>9 DEF Contract!Next
    <2>4. QED
      BY <1>2, <2>2, <2>3 DEF TableTurns, Turns
  <1>3. ASSUME NEW j \in Jobs, NEW q \in Quotes, TableGrows(j, q)
        PROVE  Contract!Next
    <2> DEFINE s == job'[j]
               r == job[j]
    <2>1. View' = [View EXCEPT ![j] = Image(s)]
      BY <1>3 DEF TableGrows, View, Image
    <2>2. CASE r.status = "absent" /\ OpenRow(s) /\ s.cost = q /\ s.status # "absent"
      <3>1. Phase(r) = "none" /\ Phase(s) = "open"
            /\ r.returned = 0 /\ r.earned = 0 /\ s.returned = 0 /\ s.earned = 0
        BY <1>3, <2>2 DEF TableGrows, Phase, OpenRow
      <3>2. Contract!Open(j, q)
        BY <2>1, <2>2, <3>1 DEF Contract!Open, View, Image
      <3>3. QED
        BY <3>2 DEF Contract!Next
    <2>3. CASE /\ r.status # "absent" /\ OpenRow(s) /\ s.cost = r.cost + q
               /\ s.status # "absent"
      <3>1. Phase(r) = "open" /\ Phase(s) = "open"
            /\ r.returned = 0 /\ r.earned = 0 /\ s.returned = 0 /\ s.earned = 0
        BY <1>3, <2>3 DEF TableGrows, Phase, OpenRow
      <3>2. Contract!TopUp(j, q)
        BY <2>1, <2>3, <3>1 DEF Contract!TopUp, View, Image
      <3>3. QED
        BY <3>2 DEF Contract!Next
    <2>4. CASE /\ r.status = "absent" /\ s.status # "absent" /\ ClosedRow(s)
               /\ s.cost = q /\ s.returned = q /\ s.earned = 0
      <3>1. Phase(r) = "none" /\ Phase(s) = "closed"
        BY <1>3, <2>4 DEF TableGrows, Phase, OpenRow, ClosedRow
      <3>2. Contract!Refuse(j, q)
        BY <2>1, <2>4, <3>1 DEF Contract!Refuse, View, Image
      <3>3. QED
        BY <3>2 DEF Contract!Next
    <2>5. QED
      BY <1>3, <2>2, <2>3, <2>4 DEF TableGrows
  <1>4. QED
    BY <1>1, <1>2, <1>3 DEF LedgerStep

\* Every behaviour of the marketplace is one the contract allows: a job is
\* opened against a debit, topped up while open, and closed at most once, with
\* no more than was prepaid divided between the renter and the provider.
THEOREM MarketplaceKeepsContract ==
  ASSUME NoRepeats, WithinQuote
  PROVE  Spec => KeepsContract
  <1>1. ASSUME Sound, Sound', Once, [Next]_vars
        PROVE  [Contract!Next]_View
    <2>1. CASE Next
      BY <1>1, <2>1, NextIsLedgerStep, LedgerStepContract
    <2>2. CASE UNCHANGED vars
      BY <2>2 DEF vars, View, Image, Phase
    <2>3. QED
      BY <1>1, <2>1, <2>2
  <1>2. [Contract!Next]_View => [Contract!Next]_([j \in Jobs |->
          [phase |-> Phase(job[j]), cost |-> job[j].cost,
           back |-> job[j].returned, pay |-> job[j].earned]])
    BY DEF View, Image
  <1>3. QED
    BY <1>1, <1>2, OnceAlways, InitContract, PTL DEF Spec, KeepsContract, Contract!Spec
=============================================================================
