--------------------------- MODULE MarketplaceProofs ---------------------------
(***************************************************************************)
(* Type correctness and the structural invariants of the job table, for    *)
(* every set of jobs and providers, every bound and every exposure.        *)
(*                                                                         *)
(* Every handler replaces one row (promotion: two, an offline provider:    *)
(* all of its own), so the inductive invariant is a predicate on rows.     *)
(* The lemmas on Post, PostAndPromote and Open lift it to the table; what  *)
(* remains for each handler is that the row it writes is sound.            *)
(***************************************************************************)
EXTENDS Marketplace, TLAPS

\* A row as every handler may find it.  The second conjunct is what makes the
\* first inductive: a phase report sets a live status without looking at the
\* deadline, so whoever may still report on a row must find one there.
SoundRow(r) ==
  /\ r \in Row
  /\ r.status \in Live \cup {"paused"} => r.timeout
  /\ r.provider \in r.agents => r.timeout
  /\ r.status \in Deliverable => ~r.picked
  /\ r.hold \in Holding => r.holdAmount = r.cost

Sound ==
  /\ job \in [Jobs -> Row]
  /\ \A j \in Jobs : SoundRow(job[j])
  /\ balance \in Int
  /\ late \in 0 .. MaxLate
-----------------------------------------------------------------------------
(* Rows and the helpers that rewrite them. *)

\* The row of a job id nobody has used yet is well typed.
LEMMA NoRowTyped == NoRow \in Row
  BY BoundsAssumption DEF NoRow, Row, Statuses, Hosts, Holding

\* The status names are pairwise separate where the guards rely on it.
LEMMA StatusNames ==
  /\ Live \subseteq Statuses /\ Deliverable \subseteq Statuses
  /\ Terminal \subseteq Statuses /\ "paused" \in Statuses /\ "absent" \in Statuses
  /\ Terminal \cap (Live \cup {"paused"}) = {}
  /\ Terminal \cap Deliverable = {}
  /\ Live \cap Deliverable = {} /\ "paused" \notin Deliverable
  BY DEF Statuses, Live, Deliverable, Terminal

\* Releasing a hold keeps a row sound, whoever it is released to.
LEMMA ReleaseSound ==
  ASSUME NEW r, SoundRow(r), NEW v \in Released
  PROVE  SoundRow(Release(r, v))
  BY DEF Release, SoundRow, Row, Released, Holding

\* Ending a row with a disposition of its money keeps it sound.
LEMMA SettleSound ==
  ASSUME NEW r, SoundRow(r), NEW s \in Terminal, NEW back \in Int, NEW pay \in Nat
  PROVE  SoundRow(Settle(r, s, back, pay))
  <1>1. /\ r.returned + back \in Int
        /\ r.earned + pay \in Nat
        /\ r.settles + 1 \in Nat
    BY DEF SoundRow, Row
  <1>2. Settle(r, s, back, pay) \in Row
    BY <1>1, StatusNames DEF Settle, SoundRow, Row
  <1>3. QED
    BY <1>2, StatusNames DEF Settle, SoundRow, Row

LEMMA RefundSound ==
  ASSUME NEW r, SoundRow(r), NEW s \in Terminal
  PROVE  SoundRow(Refund(r, s))
  <1>1. r.cost \in Int /\ 0 \in Nat
    BY DEF SoundRow, Row
  <1>2. SoundRow(Settle(r, s, r.cost, 0))
    BY <1>1, SettleSound
  <1>3. QED
    BY <1>2 DEF Refund, SoundRow, Row

\* A new terminal status alone.
LEMMA EndSound ==
  ASSUME NEW r, SoundRow(r), NEW s \in Terminal
  PROVE  SoundRow([r EXCEPT !.status = s])
  BY StatusNames DEF SoundRow, Row

LEMMA RefundOnceSound ==
  ASSUME NEW r, SoundRow(r), NEW s \in Terminal
  PROVE  SoundRow(RefundOnce(r, s))
  BY RefundSound, EndSound DEF RefundOnce

\* A daemon that is done with a job leaves a sound row behind.
LEMMA LeaveSound ==
  ASSUME NEW r, SoundRow(r), NEW p
  PROVE  SoundRow([r EXCEPT !.agents = @ \ {p}])
  <1>1. r.agents \ {p} \in SUBSET Providers
    BY DEF SoundRow, Row
  <1>2. QED
    BY <1>1 DEF SoundRow, Row

\* The shares of a metered cost are natural numbers.
LEMMA ShareNat ==
  ASSUME NEW c \in Nat
  PROVE  Share(c) \in Nat /\ Split(c) \in Nat /\ Share(c) <= c /\ Split(c) <= c
  BY DEF Share, Split

\* What is metered is a natural number.
LEMMA MeteredNat ==
  ASSUME NEW r \in Row, NEW c \in Metered(r)
  PROVE  c \in Nat
  BY BoundsAssumption DEF Metered, Row

LEMMA ClampNat ==
  ASSUME NEW c \in Nat, NEW q \in Nat
  PROVE  Clamp(c, q) \in Nat /\ Clamp(c, q) <= q
  BY DEF Clamp
-----------------------------------------------------------------------------
(* From rows to the table. *)

\* Sound is preserved by posting a sound row.
LEMMA PostSound ==
  ASSUME Sound, NEW j \in Jobs, NEW r, SoundRow(r), Post(j, r),
         late' \in 0 .. MaxLate
  PROVE  Sound'
  <1>1. r \in Row /\ r.returned \in Int /\ job[j].returned \in Int
    BY DEF Sound, SoundRow, Row
  <1>2. job' \in [Jobs -> Row] /\ balance' \in Int
    BY <1>1 DEF Post, Sound
  <1>3. \A k \in Jobs : job'[k] = (IF k = j THEN r ELSE job[k])
    BY DEF Post, Sound
  <1>4. QED
    BY <1>2, <1>3 DEF Sound

\* Promotion only makes a waiting row pending and gives it a deadline.
LEMMA PromotedSound ==
  ASSUME NEW rows \in [Jobs -> Row], \A k \in Jobs : SoundRow(rows[k]),
         NEW p, NEW new \in Promoted(rows, p)
  PROVE  /\ new \in [Jobs -> Row]
         /\ \A k \in Jobs : SoundRow(new[k])
  <1> DEFINE promote(k) ==
        [rows EXCEPT ![k].status = "pending", ![k].timeout = TRUE]
  <1>1. CASE new = rows
    BY <1>1
  <1>2. ASSUME NEW k \in Jobs, rows[k].status = "queued", new = promote(k)
        PROVE  /\ new \in [Jobs -> Row]
               /\ \A i \in Jobs : SoundRow(new[i])
    <2> DEFINE r == [rows[k] EXCEPT !.status = "pending", !.timeout = TRUE]
    <2>1. new = [rows EXCEPT ![k] = r]
      BY <1>2
    <2>2. SoundRow(rows[k])
      OBVIOUS
    <2>3. SoundRow(r)
      BY <1>2, <2>2, StatusNames DEF SoundRow, Row, Deliverable, Live
    <2>4. r \in Row
      BY <2>3 DEF SoundRow
    <2> HIDE DEF r
    <2>5. QED
      BY <2>1, <2>3, <2>4
  <1>3. QED
    BY <1>1, <1>2 DEF Promoted

LEMMA PostAndPromoteSound ==
  ASSUME Sound, NEW j \in Jobs, NEW r, SoundRow(r), PostAndPromote(j, r),
         late' \in 0 .. MaxLate
  PROVE  Sound'
  <1>1. r \in Row /\ r.returned \in Int /\ job[j].returned \in Int
    BY DEF Sound, SoundRow, Row
  <1> DEFINE rows == [job EXCEPT ![j] = r]
  <1>2. rows \in [Jobs -> Row] /\ \A k \in Jobs : SoundRow(rows[k])
    BY <1>1 DEF Sound
  <1>3. job' \in [Jobs -> Row] /\ \A k \in Jobs : SoundRow(job'[k])
    <2>1. job' \in Promoted(rows, job[j].provider)
      BY DEF PostAndPromote
    <2> HIDE DEF rows
    <2>2. QED
      BY <1>2, <2>1, PromotedSound
  <1>4. balance' \in Int
    BY <1>1 DEF PostAndPromote, Sound
  <1>5. QED
    BY <1>3, <1>4 DEF Sound

LEMMA OpenSound ==
  ASSUME Sound, NEW j \in Jobs, NEW r, SoundRow(r), Open(j, r)
  PROVE  Sound'
  <1>1. r \in Row /\ r.cost \in Int
    BY DEF SoundRow, Row
  <1>2. job' \in [Jobs -> Row] /\ balance' \in Int /\ late' = late
    BY <1>1 DEF Open, Sound
  <1>3. \A k \in Jobs : job'[k] = (IF k = j THEN r ELSE job[k])
    BY DEF Open, Sound
  <1>4. QED
    BY <1>2, <1>3 DEF Sound
-----------------------------------------------------------------------------
(* The handlers, one step for each action. *)

\* A row whose daemon has just been added, as both poll routes leave it.
LEMMA DeliveredSound ==
  ASSUME NEW r, SoundRow(r), NEW p \in Providers, NEW s \in Live,
         NEW q \in Hosts, NEW b \in BOOLEAN
  PROVE  SoundRow([r EXCEPT !.provider = q, !.status = s, !.picked = TRUE,
                            !.started = b, !.timeout = TRUE,
                            !.agents = @ \cup {p}])
  <1>1. r.agents \cup {p} \in SUBSET Providers /\ s \in Statuses
    BY StatusNames DEF SoundRow, Row
  <1>2. QED
    BY <1>1, StatusNames DEF SoundRow, Row

\* Locking a hold, or creating one, records the prepaid amount.
LEMMA LockSound ==
  ASSUME NEW r, SoundRow(r)
  PROVE  SoundRow(Lock(r))
  <1>1. CASE r.hold = "none"
    BY <1>1 DEF Lock, SoundRow, Row, Holding
  <1>2. CASE r.hold = "held"
    BY <1>2 DEF Lock, SoundRow, Row, Holding
  <1>3. CASE r.hold \notin {"none", "held"}
    BY <1>3 DEF Lock
  <1>4. QED
    BY <1>1, <1>2, <1>3

\* The wallet and the counters are typed in every sound state.
LEMMA SoundFacts ==
  ASSUME Sound, NEW j \in Jobs
  PROVE  /\ SoundRow(job[j]) /\ job[j] \in Row
         /\ balance \in Int /\ late \in 0 .. MaxLate
  BY DEF Sound

\* The pod API and burst.py.
LEMMA LaunchPodSound ==
  ASSUME Sound, NEW j \in Jobs, NEW t \in Types, NEW q \in Quotes,
         NEW p \in Providers, LaunchPod(j, t, q, p)
  PROVE  Sound'
  <1> DEFINE r == [NoRow EXCEPT !.type = t, !.status = "queued",
                                !.provider = p, !.cost = q]
  <1>1. q \in Nat /\ t \in JobTypes /\ p \in Hosts /\ "queued" \in Statuses
    BY QuotesAssumption, TypesAssumption, StatusNames DEF Hosts, Deliverable
  <1>2. r \in Row
    BY <1>1, NoRowTyped DEF Row
  <1>3. SoundRow(r)
    BY <1>2, StatusNames DEF SoundRow, NoRow, Deliverable, Live, Holding
  <1>4. Open(j, r)
    BY DEF LaunchPod
  <1> HIDE DEF r
  <1>5. QED
    BY <1>3, <1>4, OpenSound

LEMMA LaunchBurstSound ==
  ASSUME Sound, NEW j \in Jobs, NEW q \in Quotes, LaunchBurst(j, q)
  PROVE  Sound'
  <1> DEFINE row == [NoRow EXCEPT !.type = "burst", !.status = "pulling",
                         !.provider = BurstHost, !.cost = q, !.timeout = TRUE]
             up == [row EXCEPT !.burst = "launching"]
             down == Refund(row, "failed")
  <1>1. q \in Nat /\ BurstHost \in Hosts /\ "pulling" \in Statuses
    BY QuotesAssumption, StatusNames DEF Hosts, Live
  <1>2. row \in Row /\ up \in Row
    BY <1>1, NoRowTyped DEF Row, JobTypes
  <1>3. SoundRow(row) /\ SoundRow(up)
    BY <1>2, StatusNames, HostsAssumption
    DEF SoundRow, NoRow, Deliverable, Live, Holding
  <1>4. SoundRow(down)
    <2>1. "failed" \in Terminal
      BY DEF Terminal
    <2> HIDE DEF row
    <2>2. QED
      BY <1>3, <2>1, RefundSound
  <1>5. CASE Open(j, up)
    <2> HIDE DEF up
    <2>1. QED
      BY <1>3, <1>5, OpenSound
  <1>6. CASE /\ job' = [job EXCEPT ![j] = down]
             /\ UNCHANGED <<balance, late>>
    <2> HIDE DEF down
    <2>1. job' \in [Jobs -> Row]
      BY <1>4, <1>6 DEF Sound, SoundRow
    <2>2. \A k \in Jobs : job'[k] = (IF k = j THEN down ELSE job[k])
      BY <1>6 DEF Sound
    <2>3. QED
      BY <1>4, <1>6, <2>1, <2>2 DEF Sound
  <1>7. QED
    BY <1>5, <1>6 DEF LaunchBurst

\* What a clamped charge leaves for either side.
LEMMA ChargeFacts ==
  ASSUME NEW r \in Row, NEW c \in Metered(r)
  PROVE  /\ c \in Nat /\ Share(c) \in Nat /\ Split(c) \in Nat
         /\ Clamp(c, r.cost) \in Nat /\ Share(Clamp(c, r.cost)) \in Nat
         /\ r.cost - Clamp(c, r.cost) \in Int /\ r.cost - c \in Int
  <1>1. c \in Nat /\ r.cost \in Nat
    BY MeteredNat DEF Row
  <1>2. Clamp(c, r.cost) \in Nat
    BY <1>1, ClampNat
  <1>3. QED
    BY <1>1, <1>2, ShareNat

LEMMA StopPodSound ==
  ASSUME Sound, NEW j \in Jobs, StopPod(j)
  PROVE  Sound'
  <1> DEFINE r == job[j]
  <1>1. SoundRow(r) /\ r \in Row /\ late' \in 0 .. MaxLate
    BY SoundFacts DEF StopPod
  <1>2. {"stopped", "cancelled"} \subseteq Terminal
        /\ {"released_provider", "released_renter"} \subseteq Released
    BY DEF Terminal, Released
  <1>3. ASSUME NEW c \in Metered(r), Post(j, StopRunning(r, c))
        PROVE  Sound'
    <2> HIDE DEF r
    <2> DEFINE charge == Clamp(c, r.cost)
               settled == Settle(r, "stopped", r.cost - charge, Share(charge))
               verdict == IF Share(charge) > 0 THEN "released_provider"
                                               ELSE "released_renter"
    <2>1. SoundRow(settled)
      BY <1>1, <1>2, ChargeFacts, SettleSound
    <2>2. verdict \in Released
      BY <1>2
    <2>3. StopRunning(r, c) = Release(settled, verdict)
      BY DEF StopRunning
    <2> HIDE DEF settled, verdict
    <2>4. SoundRow(StopRunning(r, c))
      BY <2>1, <2>2, <2>3, ReleaseSound
    <2>5. QED
      BY <1>1, <1>3, <2>4, PostSound
  <1>4. SoundRow(StopUnstarted(r))
    BY <1>1, <1>2, RefundSound, ReleaseSound DEF StopUnstarted
  <1>5. CASE Post(j, StopUnstarted(r))
    BY <1>1, <1>4, <1>5, PostSound
  <1>6. QED
    BY <1>3, <1>5 DEF StopPod

LEMMA ExtendPodSound ==
  ASSUME Sound, NEW j \in Jobs, NEW q \in Quotes, ExtendPod(j, q)
  PROVE  Sound'
  <1> DEFINE r == job[j]
  <1>1. SoundRow(r) /\ r \in Row /\ q \in Nat
    BY SoundFacts, QuotesAssumption
  <1>2. r.cost + q \in Nat /\ r.holdAmount + q \in Nat
    BY <1>1 DEF Row
  <1>3. Extended(r, q) \in Row
    BY <1>1, <1>2 DEF Extended, Row
  <1>4. SoundRow(Extended(r, q))
    BY <1>1, <1>2, <1>3 DEF Extended, SoundRow, Row
  <1>5. job' = [job EXCEPT ![j] = Extended(r, q)] /\ balance' \in Int /\ late' = late
    BY <1>1, SoundFacts DEF ExtendPod
  <1>6. \A k \in Jobs : SoundRow(job'[k])
    <2> DEFINE new == Extended(r, q)
    <2>1. \A k \in Jobs : job'[k] = IF k = j THEN new ELSE job[k]
      BY <1>5 DEF Sound
    <2> HIDE DEF new
    <2>2. QED
      BY <1>4, <2>1 DEF Sound, new
  <1>7. job' \in [Jobs -> Row]
    BY <1>3, <1>5 DEF Sound
  <1>8. QED
    BY <1>5, <1>6, <1>7 DEF Sound

\* burst.py: the row comes up, or it is failed, whatever was read before.
LEMMA BurstMarkSound ==
  ASSUME NEW r, SoundRow(r), NEW b \in {"none", "launching", "refunding", "failing"}
  PROVE  SoundRow([r EXCEPT !.burst = b])
  BY DEF SoundRow, Row

LEMMA BurstProcessSound ==
  ASSUME Sound, NEW j \in Jobs, BurstProcess(j)
  PROVE  Sound'
  <1> DEFINE r == job[j]
  <1>1. SoundRow(r) /\ r \in Row /\ late' \in 0 .. MaxLate
    BY SoundFacts DEF BurstProcess, BurstUp, BurstFailRead, BurstFailWrite, BurstFail
  <1>2. SoundRow([r EXCEPT !.burst = "none"])
    BY <1>1, BurstMarkSound
  <1>3. "failed" \in Terminal /\ "running" \in Statuses \cap Live
    BY StatusNames DEF Terminal, Live
  <1>4. CASE BurstUp(j)
    <2> DEFINE up == [r EXCEPT !.status = "running", !.live = TRUE, !.started = TRUE,
                               !.timeout = TRUE, !.burst = "none"]
    <2>1. up \in Row
      BY <1>1, <1>3 DEF Row
    <2>2. SoundRow(up)
      BY <1>1, <1>3, <2>1, StatusNames DEF SoundRow, Row
    <2>3. Post(j, up) \/ Post(j, [r EXCEPT !.burst = "none"])
      BY <1>4 DEF BurstUp
    <2> HIDE DEF up, r
    <2>4. QED
      BY <1>1, <1>2, <2>2, <2>3, PostSound
  <1>5. CASE BurstFailRead(j)
    <2>1. PICK b \in {"none", "launching", "refunding", "failing"} :
            Post(j, [r EXCEPT !.burst = b])
      BY <1>5 DEF BurstFailRead
    <2> HIDE DEF r
    <2>2. QED
      BY <1>1, <2>1, BurstMarkSound, PostSound
  <1>6. CASE BurstFailWrite(j)
    <2>1. SoundRow(IF r.burst = "refunding" THEN Refund(r, "failed")
                   ELSE [r EXCEPT !.status = "failed"])
      BY <1>1, <1>3, RefundSound, EndSound
    <2>2. SoundRow(BurstFailed(r))
      BY <2>1, BurstMarkSound DEF BurstFailed
    <2>3. Post(j, BurstFailed(r))
      BY <1>6 DEF BurstFailWrite
    <2>4. QED
      BY <1>1, <2>2, <2>3, PostSound
  <1>7. CASE BurstFail(j)
    <2> DEFINE down == [RefundOnce(r, "failed") EXCEPT !.burst = "none"]
    <2>1. SoundRow(down)
      BY <1>1, <1>3, RefundOnceSound, BurstMarkSound
    <2>2. Post(j, down) \/ Post(j, [r EXCEPT !.burst = "none"])
      BY <1>7 DEF BurstFail
    <2> HIDE DEF down, r
    <2>3. QED
      BY <1>1, <1>2, <2>1, <2>2, PostSound
  <1>8. QED
    BY <1>4, <1>5, <1>6, <1>7 DEF BurstProcess

\* The provider API.
LEMMA PickupSound ==
  ASSUME Sound, NEW p \in Providers, NEW j \in Jobs, Pickup(p, j)
  PROVE  Sound'
  <1> DEFINE r == job[j]
             new == [r EXCEPT !.provider = p, !.status = "running", !.picked = TRUE,
                              !.started = TRUE, !.timeout = TRUE,
                              !.agents = @ \cup {p}]
  <1>1. SoundRow(r) /\ late' \in 0 .. MaxLate
    BY SoundFacts DEF Pickup
  <1>2. p \in Hosts /\ "running" \in Live
    BY DEF Hosts, Live
  <1>3. SoundRow(new)
    BY <1>1, <1>2, DeliveredSound
  <1>4. Post(j, Lock(new))
    BY DEF Pickup
  <1> HIDE DEF new
  <1>5. QED
    BY <1>1, <1>3, <1>4, LockSound, PostSound

LEMMA AssignNextSound ==
  ASSUME Sound, NEW p \in Providers, NEW j \in Jobs, AssignNext(p, j)
  PROVE  Sound'
  <1> DEFINE r == job[j]
             new == [r EXCEPT !.status = "assigned", !.picked = TRUE, !.timeout = TRUE,
                              !.agents = @ \cup {p},
                              !.hold = IF @ = "held" THEN "locked" ELSE @]
  <1>1. SoundRow(r) /\ late' \in 0 .. MaxLate
    BY SoundFacts DEF AssignNext
  <1>2. r.agents \cup {p} \in SUBSET Providers /\ "assigned" \in Statuses
    BY <1>1, StatusNames DEF SoundRow, Row, Live
  <1>3. new \in Row
    BY <1>1, <1>2 DEF SoundRow, Row, Holding
  <1>4. SoundRow(new)
    BY <1>1, <1>3, StatusNames DEF SoundRow, Row, Holding, Live
  <1>5. Post(j, new)
    BY DEF AssignNext
  <1> HIDE DEF new
  <1>6. QED
    BY <1>1, <1>4, <1>5, PostSound

\* Reports: the row is one the reporting daemon is still working on, so it has
\* a deadline, and the count of late ones stays within its bound.
LEMMA ReportedSound ==
  ASSUME Sound, NEW p \in Providers, NEW j \in Jobs, NEW r, Reported(p, j, r),
         job[j].timeout => SoundRow(r)
  PROVE  Sound'
  <1>1. SoundRow(job[j]) /\ late \in 0 .. MaxLate
    BY SoundFacts
  <1>2. SoundRow(r)
    BY <1>1 DEF Reported, SoundRow
  <1>3. late' \in 0 .. MaxLate
    BY <1>1, BoundsAssumption DEF Reported
  <1>4. QED
    BY <1>2, <1>3, PostSound DEF Reported

\* The four phase and readiness reports.
LEMMA ReportSound ==
  ASSUME Sound, NEW p \in Providers, NEW j \in Jobs,
         \/ ProgressPulling(p, j) \/ ProgressExecuting(p, j)
         \/ PodReady(p, j) \/ ServeReady(p, j)
  PROVE  Sound'
  <1> DEFINE r == job[j]
             phase(s) == [r EXCEPT !.status = s, !.started = TRUE]
             serve == [r EXCEPT !.status = "running", !.started = TRUE,
                                !.agents = @ \ {p}]
  <1>1. SoundRow(r) /\ r \in Row
    BY SoundFacts
  <1>2. "pulling" \in Live /\ "running" \in Live /\ r.agents \ {p} \in SUBSET r.agents
    BY DEF Live
  <1>3. ASSUME r.timeout, NEW s \in Live  PROVE SoundRow(phase(s))
    BY <1>1, <1>3, StatusNames DEF SoundRow, Row
  <1>4. ASSUME r.timeout  PROVE SoundRow(serve)
    <2>1. r.agents \ {p} \in SUBSET Providers /\ "running" \in Statuses
      BY <1>1, <1>2, StatusNames DEF Row
    <2>2. QED
      BY <1>1, <1>2, <1>4, <2>1, StatusNames DEF SoundRow, Row
  <1>5. ASSUME r.timeout  PROVE SoundRow(Endpoint(r, p))
    <2>1. r.agents \ {p} \in SUBSET Providers /\ "running" \in Statuses
          /\ (r.started \/ ~r.live) \in BOOLEAN /\ (r.timeout \/ ~r.live) = TRUE
      BY <1>1, <1>2, <1>5, StatusNames DEF Row
    <2>2. Endpoint(r, p) \in Row
      BY <1>1, <2>1 DEF Endpoint, Row
    <2>3. QED
      BY <1>1, <1>2, <1>5, <2>1, <2>2, StatusNames DEF Endpoint, SoundRow, Row
  <1>6. CASE ProgressPulling(p, j)
    <2>1. Reported(p, j, phase("pulling"))
      BY <1>6 DEF ProgressPulling
    <2> HIDE DEF phase
    <2>2. QED
      BY <1>2, <1>3, <2>1, ReportedSound
  <1>7. CASE ProgressExecuting(p, j)
    <2>1. Reported(p, j, phase("running"))
      BY <1>7 DEF ProgressExecuting
    <2> HIDE DEF phase
    <2>2. QED
      BY <1>2, <1>3, <2>1, ReportedSound
  <1>8. CASE PodReady(p, j)
    BY <1>5, <1>8, ReportedSound DEF PodReady
  <1>9. CASE ServeReady(p, j)
    <2>1. Reported(p, j, serve)
      BY <1>9 DEF ServeReady
    <2> HIDE DEF serve
    <2>2. QED
      BY <1>4, <2>1, ReportedSound
  <1>10. QED
    BY <1>6, <1>7, <1>8, <1>9

LEMMA DaemonLeavesSound ==
  ASSUME Sound, NEW p \in Providers, NEW j \in Jobs, DaemonLeaves(p, j)
  PROVE  Sound'
  <1> DEFINE new == [job[j] EXCEPT !.agents = @ \ {p}]
  <1>1. SoundRow(new) /\ late' \in 0 .. MaxLate
    BY SoundFacts, LeaveSound DEF DaemonLeaves
  <1>2. Post(j, new)
    BY DEF DaemonLeaves
  <1> HIDE DEF new
  <1>3. QED
    BY <1>1, <1>2, PostSound

LEMMA JobResultSound ==
  ASSUME Sound, NEW p \in Providers, NEW j \in Jobs, JobResult(p, j)
  PROVE  Sound'
  <1> DEFINE r == [job[j] EXCEPT !.agents = @ \ {p}]
  <1>1. SoundRow(r) /\ late' \in 0 .. MaxLate
    BY SoundFacts, LeaveSound DEF JobResult
  <1>2. {"completed", "failed"} \subseteq Terminal
        /\ {"released_provider", "released_renter"} \subseteq Released
    BY DEF Terminal, Released
  <1>3. \/ \E c \in Metered(r) : Post(j, JobResultSuccess(r, c))
        \/ Post(j, Release(RefundOnce(r, "failed"), "released_renter"))
    BY DEF JobResult
  <1> HIDE DEF r
  <1>4. SoundRow(Release(RefundOnce(r, "failed"), "released_renter"))
    BY <1>1, <1>2, RefundOnceSound, ReleaseSound
  <1>5. ASSUME NEW c \in Metered(r)  PROVE SoundRow(JobResultSuccess(r, c))
    <2> DEFINE charge == ResultCharge(r, c)
               settled == Settle(r, "completed", r.cost - charge, Share(charge))
    <2>1. r \in Row
      BY <1>1 DEF SoundRow
    <2>2. Share(charge) \in Nat /\ r.cost - charge \in Int
      BY <2>1, ChargeFacts DEF ResultCharge
    <2>3. SoundRow(settled)
      BY <1>1, <1>2, <2>2, SettleSound
    <2>4. JobResultSuccess(r, c) = Release(settled, "released_provider")
      BY DEF JobResultSuccess
    <2> HIDE DEF settled
    <2>5. QED
      BY <1>2, <2>3, <2>4, ReleaseSound
  <1>6. QED
    BY <1>1, <1>3, <1>4, <1>5, PostSound

\* POST result and POST fail.
LEMMA AnsweredSound ==
  ASSUME NEW r, SoundRow(r)
  PROVE  SoundRow(Answered(r)) /\ Metered(Answered(r)) = Metered(r)
  <1>1. SoundRow(Answered(r))
    BY LeaveSound DEF Answered
  <1>2. Answered(r).cost = r.cost
    BY DEF Answered, SoundRow, Row
  <1>3. QED
    BY <1>1, <1>2 DEF Metered

LEMMA ReportStepSound ==
  ASSUME Sound, NEW j \in Jobs,
         ResultSuccess(j) \/ ResultTransient(j) \/ ResultFailure(j) \/ FailReport(j)
  PROVE  Sound'
  <1> DEFINE r == job[j]
             a == Answered(r)
             again == [a EXCEPT !.status = "pending", !.picked = FALSE,
                                !.timeout = TRUE, !.retries = @ + 1]
  <1>1. SoundRow(r) /\ SoundRow(a) /\ Metered(a) = Metered(r) /\ late' \in 0 .. MaxLate
    BY SoundFacts, AnsweredSound
    DEF ResultSuccess, ResultTransient, ResultFailure, FailReport
  <1>2. {"completed", "failed"} \subseteq Terminal
        /\ {"released_provider", "released_renter"} \subseteq Released
    BY DEF Terminal, Released
  <1>3. SoundRow(FailedBack(r))
    BY <1>1, <1>2, RefundOnceSound, ReleaseSound DEF FailedBack
  <1>4. CASE ResultSuccess(j)
    <2>1. PICK c \in Metered(r) :
            PostAndPromote(j, Release(PayMetered(a, c), "released_provider"))
      BY <1>4 DEF ResultSuccess
    <2> HIDE DEF r, a
    <2>2. a \in Row /\ 0 \in Int
      BY <1>1 DEF SoundRow
    <2>3. Split(c) \in Nat
      BY <1>1, <2>2, ChargeFacts
    <2>4. SoundRow(Release(PayMetered(a, c), "released_provider"))
      BY <1>1, <1>2, <2>2, <2>3, SettleSound, ReleaseSound DEF PayMetered
    <2>5. QED
      BY <1>1, <2>1, <2>4, PostAndPromoteSound
  <1>5. CASE ResultTransient(j)
    <2>1. a.retries = r.retries /\ a \in Row /\ r.retries \in 0 .. MaxRetries
      BY <1>1 DEF Answered, SoundRow, Row
    <2>2. a.retries + 1 \in 0 .. MaxRetries /\ "pending" \in Statuses
      BY <1>5, <2>1, StatusNames, BoundsAssumption DEF ResultTransient, Deliverable
    <2> HIDE DEF a
    <2>3. again \in Row
      BY <2>1, <2>2 DEF Row
    <2>4. SoundRow(again)
      BY <1>1, <2>1, <2>3, StatusNames DEF SoundRow, Row, Deliverable, Live
    <2>5. Post(j, again)
      BY <1>5 DEF ResultTransient, a
    <2> HIDE DEF again
    <2>6. QED
      BY <1>1, <2>4, <2>5, PostSound
  <1>6. CASE ResultFailure(j) \/ FailReport(j)
    BY <1>1, <1>3, <1>6, PostAndPromoteSound DEF ResultFailure, FailReport
  <1>7. QED
    BY <1>4, <1>5, <1>6

\* The job API.
LEMMA SubmittedSound ==
  ASSUME NEW t \in JobTypes \cup {"none"}, NEW q \in Quotes, NEW p \in Hosts,
         NEW queued \in BOOLEAN
  PROVE  SoundRow(SubmittedRow(t, q, p, queued))
  <1> DEFINE st == IF queued THEN "queued" ELSE "pending"
             h == IF p = NoProvider THEN "none" ELSE "held"
             a == IF p = NoProvider THEN 0 ELSE q
             d == ~queued
  <1>1. /\ q \in Nat /\ st \in Statuses /\ a \in Nat
        /\ h \in {"none"} \cup Holding \cup Released /\ d \in BOOLEAN
    <2>1. q \in Nat
      BY QuotesAssumption
    <2>2. "queued" \in Statuses /\ "pending" \in Statuses
      BY StatusNames DEF Deliverable
    <2>3. QED
      BY <2>1, <2>2 DEF Holding
  <1>2. SubmittedRow(t, q, p, queued) =
          [NoRow EXCEPT !.type = t, !.container = TRUE, !.cost = q, !.provider = p,
                        !.status = st, !.timeout = d, !.hold = h, !.holdAmount = a]
    BY DEF SubmittedRow
  <1>3. st \in Deliverable /\ (h \in Holding => a = q)
    BY DEF Deliverable, Holding
  <1> HIDE DEF st, h, a, d
  <1>4. SubmittedRow(t, q, p, queued) \in Row
    BY <1>1, <1>2, NoRowTyped DEF Row
  <1>5. QED
    BY <1>2, <1>3, <1>4, StatusNames DEF SoundRow, NoRow

LEMMA SubmitSound ==
  ASSUME Sound, NEW j \in Jobs, NEW t \in Types, NEW q \in Quotes,
         NEW p \in Providers \cup {NoProvider}, Submit(j, t, q, p)
  PROVE  Sound'
  <1> DEFINE queued == p = NoProvider \/ Busy(p)
  <1>1. p \in Hosts /\ queued \in BOOLEAN /\ t \in JobTypes
    BY TypesAssumption DEF Hosts, Busy
  <1>2. SoundRow(SubmittedRow(t, q, p, queued))
    BY <1>1, SubmittedSound
  <1>3. QED
    BY <1>2, OpenSound DEF Submit

LEMMA CancelSound ==
  ASSUME Sound, NEW j \in Jobs, Cancel(j)
  PROVE  Sound'
  <1> DEFINE new == Release(Refund(job[j], "cancelled"), "released_renter")
  <1>1. "cancelled" \in Terminal /\ "released_renter" \in Released
    BY DEF Terminal, Released
  <1>2. SoundRow(new) /\ late' \in 0 .. MaxLate
    BY <1>1, SoundFacts, RefundSound, ReleaseSound DEF Cancel
  <1>3. QED
    BY <1>2, PostAndPromoteSound DEF Cancel

LEMMA AdminCancelSound ==
  ASSUME Sound, NEW j \in Jobs, AdminCancel(j)
  PROVE  Sound'
  <1>1. "cancelled" \in Terminal /\ job[j].cost \in Int /\ 0 \in Nat
    BY SoundFacts DEF Terminal, Row
  <1>2. SoundRow(Settle(job[j], "cancelled", job[j].cost, 0)) /\ late' \in 0 .. MaxLate
    BY <1>1, SoundFacts, SettleSound DEF AdminCancel
  <1>3. QED
    BY <1>2, PostSound DEF AdminCancel

LEMMA AdminRequeueSound ==
  ASSUME Sound, NEW j \in Jobs, AdminRequeue(j)
  PROVE  Sound'
  <1> DEFINE r == job[j]
             new == [r EXCEPT !.status = "pending", !.started = FALSE,
                              !.picked = FALSE, !.timeout = TRUE]
  <1>1. SoundRow(r) /\ "pending" \in Statuses /\ late' \in 0 .. MaxLate
    BY SoundFacts, StatusNames DEF AdminRequeue, Deliverable
  <1>2. new \in Row
    BY <1>1 DEF SoundRow, Row
  <1>3. SoundRow(new)
    BY <1>1, <1>2, StatusNames DEF SoundRow, Row, Deliverable
  <1>4. Post(j, new)
    BY DEF AdminRequeue
  <1> HIDE DEF new
  <1>5. QED
    BY <1>1, <1>3, <1>4, PostSound

LEMMA CompleteSound ==
  ASSUME Sound, NEW j \in Jobs, Complete(j) \/ PatchComplete(j)
  PROVE  Sound'
  <1> DEFINE r == job[j]
             paid(pay) == Settle(r, "completed", 0, pay)
  <1>1. SoundRow(r) /\ r \in Row /\ late' \in 0 .. MaxLate
    BY SoundFacts DEF Complete, PatchComplete
  <1>2. "completed" \in Terminal /\ "released_provider" \in Released /\ 0 \in Int
    BY DEF Terminal, Released
  <1>3. ASSUME NEW pay \in Nat
        PROVE SoundRow(paid(pay)) /\ SoundRow(Release(paid(pay), "released_provider"))
    BY <1>1, <1>2, SettleSound, ReleaseSound
  <1>4. CASE Complete(j)
    <2>1. PICK c \in Metered(r) : Post(j, Release(paid(Split(c)), "released_provider"))
      BY <1>4 DEF Complete
    <2>2. Split(c) \in Nat
      BY <1>1, ChargeFacts
    <2> HIDE DEF paid
    <2>3. QED
      BY <1>1, <1>3, <2>1, <2>2, PostSound
  <1>5. CASE PatchComplete(j)
    <2>1. PICK c \in Metered(r) :
            Post(j, paid(IF r.provider = NoProvider THEN 0 ELSE Split(c)))
      BY <1>5 DEF PatchComplete
    <2>2. (IF r.provider = NoProvider THEN 0 ELSE Split(c)) \in Nat
      BY <1>1, ChargeFacts
    <2> HIDE DEF paid
    <2>3. QED
      BY <1>1, <1>3, <2>1, <2>2, PostSound
  <1>6. QED
    BY <1>4, <1>5

LEMMA StatusStepSound ==
  ASSUME Sound, NEW j \in Jobs, PatchFail(j) \/ Pause(j) \/ Resume(j)
  PROVE  Sound'
  <1> DEFINE r == job[j]
             to(s) == [r EXCEPT !.status = s]
  <1>1. SoundRow(r) /\ late' \in 0 .. MaxLate
    BY SoundFacts DEF PatchFail, Pause, Resume
  <1>2. CASE PatchFail(j)
    <2>1. SoundRow(to("failed"))
      BY <1>1, EndSound DEF Terminal
    <2>2. Post(j, to("failed"))
      BY <1>2 DEF PatchFail
    <2> HIDE DEF to
    <2>3. QED
      BY <1>1, <2>1, <2>2, PostSound
  <1>3. CASE Pause(j)
    <2>1. SoundRow(to("paused"))
      BY <1>1, <1>3, StatusNames DEF Pause, SoundRow, Row
    <2>2. Post(j, to("paused"))
      BY <1>3 DEF Pause
    <2> HIDE DEF to
    <2>3. QED
      BY <1>1, <2>1, <2>2, PostSound
  <1>4. CASE Resume(j)
    <2>1. "running" \in Live /\ "running" \in Statuses
      BY StatusNames DEF Live
    <2>2. SoundRow(to("running"))
      BY <1>1, <1>4, <2>1, StatusNames DEF Resume, SoundRow, Row
    <2>3. Post(j, to("running"))
      BY <1>4 DEF Resume
    <2> HIDE DEF to
    <2>4. QED
      BY <1>1, <2>2, <2>3, PostSound
  <1>5. QED
    BY <1>2, <1>3, <1>4

\* A new job from a failed one takes over its type and its provider.
LEMMA RetryJobSound ==
  ASSUME Sound, NEW j \in Jobs, NEW k \in Jobs, NEW q \in Quotes, RetryJob(j, k, q)
  PROVE  Sound'
  <1> DEFINE p == job[j].provider
             t == job[j].type
  <1>1. p \in Hosts /\ t \in JobTypes \cup {"none"}
    BY SoundFacts DEF Row
  <1>2. PICK queued \in BOOLEAN : Open(k, SubmittedRow(t, q, p, queued))
    BY DEF RetryJob
  <1> HIDE DEF p, t
  <1>3. QED
    BY <1>1, <1>2, SubmittedSound, OpenSound

\* The timers.
LEMMA EnforceTimeoutSound ==
  ASSUME Sound, NEW j \in Jobs, EnforceTimeout(j)
  PROVE  Sound'
  <1> DEFINE r == job[j]
  <1>1. SoundRow(r) /\ r \in Row /\ late' \in 0 .. MaxLate
    BY SoundFacts DEF EnforceTimeout
  <1>2. {"completed", "failed"} \subseteq Terminal
        /\ {"released_provider", "released_renter"} \subseteq Released
    BY DEF Terminal, Released
  <1>3. SoundRow(TimedOut(r))
    BY <1>1, <1>2, RefundSound, ReleaseSound DEF TimedOut
  <1>4. ASSUME NEW c \in Metered(r)  PROVE SoundRow(RentalOver(r, c))
    <2> HIDE DEF r
    <2> DEFINE charge == Clamp(c, r.cost)
               settled == Settle(r, "completed", r.cost - charge, Share(charge))
    <2>1. SoundRow(settled)
      BY <1>1, <1>2, ChargeFacts, SettleSound
    <2>2. RentalOver(r, c) = Release(settled, "released_provider")
      BY DEF RentalOver
    <2> HIDE DEF settled
    <2>3. QED
      BY <1>2, <2>1, <2>2, ReleaseSound
  <1>5. \/ PostAndPromote(j, TimedOut(r))
        \/ \E c \in Metered(r) : PostAndPromote(j, RentalOver(r, c))
    BY DEF EnforceTimeout
  <1> HIDE DEF r
  <1>6. QED
    BY <1>1, <1>3, <1>4, <1>5, PostAndPromoteSound

LEMMA SettleExpiredPodSound ==
  ASSUME Sound, NEW j \in Jobs, SettleExpiredPod(j)
  PROVE  Sound'
  <1>1. "completed" \in Terminal /\ 0 \in Int
    BY DEF Terminal
  <1>2. SoundRow(job[j]) /\ job[j].cost \in Nat /\ late' \in 0 .. MaxLate
    BY SoundFacts DEF SettleExpiredPod, Row
  <1>3. SoundRow(Settle(job[j], "completed", 0, Share(job[j].cost)))
    BY <1>1, <1>2, ShareNat, SettleSound
  <1>4. QED
    BY <1>2, <1>3, PostSound DEF SettleExpiredPod

LEMMA CancelStalePodSound ==
  ASSUME Sound, NEW j \in Jobs, CancelStalePod(j)
  PROVE  Sound'
  <1>1. "cancelled" \in Terminal
    BY DEF Terminal
  <1>2. SoundRow(RefundOnce(job[j], "cancelled")) /\ late' \in 0 .. MaxLate
    BY <1>1, SoundFacts, RefundOnceSound DEF CancelStalePod
  <1>3. SoundRow(StaleCancelled(job[j]))
    BY <1>2 DEF StaleCancelled, SoundRow, Row
  <1>4. QED
    BY <1>2, <1>3, PostSound DEF CancelStalePod

\* A row that goes back to the queue, from a provider it leaves.
LEMMA UnassignSound ==
  ASSUME NEW r, SoundRow(r), NEW s \in Deliverable
  PROVE  SoundRow(Unassign(r, s))
  <1>1. s \in Statuses /\ NoProvider \in Hosts /\ s \notin Live \cup {"paused"}
    BY StatusNames DEF Hosts
  <1>2. Unassign(r, s) \in Row
    BY <1>1 DEF Unassign, SoundRow, Row
  <1>3. NoProvider \notin r.agents
    BY HostsAssumption DEF SoundRow, Row
  <1>4. QED
    BY <1>1, <1>2, <1>3 DEF Unassign, SoundRow, Row

LEMMA SweepRetrySound ==
  ASSUME Sound, NEW j \in Jobs, SweepRetry(j)
  PROVE  Sound'
  <1> DEFINE r == job[j]
             u == Unassign(r, "queued")
  <1>1. SoundRow(r) /\ late' \in 0 .. MaxLate
    BY SoundFacts DEF SweepRetry
  <1>2. "queued" \in Deliverable /\ "failed" \in Terminal
    BY DEF Deliverable, Terminal
  <1>3. SoundRow(u) /\ SoundRow([r EXCEPT !.status = "failed"])
    BY <1>1, <1>2, UnassignSound, EndSound
  <1>4. /\ u.status = "queued" /\ u.retries = r.retries /\ r.retries \in 0 .. MaxRetries
        /\ u.provider = NoProvider /\ u.agents \in SUBSET Providers
    BY <1>1 DEF Unassign, SoundRow, Row
  <1>5. ASSUME r.retries < MaxRetries
        PROVE SoundRow([u EXCEPT !.timeout = FALSE, !.retries = @ + 1])
    <2>1. u.retries + 1 \in 0 .. MaxRetries
      BY <1>4, <1>5, BoundsAssumption
    <2>2. "queued" \notin Live \cup {"paused"} /\ NoProvider \notin u.agents
      BY <1>2, <1>4, StatusNames, HostsAssumption
    <2> HIDE DEF u
    <2>3. QED
      BY <1>3, <1>4, <2>1, <2>2 DEF SoundRow, Row
  <1>6. SoundRow(Retried(r))
    BY <1>3, <1>5 DEF Retried
  <1>7. QED
    BY <1>1, <1>6, PostSound DEF SweepRetry

\* Both heartbeat monitors rewrite every row of one provider.
LEMMA OfflineSound ==
  ASSUME Sound, NEW p \in MayDropOff, ProviderOffline(p) \/ LivenessRequeue(p)
  PROVE  Sound'
  <1> DEFINE u(j) == Unassign(job[j], "queued")
             requeued(j) == [u(j) EXCEPT !.retries = Bump(@)]
             pending(j) == Unassign(job[j], "pending")
  <1>1. "queued" \in Deliverable /\ "pending" \in Deliverable
    BY DEF Deliverable
  <1>2. ASSUME NEW j \in Jobs
        PROVE SoundRow(job[j]) /\ SoundRow(requeued(j)) /\ SoundRow(pending(j))
    <2>1. SoundRow(job[j]) /\ SoundRow(u(j)) /\ SoundRow(pending(j))
      BY <1>1, SoundFacts, UnassignSound
    <2>2. Bump(u(j).retries) \in 0 .. MaxRetries
      BY <2>1, BoundsAssumption DEF Bump, SoundRow, Row
    <2> HIDE DEF u
    <2>3. SoundRow(requeued(j))
      BY <2>1, <2>2 DEF SoundRow, Row
    <2>4. QED
      BY <2>1, <2>3
  <1>3. /\ job' = [j \in Jobs |-> job'[j]]
        /\ \A j \in Jobs : job'[j] \in {job[j], requeued(j), pending(j)}
        /\ balance' = balance /\ late' = late
    <2>1. CASE ProviderOffline(p)
      BY <2>1 DEF ProviderOffline
    <2>2. CASE LivenessRequeue(p)
      BY <2>2 DEF LivenessRequeue
    <2>3. QED
      BY <2>1, <2>2
  <1> HIDE DEF requeued, pending
  <1>4. \A j \in Jobs : SoundRow(job'[j])
    BY <1>2, <1>3
  <1>5. \A j \in Jobs : job'[j] \in Row
    BY <1>4 DEF SoundRow
  <1>6. job' \in [Jobs -> Row]
    BY <1>3, <1>5
  <1>7. QED
    BY <1>3, <1>4, <1>6 DEF Sound
-----------------------------------------------------------------------------
(* The induction. *)

\* An empty table is sound.
LEMMA InitSound == Init => Sound
  <1> SUFFICES ASSUME Init PROVE Sound
    OBVIOUS
  <1>1. SoundRow(NoRow)
    BY NoRowTyped DEF SoundRow, NoRow, Live, Deliverable, Holding
  <1>2. job \in [Jobs -> Row] /\ \A j \in Jobs : job[j] = NoRow
    BY NoRowTyped DEF Init
  <1>3. balance \in Int /\ late \in 0 .. MaxLate
    BY BoundsAssumption DEF Init
  <1>4. QED
    BY <1>1, <1>2, <1>3 DEF Sound

\* A step that changes none of the variables changes nothing.
LEMMA StutterSound == Sound /\ UNCHANGED vars => Sound'
  BY DEF Sound, vars

\* Every step of the system leaves the table sound.
LEMMA NextSound == Sound /\ [Next]_vars => Sound'
  <1> SUFFICES ASSUME Sound, [Next]_vars PROVE Sound'
    OBVIOUS
  <1>1. ASSUME NEW j \in Jobs, RenterStep(j)  PROVE Sound'
    BY <1>1, LaunchPodSound, LaunchBurstSound, ExtendPodSound, SubmitSound,
       RetryJobSound, StopPodSound, CancelSound, CompleteSound
    DEF RenterStep
  <1>2. ASSUME NEW j \in Jobs, AdminStep(j)  PROVE Sound'
    BY <1>2, AdminCancelSound, AdminRequeueSound DEF AdminStep
  <1>3. ASSUME NEW j \in Jobs, ReportStep(j)  PROVE Sound'
    BY <1>3, ReportStepSound, CompleteSound, StatusStepSound DEF ReportStep
  <1>4. ASSUME NEW j \in Jobs, TimerStep(j)  PROVE Sound'
    BY <1>4, EnforceTimeoutSound, SettleExpiredPodSound, CancelStalePodSound,
       SweepRetrySound
    DEF TimerStep
  <1>5. ASSUME NEW j \in Jobs, NEW p \in Providers, DaemonStep(p, j)  PROVE Sound'
    BY <1>5, PickupSound, AssignNextSound, ReportSound, DaemonLeavesSound,
       JobResultSound
    DEF DaemonStep
  <1>6. QED
    BY <1>1, <1>2, <1>3, <1>4, <1>5, BurstProcessSound, OfflineSound, StutterSound
    DEF Next

\* The inductive invariant holds in every reachable state.
THEOREM SoundAlways == Spec => []Sound
  BY InitSound, NextSound, PTL DEF Spec

\* The table, the wallet and the counter keep their types.
THEOREM TypeCorrect == Spec => []TypeOK
  <1>1. Sound => TypeOK
    BY DEF Sound, TypeOK
  <1>2. QED
    BY <1>1, SoundAlways, PTL

\* Whatever is being worked on can be ended by the timeout enforcer.
THEOREM LiveAlwaysHasDeadline == Spec => []LiveHasDeadline
  <1>1. Sound => LiveHasDeadline
    BY DEF Sound, SoundRow, LiveHasDeadline
  <1>2. QED
    BY <1>1, SoundAlways, PTL

\* Whatever waits in the queue passes the delivery filter of both poll routes.
THEOREM WaitingAlwaysDeliverable == Spec => []WaitingIsDeliverable
  <1>1. Sound => WaitingIsDeliverable
    BY DEF Sound, SoundRow, WaitingIsDeliverable
  <1>2. QED
    BY <1>1, SoundAlways, PTL

\* The escrow holds exactly what the renter prepaid, extensions included.
THEOREM HoldAlwaysMatchesPrepaid == Spec => []HoldMatchesPrepaid
  <1>1. Sound => HoldMatchesPrepaid
    BY DEF Sound, SoundRow, HoldMatchesPrepaid
  <1>2. QED
    BY <1>1, SoundAlways, PTL
=============================================================================
