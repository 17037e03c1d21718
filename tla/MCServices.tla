------------------------------ MODULE MCServices ------------------------------
(***************************************************************************)
(* Inference billing and batch inference on one wallet, for TLC.  A        *)
(* behaviour explores one slice, picked by the initial state: two          *)
(* interactive requests at a time and no batch; one request at a time      *)
(* beside a batch that settles, on one provider; a batch with no request   *)
(* beside it, of any outcome, which may be taken before its lines are      *)
(* inserted, with settlement on or off.                                    *)
(***************************************************************************)
EXTENDS BatchInference, TLC

CONSTANT Second     \* the call that stays idle beside a batch

VARIABLE slice

MCRequests == Keys \cup (Batches \X LineNos)
MCGrants == <<1>>
MCSymmetry == Permutations(Nodes)

MCInit == ServiceInit /\ slice \in {"requests", "both", "batch"}

MCNext ==
  /\ ServiceNext
  /\ slice = "requests" => UNCHANGED <<batchVars, creating>>
  /\ slice = "both" =>
       /\ call'[Second] = NoCall
       /\ worker' # NoWork => worker'.settles /\ creating = {}
       /\ \A l \in Lines : line'[l].status = "failed" => line'[l].cost = 0
       /\ \A l \in Lines : line'[l].status = "succeeded" => line'[l].cost > 0
       /\ \A l, m \in Lines : "none" \in {line'[l].node, line'[m].node}
                              \/ line'[l].node = line'[m].node
  /\ slice = "batch" => \A c \in Calls : call'[c] = NoCall
  /\ UNCHANGED slice

MCSpec == MCInit /\ [][MCNext]_<<serviceVars, slice>>
=============================================================================
