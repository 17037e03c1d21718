----------------------------- MODULE MCMarketplace -----------------------------
(* Instances of Marketplace for TLC. *)
EXTENDS Marketplace, TLC

\* Providers are interchangeable except for those whose heartbeat may stop.
ProviderSymmetry == Permutations(Providers)

\* Job ids are only ever compared for equality.
JobSymmetry == Permutations(Jobs)
=============================================================================
