--------------------------- MODULE MCFuzzCampaign ---------------------------
(* Small instances of FuzzCampaign for TLC. *)
EXTENDS FuzzCampaign, TLC

(* Addresses and bits of the map are interchangeable. *)
Interchangeable == Permutations(Seqs) \cup Permutations(Bits)
=============================================================================
