-------------------------- MODULE MCAllocatorTidy --------------------------
(* The bucket allocator with requests that meet every condition of the      *)
(* proofs.                                                                  *)
EXTENDS MCBucketAllocator

ASSUME TidyAssumption == NeverOut /\ Even /\ Snug
=============================================================================
