--------------------------- MODULE BucketRouting ---------------------------
(***************************************************************************)
(* How bucketset.c cuts the hash space into buckets and finds the bucket   *)
(* of a hash: the rounding of the configured range, the bounds given to    *)
(* each bucket, and the search.  Only operators: the modules that keep     *)
(* state (SdsStore) apply them to their own configuration.                 *)
(*                                                                         *)
(* Hashes and ranks are natural numbers here: they are uint64_t in the     *)
(* code, and no product of the configured bucket count and range comes     *)
(* near 2^64.  The loop variable of the rounding is an int; SdsStore       *)
(* assumes the configured range small enough for it not to overflow.       *)
(***************************************************************************)
EXTENDS Integers, FiniteSetsExt

BUCKET_MIN_HASH == 512

NoBucket == -1      \* bucketset_search_bucket returned NULL

(***************************************************************************)
(* bucketset_hash_range_round: the loop tries i = 1, 2, ... and stops at   *)
(* the first multiple of BUCKET_MIN_HASH strictly greater than the base,   *)
(* by i = base + 1 at the latest.                                          *)
(***************************************************************************)
FirstMultipleAbove(base) ==
    CHOOSE i \in 1 .. base + 1 :
        /\ i * BUCKET_MIN_HASH > base
        /\ \A j \in 1 .. i - 1 : j * BUCKET_MIN_HASH <= base

bucketset_hash_range_round(base) == FirstMultipleAbove(base) * BUCKET_MIN_HASH

(***************************************************************************)
(* bucketset_create: bucket i of a set gets [start_offset, end_offset],    *)
(* kept as min_rank and max_rank.                                          *)
(***************************************************************************)
MinRank(range, i) == i * range

\* A plausible slip in the bounds: the end reaches into the next bucket.
MaxRank_Overlap(range, i) == (i + 1) * range + 1

MaxRank(range, i) == (i + 1) * range - 1

(***************************************************************************)
(* bucketset_search_bucket: the comparison is  hash >= min && hash < max,  *)
(* and the scan keeps the first bucket that passes it.  (The jump hash the *)
(* function computes first is never used.)                                 *)
(***************************************************************************)
Covers(range, i, hash) == MinRank(range, i) <= hash /\ hash < MaxRank(range, i)

Covering(n, range, hash) == { i \in 0 .. n - 1 : Covers(range, i, hash) }

bucketset_search_bucket(n, range, hash) ==
    LET bkts == Covering(n, range, hash)
    IN IF bkts = {} THEN NoBucket ELSE Min(bkts)
=============================================================================
