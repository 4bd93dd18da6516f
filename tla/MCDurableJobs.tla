----------------------------- MODULE MCDurableJobs -----------------------------
(***************************************************************************)
(* Small instances of DurableJobs.  Workers, operators, partitions, keys   *)
(* and lanes are interchangeable; job ids are not, because they are        *)
(* ordered.                                                                *)
(***************************************************************************)
EXTENDS DurableJobs, TLC

MCSymmetry == Permutations(Workers) \cup Permutations(Operators)
                  \cup Permutations(Partitions) \cup Permutations(IdemKeys)
                  \cup Permutations(Lanes)
=============================================================================
