---------------------------- MODULE MCBlobStore -----------------------------
(* Instances of BlobStore for TLC.  Files, requests and archives are       *)
(* interchangeable.                                                        *)
EXTENDS BlobStore, TLC

(* Writes that fail or are cut off; removals; and everything, to one       *)
(* request at a time.                                                      *)
ThreeRegimes == {{"overlap", "copy", "crash"}, {"overlap", "insert", "delete"},
                 Mishap \ {"overlap"}}

Symmetry == Permutations(Files) \cup Permutations(Requests)
              \cup Permutations(Archives)
=============================================================================
