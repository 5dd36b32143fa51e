------------------------------ MODULE MCLoading -----------------------------
(* Instances of Loading for TLC. *)
EXTENDS Loading, TLC

CONSTANTS k1, k2, w1, w2, v1, b1

\* Two keys in two partitions.
MCPartOf == k1 :> 1 @@ k2 :> 2

Do(what, ks) == [kind |-> what, keys |-> ks]

MCClass == [t \in Threads |-> IF t = v1 THEN "ValidateDataTask"
                              ELSE IF t = b1 THEN "BatchedValidateDataTask" ELSE "LoadDocumentsGeneratorsTask"]

\* w1 works in batches, w2 key by key; nobody creates a key again.
MCScript == [t \in Threads |->
    IF t = w1 THEN <<Do("bcreate", <<k1, k2>>), Do("bupdate", <<k1, k2>>), Do("bdelete", <<k1, k2>>)>>
    ELSE IF t = w2 THEN <<Do("update", <<k1>>)>> ELSE <<>>]
=============================================================================
