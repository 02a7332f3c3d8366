--------------------------- MODULE MC_ReadApiChain ---------------------------
EXTENDS ReadApiChain

(* Requests of one digest, of QUERY_MAX_RESULT_LIMIT digests with an      *)
(* unindexed one among them, and of one digest too many                    *)
MC_DigestRequests == {<<1>>, <<3, 1>>, <<1, 2, 3>>}
=============================================================================
