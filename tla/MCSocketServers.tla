--------------------------- MODULE MCSocketServers ---------------------------
(* Bounds per program: a third client, which sends nothing and leaves by a *)
(* reset, and a third descriptor only for the server over poll; for it and *)
(* for the bench server the first client sends one byte, and for the bench *)
(* server the second sends none.                                           *)
EXTENDS SimpleServers

MCSends == <<2, 1, 0>>

MCInit == SimpleInit /\ (IF srv = "poll" THEN nofile # 2 ELSE nofile < 3)

MCNext ==
    /\ SimpleNext
    /\ srv \in {"poll", "bench"} => cn'[1].sent < 2
    /\ srv = "bench" => cn'[2].sent = 0
    /\ cn'[3].peer \in (IF srv = "poll" THEN {"idle", "open", "rst"} ELSE {"idle"})

MCSpec == MCInit /\ [][MCNext]_simpleVars /\ SimpleFair
=============================================================================
