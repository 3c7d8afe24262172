----------------------------- MODULE MCTaskServer -----------------------------
(* Instances of TaskServer for TLC. *)
EXTENDS TaskProperties

FiveQueues == 1..5
AliceAndConnection == {1, ConnId(1)}
NoDelay == {0}
NowOrNever == {0, -1}
NoLimit == -1
=============================================================================
