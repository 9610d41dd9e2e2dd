--------------------------- MODULE MCOrderBuffer ----------------------------
(* OrderBuffer with a few cells: once as the protocol buffer with several  *)
(* producers, once as the writer's and reader's buffer with the game       *)
(* thread as the only producer.                                            *)
EXTENDS OrderBuffer
=============================================================================
