----------------------------- MODULE MCKVConfig -----------------------------
(***************************************************************************)
(* An instance of KVConfig: the calls of a clerk to server 0 and those     *)
(* between the servers 0, which is restarted, and 1.                       *)
(***************************************************************************)
EXTENDS KVConfig

CONSTANT c1

MCRoutes == {<<c1, 0>>, <<0, 1>>, <<1, 0>>}
=============================================================================
