---------------------------- MODULE MCLinkedList ----------------------------
(* Four items: enough for two neighbours in the middle of a list to have items   *)
(* on both sides, for a sort that needs several passes, and for equal items at  *)
(* any distance.  Two lists, so that an item may move between them.             *)
EXTENDS LinkedList

MCData == {1, 2}
MCList == {"loaders", "pending"}
=============================================================================
