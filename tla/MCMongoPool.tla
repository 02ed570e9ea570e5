---------------------------- MODULE MCMongoPool ----------------------------
(* MongoPool with two threads and one client in each pool. *)
EXTENDS MongoPool
=============================================================================
