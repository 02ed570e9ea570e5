---------------------------- MODULE MCRedisPool ----------------------------
(* RedisPool with a few threads. *)
EXTENDS RedisPool

MCFlat == {"flat"}
MCBoth == {"flat", "nested"}
=============================================================================
