---------------------------- MODULE MCConnection ----------------------------
(* Clients, virtual servers and ports are model values; hash functions.    *)
EXTENDS Connection, TLC

(* Every ip:port and protocol has a bucket of its own.                     *)
OwnBucket(key, proto) == <<key, proto>>
=============================================================================
