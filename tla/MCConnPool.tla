----------------------------- MODULE MCConnPool -----------------------------
(***************************************************************************)
(* Three downloaders, a proxy and a mirror; the pool holds two connections *)
(* and the interval of the cleaner is shorter than the lifetime of one.    *)
(***************************************************************************)
EXTENDS ConnPool
=============================================================================
