----------------------------- MODULE MCDnsCache -----------------------------
(***************************************************************************)
(* Two downloaders and two hosts with up to two addresses each.            *)
(***************************************************************************)
EXTENDS DnsCache
=============================================================================
