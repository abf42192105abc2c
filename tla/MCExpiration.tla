--------------------------- MODULE MCExpiration ---------------------------
(* Small instances of Expiration for TLC. *)
EXTENDS Expiration, TLC

CONSTANTS p, q, s1, s2

MCOrder == <<p, q>>
MCFound == p :> "whole" @@ q :> "rotten"
MCPackage == q :> "q"
MCVersion == q :> 1

Plain == [kind |-> "expire", purgeNow |-> FALSE, incomplete |-> FALSE,
          truncate |-> FALSE, byPath |-> TRUE, byChecksum |-> FALSE,
          ignoreTradeOff |-> FALSE, errAbort |-> TRUE]

MCCommands ==
    {Plain,
     [Plain EXCEPT !.byChecksum = TRUE, !.incomplete = TRUE, !.errAbort = FALSE],
     [Plain EXCEPT !.purgeNow = TRUE, !.incomplete = TRUE, !.truncate = TRUE],
     [Plain EXCEPT !.kind = "purge"],
     [Plain EXCEPT !.kind = "purgeDamaged"],
     [Plain EXCEPT !.kind = "truncDamaged"]}
=============================================================================
