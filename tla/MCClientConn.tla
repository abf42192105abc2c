---------------------------- MODULE MCClientConn ----------------------------
(***************************************************************************)
(* Clients that send two requests: pairs of ordinary ones, one of each     *)
(* other kind before or after an ordinary one, and each setting of the     *)
(* server that changes the way of a request.                               *)
(***************************************************************************)
EXTENDS ClientConn

CONSTANTS file1, file2

Plain == [meth |-> "GET", kind |-> "file", cc |-> "none", from |-> -1, to |-> -1,
          keep |-> "any", v11 |-> TRUE, xorig |-> FALSE, ims |-> FALSE, file |-> file1]

Rest == [Plain EXCEPT !.from = 1, !.file = file2]

\* Requests for files, with and without ranges.
Common == {Plain, Rest,
           [Plain EXCEPT !.from = 0, !.to = 0],
           [Plain EXCEPT !.from = 1, !.to = 1],
           [Plain EXCEPT !.keep = "close"],
           [Plain EXCEPT !.kind = "uncached", !.file = file2]}

\* Every other way through WorkLoop and Prepare.
Special == {[Plain EXCEPT !.kind = k] :
                k \in {"nasty", "page", "port", "admin", "local", "dir", "unknown",
                       "uncachedtgt"}}
    \cup {[Plain EXCEPT !.meth = m] : m \in {"HEAD", "POST", "CONNECT", "garbage"}}
    \cup {[Plain EXCEPT !.kind = "dir", !.xorig = TRUE],
          [Plain EXCEPT !.kind = "unknown", !.cc = "no-cache"],
          [Plain EXCEPT !.cc = "no-store"],
          [Plain EXCEPT !.ims = TRUE],
          [Plain EXCEPT !.v11 = FALSE],
          [Plain EXCEPT !.from = -2, !.to = -2],
          [Plain EXCEPT !.from = 1, !.to = 0]}

Usual == [offline |-> FALSE, degraded |-> FALSE, managed |-> FALSE,
          patrace |-> FALSE, wrapper |-> FALSE]

MCStarts ==
    {[script |-> <<a, Rest>>, opt |-> Usual] : a \in Special}
    \cup {[script |-> <<a, b>>, opt |-> Usual] : a \in Common, b \in {Plain, Rest}}
    \cup {[script |-> <<a, [Plain EXCEPT !.meth = m]>>, opt |-> Usual] :
            a \in {Plain, [Plain EXCEPT !.kind = "admin"]}, m \in {"POST", "CONNECT"}}
    \cup {[script |-> <<b>>, opt |-> [Usual EXCEPT ![o] = TRUE]] :
            b \in {Plain, [Plain EXCEPT !.kind = "unknown"]}, o \in DOMAIN Usual}
    \cup {[script |-> <<[Plain EXCEPT !.xorig = TRUE], b>>, opt |-> [Usual EXCEPT !.wrapper = TRUE]] :
            b \in {Plain, [Plain EXCEPT !.meth = "POST"]}}
=============================================================================
