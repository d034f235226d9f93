---------------------------- MODULE MCWebEvents ----------------------------
(* Symmetry is not used: the run checks a liveness property.  Time passes   *)
(* where nobody is connected, and stands still where clients are.           *)
EXTENDS WebEvents

MCScopes ==
  [fds : {{}}, until : {4}, stores : {"low"}, loads : {"low"}, timeFirst : BOOLEAN]
    \cup [fds : {Fds}, until : {1}, stores : {"low"}, loads : {"low"}, timeFirst : {FALSE}]
=============================================================================
