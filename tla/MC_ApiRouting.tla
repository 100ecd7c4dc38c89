---------------------------- MODULE MC_ApiRouting ----------------------------
(***************************************************************************)
(* Model-checking instance of ApiRouting.  Requests share nothing but the *)
(* built router, so one request slot shows every chain against every      *)
(* interleaving of the server set-up calls.                               *)
(***************************************************************************)
EXTENDS ApiRouting

CONSTANTS q1

MCRequests == {q1}
=============================================================================
