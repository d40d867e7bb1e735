----------------------- MODULE MCAuthenticatedSession -----------------------
(* AuthenticatedSession with two accounts and two callers. *)
EXTENDS AuthenticatedSession
===============================================================================
