--------------------------- MODULE MCResumeStream ---------------------------
(* One client is enough: readers share nothing but the buffer, which they  *)
(* do not change.                                                          *)
EXTENDS ResumeStream

CONSTANTS c1, r1, k1

MCClients == {c1}

(* A call of ask_user, and a consent.                                      *)
MCRequests == {r1, k1}
MCConsents == {k1}
=============================================================================
