----------------------------- MODULE MCBaseDisk -----------------------------
(* BaseDisk on a mirror that serves two contents, with the source's three  *)
(* GET attempts.                                                           *)
EXTENDS BaseDisk
=============================================================================
