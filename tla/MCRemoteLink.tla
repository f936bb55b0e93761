----------------------------- MODULE MCRemoteLink -----------------------------
(* A small instance of RemoteLink: the frequency and the mode of a Kenwood.  *)
EXTENDS RemoteLink

MCItems == {"FA", "MD"}
=============================================================================
