------------------------------ MODULE MCSppCtl ------------------------------
(* The primary with one secondary and two REST requests at a time, or with  *)
(* two secondaries and one request.                                         *)
EXTENDS SppCtl
=============================================================================
