--------------------------- MODULE MCRunLifecycle ---------------------------
(* Small instance of RunLifecycle: two requests that may share a key, two    *)
(* replicas, one operator, a crash.                                          *)
EXTENDS RunLifecycle
=============================================================================
