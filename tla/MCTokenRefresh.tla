----------------------------- MODULE MCTokenRefresh -----------------------------
(* Instances of TokenRefresh for TLC. *)
EXTENDS TokenRefresh

CONSTANTS a, b, h, admin, ticker
================================================================================
