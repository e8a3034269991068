------------------------------ MODULE MCMonitor ------------------------------
(***************************************************************************)
(* Monitor on a small instance.                                            *)
(***************************************************************************)
EXTENDS Monitor

MCText == <<-1, -2>>
=============================================================================
