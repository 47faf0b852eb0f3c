---------------------------- MODULE MCThreadPool ----------------------------
(* A small instance of UPSThreadPool; the sets are given in the cfg.           *)
EXTENDS UPSThreadPool
=============================================================================
