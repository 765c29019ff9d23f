----------------------------- MODULE MCChannel -----------------------------
(***************************************************************************)
(* Channel for TLC.  The configuration gives the payloads, the receive     *)
(* slots, the capacity and the bound on senders.                           *)
(***************************************************************************)
EXTENDS Channel

=============================================================================
