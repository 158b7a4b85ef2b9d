----------------------------- MODULE MCPolling ------------------------------
(* A small instance of Polling.                                            *)
EXTENDS Polling

(* Two POSTs of two packets and nothing to fetch, and two messages, which  *)
(* fill sendCh, with a POST.                                               *)
MCLoad == {[msgs |-> 0, posts |-> 2, body |-> 2], [msgs |-> 2, posts |-> 1, body |-> 1]}
=============================================================================
