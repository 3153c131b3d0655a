----------------------------- MODULE MCHttpTunnel -----------------------------
(* Instances of HttpTunnel for TLC.                                        *)
EXTENDS HttpTunnel

CONSTANTS b1, h1, h2, m1, m2
=============================================================================
