-------------------------- MODULE MCInboundDebounce --------------------------
(***************************************************************************)
(* A small instance of InboundDebounce for TLC.                            *)
(***************************************************************************)
EXTENDS InboundDebounce

CONSTANTS alice, bob, a1, a2, a3, b1

\* Most messages are of one sender.
MostlyAlice == [m \in Messages |-> IF m = b1 THEN bob ELSE alice]
=============================================================================
