--------------------------- MODULE MCNodeRegistry ---------------------------
(***************************************************************************)
(* Up to three registered nodes.                                           *)
(***************************************************************************)
EXTENDS NodeRegistry

CONSTANTS a, b, c

\* Bound: five requests and faults together.
Profile == requests + faults <= 5

=============================================================================
