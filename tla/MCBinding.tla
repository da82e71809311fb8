----------------------------- MODULE MCBinding -----------------------------
(***************************************************************************)
(* The instance of Binding that TLC checks: two requests in each domain,   *)
(* so that a binding can be made, replaced, removed and made again, with   *)
(* one failed operation or lost message and one crash anywhere.            *)
(***************************************************************************)
EXTENDS Binding
=============================================================================
