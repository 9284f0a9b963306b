----------------------------- MODULE MCHandoff -----------------------------
(* TLC instances of Handoff: model values for the panes, symmetric.        *)
EXTENDS Handoff, TLC

=============================================================================
