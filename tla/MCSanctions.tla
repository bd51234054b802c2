---------------------------- MODULE MCSanctions -----------------------------
(***************************************************************************)
(* One player, muted by an issuer.                                         *)
(***************************************************************************)
EXTENDS Sanctions, TLC

Steps == <<[kind |-> "mute", hours |-> 1], [kind |-> "ban", hours |-> 1]>>

============================================================================
