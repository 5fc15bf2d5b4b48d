----------------------------- MODULE MC_Anchor -----------------------------
(* AuditAnchor with two operators; two processes share the first one's key. *)
EXTENDS AuditAnchor

CONSTANTS alice, bob, alice1, alice2, bob1

MCKeyOf == [c \in Committers |-> IF c = bob1 THEN bob ELSE alice]
=============================================================================
