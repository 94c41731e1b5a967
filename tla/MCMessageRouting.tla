-------------------------- MODULE MCMessageRouting --------------------------
(* Finite instances of MessageRouting for TLC. *)
EXTENDS MessageRouting, TLC

CONSTANTS ann, ops, law

\* To both assistants and a person, with a blank and a repetition.
MCDrafts == {<<law, NoOne, law, ops, ann>>}

MCInvitations == {<<law, ops>>}

\* To one or the other.
ChainDrafts == {<<ops>>, <<law>>}
=============================================================================
