----------------------------- MODULE Namespaces -----------------------------
(***************************************************************************)
(* server/namespace.py and protocol/tenant.py: a tenant assigns values to  *)
(* keys; the values of the namespace keys, in their order, are the path of *)
(* the Socket.IO namespace its threads are broadcast in.                   *)
(*                                                                         *)
(* A path as a client writes it is a list of segments, and slashes more    *)
(* than it needs or not (padded).                                          *)
(***************************************************************************)
EXTENDS Naturals, Sequences, FiniteSets, Functions

CONSTANTS NamespaceKeys,  \* namespace_keys of ThreadServer
          OtherKeys,      \* keys of a tenant that are none of these
          Values,
          Legal           \* the values validate_namespace_value accepts

\* _validate_namespace_keys: not empty, no key twice.
ASSUME NamespaceAssumption == /\ NamespaceKeys \in Seq(Range(NamespaceKeys))
                              /\ NamespaceKeys # <<>> /\ IsInjective(NamespaceKeys)
                              /\ OtherKeys \cap Range(NamespaceKeys) = {}
                              /\ Legal \subseteq Values

Keys == Range(NamespaceKeys)
Tenants == UNION {[D -> Values] : D \in SUBSET (Keys \cup OtherKeys)}
Depth == Len(NamespaceKeys)
Paths == [segments : UNION {[1 .. n -> Values] : n \in 0 .. Depth + 1}, padded : BOOLEAN]

\* matches(), and the loop of _check_namespace_match: t asks nothing of who
\* that who has not.
Matches(t, who) == \A k \in DOMAIN t : k \in DOMAIN who /\ who[k] = t[k]

\* derive_namespace_path raises NamespaceViolation for any other tenant.
Derivable(t) == \A k \in Keys : k \in DOMAIN t /\ t[k] \in Legal

\* Mutant: the keys are taken in another order than they are read back.
DeriveBackwards(t) == [segments |-> [i \in 1 .. Depth |-> t[NamespaceKeys[Depth + 1 - i]]], padded |-> FALSE]

Derive(t) == [segments |-> [i \in 1 .. Depth |-> t[NamespaceKeys[i]]], padded |-> FALSE]

\* parse_namespace_path drops empty segments, so it reads a padded path too.
Parseable(p) == /\ Len(p.segments) = Depth
                /\ \A i \in DOMAIN p.segments : p.segments[i] \in Legal
Parse(p) == [k \in Keys |-> p.segments[CHOOSE i \in 1 .. Depth : NamespaceKeys[i] = k]]
=============================================================================
