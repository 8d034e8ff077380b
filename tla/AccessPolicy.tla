---------------------------- MODULE AccessPolicy ----------------------------
(***************************************************************************)
(* The decisions of AccessPolicyStore (webshotd/src/access_policy.cpp).    *)
(*                                                                         *)
(* A prefix key is turned into an ltree path and the SQL operators @> and  *)
(* <@ compare paths by ancestry, so all that the store knows of a prefix   *)
(* is the set of links at or below it: Covered[p].  The denylist check of  *)
(* a link, the allowlist check of a link and the selection of the captures *)
(* to purge are the same relation read from its two sides.                 *)
(***************************************************************************)
EXTENDS Naturals

CONSTANTS
    Links,         \* normalized links
    Prefixes,      \* prefix keys that can be denylisted or allowlisted
    Covered,       \* Covered[p]: the links at or below prefix p
    AllowlistOnly  \* Config::AllowlistOnly(): which AccessPolicyMode is used

ASSUME PolicyAssumption ==
    /\ Covered \in [Prefixes -> SUBSET Links]
    /\ AllowlistOnly \in BOOLEAN

(* check_denylist_tree.sql / check_allowlist_tree.sql: some listed prefix  *)
(* is an ancestor of the link, or the link's own prefix.                   *)
ListCovers(list, link) == \E p \in list : link \in Covered[p]

(* AccessPolicyStore::IsAllowedPrefix looks at the denylist alone, in both *)
(* modes.  It is the check made before a capture is persisted.             *)
IsAllowedPrefix(link, denylist) == ~ListCovers(denylist, link)

(* EvaluatePrefix makes two reads, and they are two statements: the list   *)
(* read first may already decide, otherwise the second one does.  The      *)
(* order depends on the mode.                                              *)
FirstRead(link, denylist, allowlist) ==
    IF AllowlistOnly
    THEN IF ListCovers(denylist, link) THEN "deny" ELSE "undecided"
    ELSE IF ListCovers(allowlist, link) THEN "allow" ELSE "undecided"

SecondRead(link, denylist, allowlist) ==
    IF AllowlistOnly
    THEN IF ListCovers(allowlist, link) THEN "allow" ELSE "deny"
    ELSE IF ListCovers(denylist, link) THEN "deny" ELSE "allow"
=============================================================================
