----------------------------- MODULE SyntaxTree -----------------------------
(***************************************************************************)
(* A syntax tree and package section, which says in which section and      *)
(* protocol a node is: what the diagnostics and the cursor share.          *)
(*                                                                         *)
(* A tree is the sequence of its nodes in the order of a walk, each with   *)
(* the place of its parent.  The tokens of a header are the section's      *)
(* `text`: the protocol of a router, the type of an ACL, "" if absent.      *)
(***************************************************************************)
EXTENDS Naturals, Sequences, FiniteSets, SequencesExt

VARIABLE tree \* the nodes

-----------------------------------------------------------------------------
parent(i) == tree[i].parent
IsError(i) == tree[i].kind = "ERROR"
IsMissing(i) == tree[i].missing

Ancestors(i) ==
    LET up[k \in DOMAIN tree] ==
            IF parent(k) = 0 THEN {} ELSE {parent(k)} \cup up[parent(k)]
    IN  up[i]
Descendants(i) == {k \in DOMAIN tree : i \in Ancestors(k)}
Children(i) == {k \in DOMAIN tree : parent(k) = i}

(* The nearest of some ancestors is the one the walk met last.             *)
Innermost(S) == CHOOSE i \in S : \A k \in S : k <= i

-----------------------------------------------------------------------------
(* Package section.                                                        *)
kindToSection ==
    [interface_section |-> "config-if", router_section |-> "config-router",
     address_family_section |-> "config-router-af",
     route_map_section |-> "config-route-map", class_map_section |-> "config-cmap",
     policy_map_section |-> "config-pmap", policy_map_class_section |-> "config-pmap-c",
     vlan_section |-> "config-vlan", line_section |-> "config-line"]

sectionHeaderKinds == DOMAIN kindToSection \cup {"ip_access_list_section"}
IsSectionHeader(i) == tree[i].kind \in sectionHeaderKinds

resolveACLSection(i) ==
    IF tree[i].text = "standard" THEN "config-std-nacl" ELSE "config-ext-nacl"

(* A fault: an address family has no protocol of its own, and gets none.   *)
protocolOfRouter(i) == IF tree[i].kind = "router_section" THEN tree[i].text ELSE ""

(* An address family inherits the protocol of the router it is in.         *)
protocolFor(i) ==
    LET routers == {p \in Ancestors(i) : tree[p].kind = "router_section"}
    IN  CASE tree[i].kind = "router_section" -> tree[i].text
          [] tree[i].kind = "address_family_section" /\ routers # {} ->
                tree[Innermost(routers)].text
          [] OTHER -> ""

EnclosingSection(i) ==
    LET around == {a \in Ancestors(i) \cup {i} : IsSectionHeader(a)}
        s == Innermost(around)
    IN  IF around = {} THEN [section |-> "config", protocol |-> ""]
        ELSE IF tree[s].kind = "ip_access_list_section"
        THEN [section |-> resolveACLSection(s), protocol |-> ""]
        ELSE [section |-> kindToSection[tree[s].kind], protocol |-> protocolFor(s)]
=============================================================================
