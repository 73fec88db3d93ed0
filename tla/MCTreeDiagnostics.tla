------------------------- MODULE MCTreeDiagnostics -------------------------
(* Values for the constants of TreeDiagnostics: what may be where in a     *)
(* tree.  An ERROR may be in any node and hold any other.                  *)
EXTENDS TreeDiagnostics

Node(kind, text) == [kind |-> kind, text |-> text, missing |-> FALSE]
Missing(kind) == [kind |-> kind, text |-> "", missing |-> TRUE]

MCRoots == {[kind |-> kind, text |-> "", missing |-> FALSE, parent |-> 0] :
               kind \in {"source_file", "ERROR"}}

Commands == {Node("command_line", "area"), Node("command_line", "ip address"),
             Node("aggregate_address_statement", "aggregate-address")}
Jinja == {Node("{{", ""), Node("}}", ""), Node("{%", ""), Node("%}", "")}
Eos == {Node("eos", ""), Missing("eos")}
ERROR == {Node("ERROR", "")}
Output == {Node("output", "")}
Line == Commands \cup {Node("negated_statement", "")} \cup Output \cup ERROR
Af == {Node("address_family_section", "")}
Sections == {Node("router_section", "bgp"), Node("router_section", "ospf"),
             Node("interface_section", ""), Node("redundancy_section", ""),
             Node("ip_access_list_section", "standard")}

MCHolds ==
    [source_file |-> Sections \cup Line,
     router_section |-> Af \cup Line \cup Eos,
     address_family_section |-> Line \cup Eos,
     interface_section |-> Line \cup Eos,
     redundancy_section |-> Line \cup Eos,
     ip_access_list_section |-> Line \cup Eos,
     negated_statement |-> Commands,
     output |-> {Node("{{", ""), Node("}}", ""), Missing("}}")} \cup ERROR,
     ERROR |-> Sections \cup Af \cup Line \cup Eos \cup Jinja]

MCMisplaced ==
    [keyword \in {c.text : c \in Commands} |->
        IF keyword = "ip address" THEN {"config", "config-router", "config-router-af"}
        ELSE IF keyword = "aggregate-address" THEN {"config", "config-if"}
        ELSE {}]
=============================================================================
