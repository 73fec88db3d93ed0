---------------------------- MODULE MCNavigation ----------------------------
(* Values for the constants of SymbolTable: every extractor and every shape *)
(* of a reference, with the cases each of them turns down.                  *)
EXTENDS Navigation

Section(kind, name) == [kind |-> kind, tokens |-> name, negated |-> FALSE]
Line(kind, tokens) == [kind |-> kind, tokens |-> tokens, negated |-> FALSE]
No(line) == [line EXCEPT !.negated = TRUE]

MCNames == {"A", "B", "redundancy", "class-default", "any"}

Definitions ==
    {Section("interface_section", <<"A">>),
     Section("redundancy_section", <<>>),
     Section("route_map_section", <<"A">>),
     Section("class_map_section", <<"A">>),
     Section("class_map_section", <<>>),
     Section("policy_map_class_section", <<"A">>),
     Section("policy_map_class_section", <<"class-default">>),
     Section("ip_access_list_section", <<"A">>),
     Line("access_list_statement", <<"access-list", "B", "permit">>),
     Line("access_list_statement", <<"access-list">>),
     Line("hostname_statement", <<"hostname", "A">>),
     Line("command_line", <<"ip", "access-list", "extended", "A">>)}

Bindings ==
    {Line("command_line", <<"ip", "access-group", "A", "in">>),
     No(Line("command_line", <<"ip", "access-group", "A", "in">>)),
     Line("match_statement", <<"match", "ip", "address", "B">>),
     Line("command_line", <<"ip", "access-group", "any", "in">>),
     Line("class_statement", <<"class", "A">>),
     Line("class_statement", <<"class", "class-default">>),
     Line("service_statement", <<"service", "-policy", "input", "A">>),
     Line("service_statement", <<"service", "-policy", "A">>)}

MCNodes == Definitions \cup Bindings
=============================================================================
