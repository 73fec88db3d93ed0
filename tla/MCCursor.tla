------------------------------ MODULE MCCursor ------------------------------
(* Values for the constants of Cursor: an interface section with a command *)
(* or a negated one, and an address family in a router, terminated or not; *)
(* a statement whose value may be missing; the loose text the grammar      *)
(* leaves after a command, and a comment a command may share its line with. *)
EXTENDS Cursor

Named(kind, words) ==
    [kind |-> kind, named |-> TRUE, missing |-> FALSE, field |-> "", words |-> words,
     text |-> "", parent |-> 0, from |-> <<>>, to |-> <<>>, shape |-> <<>>]
Anonymous(word) == [Named(word, <<word>>) EXCEPT !.named = FALSE]
Missing(kind) == [Named(kind, <<"">>) EXCEPT !.missing = TRUE]

Inner == {"config", "interface_section", "interface_header", "hostname_statement",
          "negated_statement", "command_line", "router_section", "router_header",
          "address_family_section", "address_family_header", "string"}

MCSymbols ==
    [kind \in Inner |-> Named(kind, <<>>)] @@
    [word \in {"interface", "hostname", "no", ",", "router", "bgp", "address-family"} |->
        Anonymous(word)] @@
    [negated |-> [Named("command_line", <<>>) EXCEPT !.field = "keyword"],
     text |-> Named("text", <<"bootfile", "pcboot">>),
     inline |-> Named("command_line", <<>>),
     ios_comment |-> Named("ios_comment", <<"! a comment">>),
     eos |-> Named("eos", <<"!">>), no_eos |-> Missing("eos"),
     interface_name |-> Named("interface_name", <<"Gi0/0">>),
     name |-> Named("value", <<"r1">>), no_name |-> Missing("value"),
     ip |-> Named("identifier", <<"ip">>), address |-> Named("value", <<"address">>),
     alias |-> Named("value", <<"(IKEv2)">>), quoted |-> Named("string", <<>>)]

(* A command or a section starts a line, unless a comment may share it.    *)
MCGaps ==
    [symbol \in DOMAIN MCSymbols |->
        CASE MCSymbols[symbol].missing -> {"none", "blank", "newline"}
          [] symbol = "quoted" -> {"blank"}
          [] symbol = "inline" -> {"blank", "newline"}
          [] symbol \in Inner \cup {"eos"} -> {"newline"}
          [] symbol \in {"address", "interface_name"} -> {"blank", "blanks"}
          [] OTHER -> {"blank"}]

MCGrammar ==
    [config |-> {<<>>, <<"command_line">>, <<"eos", "interface_section">>,
                 <<"router_section">>, <<"command_line", "text">>,
                 <<"interface_section", "hostname_statement">>,
                 <<"command_line", "interface_section">>, <<"ios_comment", "inline">>},
     interface_section |->
         {<<"interface_header", "no_eos">>} \cup
         {<<"interface_header", line, eos>> :
             line \in {"command_line", "negated_statement"}, eos \in {"eos", "no_eos"}},
     interface_header |-> {<<"interface", "interface_name">>},
     router_section |->
         {<<"router_header", "address_family_section", eos>> : eos \in {"eos", "no_eos"}},
     router_header |-> {<<"router", "bgp", "name">>},
     address_family_section |->
         {<<"address_family_header", "command_line", eos>> : eos \in {"eos", "no_eos"}},
     address_family_header |-> {<<"address-family">>},
     hostname_statement |-> {<<"hostname", "name">>, <<"hostname", "no_name">>},
     negated_statement |-> {<<"no">>, <<"no", "negated">>},
     command_line |-> {<<"ip">>, <<"ip", "address">>, <<"ip", "address", "alias">>,
                       <<"ip", ",", "address">>, <<"ip", "quoted">>},
     string |-> {<<"name", "address">>}]

MCAliases == {<<"ip", "address", "(IKEv2)">>}
MCKeywords == {<<"ip">>, <<"ip", "address">>, <<"interface">>, <<"hostname">>} \cup MCAliases
=============================================================================
