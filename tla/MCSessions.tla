----------------------------- MODULE MCSessions -----------------------------
(* Instances of Sessions for TLC. *)
EXTENDS Sessions, TLC

MCPinHosts == {<<"e">>, <<"a", "e">>}
MCHosts == {<<"a", "e">>}

Symmetry == Permutations(Calls)

Entry(host, sub, pin) == [host |-> host, sub |-> sub, pins |-> <<pin>>]

\* A request of the one session, by a proxy.
Plain ==
  [sessionId |-> "s", proxyUrl |-> "http", rotating |-> FALSE,
   racing |-> FALSE, host |-> <<"a", "e">>,
   pins |-> {Entry(<<"e">>, TRUE, "k1")}, defect |-> "none"]

\* A change of the proxy that works and one that does not, clients with other
\* pins for the same host or a subdomain, a racing client, and what can be wrong
\* with an input.
MCInputs ==
  {Plain,
   [Plain EXCEPT !.proxyUrl = "ftp"],
   [Plain EXCEPT !.proxyUrl = "socks5", !.racing = TRUE],
   [Plain EXCEPT !.sessionId = None, !.defect = "zeroBlock",
                 !.pins = {Entry(<<"e">>, FALSE, "k2")}],
   [Plain EXCEPT !.sessionId = None,
                 !.pins = {Entry(<<"a", "e">>, FALSE, "k1")}],
   [Plain EXCEPT !.sessionId = None, !.proxyUrl = None, !.pins = {},
                 !.defect = "url"],
   [Plain EXCEPT !.sessionId = None, !.defect = "conflict"],
   [Plain EXCEPT !.rotating = TRUE, !.defect = "profile"],
   [Plain EXCEPT !.defect = "urlAndHost"],
   [Plain EXCEPT !.defect = "ja3"],
   [Plain EXCEPT !.defect = "negativeBlock"]}

=============================================================================
