------------------------------- MODULE MCSrv -------------------------------
(***************************************************************************)
(* Srv for TLC: answers that name the same places in different ways.        *)
(***************************************************************************)
EXTENDS Srv

Host(url, host) == [url |-> url, port |-> 443, host |-> host]
Dns(port, target, priority, weight) ==
    [port |-> port, target |-> target, priority |-> priority, weight |-> weight]
TxtOf(u, c2s) == [url |-> u.url, port |-> u.port, host |-> u.host, c2s |-> c2s]
LinkTo(type, conn, sni, priority, weight, c2s) ==
    [plain |-> FALSE, type |-> type, conn |-> conn, sni |-> sni, priority |-> priority,
     weight |-> weight, c2s |-> c2s, ips |-> 1]
PlainLink(conn, c2s) ==
    [plain |-> TRUE, conn |-> conn, c2s |-> c2s, ips |-> 0]

\* Target 1 is the domain, 2 a host it delegates to, 3 one that only DNS names.
Old == [xmpp |-> FALSE, pins |-> {}, links |-> << PlainLink(Host(1, 2), TRUE),
                     LinkTo("DirectTLS", Host(0, 2), 2, 20, 0, TRUE) >>]
New == [xmpp |-> TRUE, pins |-> {"k1"},
        links |-> << LinkTo("DirectTLS", Host(0, 2), 2, 10, 1, TRUE),
                     LinkTo("DirectTLS", Host(0, 2), 2, 5, 0, TRUE),
                     LinkTo("QUIC", Host(0, 2), 1, 10, 0, TRUE),
                     LinkTo("QUIC", Host(0, 2), 2, 10, 0, FALSE),
                     [LinkTo("WebSocket", Host(1, 2), 2, 10, 0, TRUE) EXCEPT !.ips = 0] >>]
NewEmpty == [xmpp |-> TRUE, pins |-> {}, links |-> <<>>]

MCAnswers ==
    [json |-> {NoAnswer, Old, New, NewEmpty},
     xml |-> {NoAnswer, <<>>, <<Host(1, 2), Host(2, 2)>>},
     txt |-> {NoAnswer, <<TxtOf(Host(1, 2), TRUE), TxtOf(Host(1, 3), TRUE), TxtOf(Host(2, 3), FALSE)>>},
     starttls |-> {NoAnswer, <<Dns(5222, 1, 10, 5), Dns(5222, 1, 0, 5), Dns(5222, 3, 10, 7)>>},
     direct |-> {NoAnswer, <<Dns(443, 0, 0, 0)>>, <<Dns(443, 2, 5, 3), Dns(443, 3, 10, 1)>>},
     quic |-> {NoAnswer, <<Dns(443, 1, 10, 0)>>},
     posh_client |-> {NoAnswer, [fps |-> {"f1"}, expires |-> 3], [fps |-> {"f2"}, expires |-> 0]},
     posh_server |-> {NoAnswer, [fps |-> {"f3"}, expires |-> 2]}]

MCCerts == [key : {"k1", "k2"}, fp : {"f1", "f2", "f3", "f4"}, ca : BOOLEAN,
            names : {{}, {1}, {2}, {3}}, anchor : BOOLEAN]
=============================================================================
