---------------------------- MODULE MCTlsService ----------------------------
(* Applications for TlsService: one with a TLS and a plain port, and one    *)
(* whose TLS port is the first one's plain port.                            *)
EXTENDS TlsService

Ports(tlsPort, port) == [tlsPort |-> tlsPort, port |-> port]
TwoApplications == <<Ports(1, 2), Ports(2, 0)>>
HeadAndBody == <<2, 1>>
=============================================================================
