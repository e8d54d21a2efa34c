----------------------------- MODULE MCService -----------------------------
EXTENDS Service

CONSTANTS a1, a2, p1, p2, monitor

MCApps == {a1, a2}
MCOneApp == {a1}
MCClosers == {monitor}
MCPorts == {p1, p2}
MCOnePort == {p1}
MCFaults == {"reject", "lost"}
MCNone == {}
=============================================================================
