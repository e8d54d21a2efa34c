--------------------------- MODULE MCProxyServer ---------------------------
(* Two inbound connections and room for one handler.                        *)
EXTENDS ProxyServer
=============================================================================
