-------------------------- MODULE MCPingAddrTable --------------------------
(* Three addresses, one of them the limited broadcast address that doubles *)
(* as the deletion mark; the array grows from one entry to four.           *)
EXTENDS PingAddrTable

MCAddr    == {1, 2, 9}
MCBcast   == 9
MCInitNum == 1
MCMaxNum  == 4
=============================================================================
