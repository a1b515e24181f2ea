---------------------------- MODULE ProtocolInfo -----------------------------
(***************************************************************************)
(* The tables of src/DHF/_example/include/protocol_info.h: the numbers of  *)
(* the protocols of each layer, their names, and the way back from a name  *)
(* for the protocols of applications.                                      *)
(***************************************************************************)
EXTENDS Integers, TLC

\* The numbers that have a #define, by layer.
ChannelProtocols == 0 .. 7 \cup 9 .. 19
NetworkProtocols == 0 .. 8
TransProtocols   == {1, 2, 4, 6, 17, 36, 41, 47, 50, 53}
Protocols        == 0 .. 12 \cup 20 .. 25

\* get_name_channel_protocol; 8 has no name.
ChannelNames ==
    0 :> "" @@ 1 :> "MPEG-2" @@ 2 :> "HDLC" @@ 3 :> "Cisco Router" @@
    4 :> "Frame Relay" @@ 5 :> "PPP" @@ 6 :> "IEEE 802.11" @@ 7 :> "DTX-240" @@
    9 :> "VSAT" @@ 10 :> "ETHERNET" @@ 11 :> "ATM" @@ 12 :> "ATM AAL1" @@
    13 :> "ATM AAL2" @@ 14 :> "ATM AAL3_4" @@ 15 :> "ATM AAL5" @@ 16 :> "X.25" @@
    17 :> "iDirect" @@ 18 :> "GPRS" @@ 19 :> "LLC"

\* get_name_network_protocol.
NetworkNames ==
    0 :> "" @@ 1 :> "IPv4" @@ 2 :> "IPv6" @@ 3 :> "IPX" @@ 4 :> "IP" @@ 5 :> "PPPoE" @@
    6 :> "PPP" @@ 7 :> "802.1Q Virtual Lan" @@ 8 :> "GRE"

\* get_name_trans_protocol.
TransNames ==
    1 :> "ICMP" @@ 2 :> "IGMP" @@ 4 :> "IP" @@ 6 :> "TCP" @@ 17 :> "UDP" @@
    36 :> "XTP" @@ 41 :> "IPv6" @@ 47 :> "GRE" @@ 50 :> "ESP" @@ 53 :> "SWIPE"

\* get_name_protocol.
ProtocolNames ==
    1 :> "HTTP" @@ 2 :> "NNTP" @@ 3 :> "SMTP" @@ 4 :> "IMAP4" @@ 5 :> "POP3" @@
    6 :> "FTP" @@ 7 :> "IRC" @@ 8 :> "OSCAR" @@ 9 :> "MSN" @@ 10 :> "YAHOO" @@
    11 :> "LOTUS" @@ 12 :> "JABBER" @@ 20 :> "H323/H225" @@ 21 :> "RTP" @@
    22 :> "SIP" @@ 23 :> "ATM" @@ 24 :> "HTTPS" @@ 25 :> "SKINNY"

\* The name of a protocol of a layer: names is one of the tables.
NameOf(names, unknown, p) == IF p \in DOMAIN names THEN names[p] ELSE unknown

get_name_channel_protocol(p) == NameOf(ChannelNames, "CP Unknown", p)
get_name_network_protocol(p) == NameOf(NetworkNames, "NP Unknown", p)
get_name_trans_protocol(p)   == NameOf(TransNames, "TP Unknown", p)

\* Seeded fault: the S of HTTPS is missing.
NameCutOff(p) == IF p = 24 THEN "HTTP" ELSE NameOf(ProtocolNames, "AP Unknown", p)

get_name_protocol(p) == NameOf(ProtocolNames, "AP Unknown", p)

\* What get_protocol compares with: another name for 20, and none for 25.
KnownNames == [p \in DOMAIN ProtocolNames \ {25} |->
                  IF p = 20 THEN "H323/H255" ELSE ProtocolNames[p]]

get_protocol(str) ==
    IF \E p \in DOMAIN KnownNames : KnownNames[p] = str
    THEN CHOOSE p \in DOMAIN KnownNames : KnownNames[p] = str ELSE 0
==============================================================================
