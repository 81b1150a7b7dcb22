---------------------------- MODULE MCVnsSession ----------------------------
(* Small constants for TLC: two interfaces, told once, twice or differently.  *)
EXTENDS VnsSession

Describe(name, ip, addr) ==
    <<[key |-> "name", value |-> name], [key |-> "ip", value |-> ip], [key |-> "addr", value |-> addr]>>

\* The hardware address first.
DescribeAddr(name, ip, addr) ==
    <<[key |-> "name", value |-> name], [key |-> "addr", value |-> addr], [key |-> "ip", value |-> ip]>>

MCFiles == {<<>>, <<0, Blank, 1>>, <<0, 1>>, <<1, Garbled>>}

\* Nothing; both interfaces; eth1 alone; and eth0 with other addresses.
MCHardware ==
    {<<>>,
     Describe(0, 1, 10) \o DescribeAddr(1, 2, 11),
     Describe(1, 2, 11),
     DescribeAddr(0, 3, 11)}
=============================================================================
