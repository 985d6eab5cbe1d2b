--------------------------- MODULE MCCurrentState ---------------------------
(***************************************************************************)
(* Addresses of four bits, of which 8 .. 15 are private, and 8 .. 11,      *)
(* 12 .. 13 and the public 0 .. 3 allowed; of the ranges that are asked    *)
(* for, some are too large, public or not allowed.  In the first view the  *)
(* probe is at 11, and on a virtual network at 13; host a is at 9, and a   *)
(* node of Kubernetes at 10.  In the second the probe is at 9, a at 11 of  *)
(* the virtual network, host b at 10, a virtual address of a service; the  *)
(* nodes could not be read, and a second interface is down.                *)
(***************************************************************************)
EXTENDS CurrentState

R(address, prefix) == [address |-> address, prefix |-> prefix]
N(address, mac, interface) == [address |-> address, mac |-> mac, interface |-> interface]
X(name, mac, up, addresses) == [name |-> name, mac |-> mac, up |-> up, addresses |-> addresses]

MCPrivate == {R(8, 1)}
MCAllowed == {R(8, 2), R(12, 3), R(0, 2)}

Lo == X("lo", "l", TRUE, <<R(1, 4)>>)
MCView ==
    {[interfaces |-> <<Lo, X("eth", "s", TRUE, <<R(11, 2)>>), X("br", "v", TRUE, <<R(13, 3)>>)>>,
      neighbors |-> <<N(9, "a", "eth"), N(10, NoMac, "eth")>>,
      nodes |-> Read(<<[name |-> "n", addresses |-> <<10, 12>>]>>), services |-> Read(<<>>)],
     [interfaces |-> <<Lo, X("wl", "w", FALSE, <<R(12, 2)>>), X("eth", "s", TRUE, <<R(9, 2)>>)>>,
      neighbors |-> <<N(11, "a", "br"), N(10, "b", "eth")>>,
      nodes |-> Unread, services |-> Read(<<[name |-> "k", addresses |-> {10, 14}]>>)]}

MCSweep ==
    {[profile |-> "standard", requested |-> <<>>, responders |-> {9, 11}, heard |-> {}],
     [profile |-> "standard", requested |-> <<R(9, 4)>>, responders |-> {}, heard |-> {}],
     [profile |-> "deep", requested |-> <<>>, responders |-> {10}, heard |-> {10, 11}]}
    \cup {[profile |-> "standard", requested |-> <<c>>, responders |-> {}, heard |-> {}] : c \in {R(12, 2), R(8, 1), R(0, 2)}}

Tcp(range, ports, open) == [method |-> "tcp-connect", range |-> range, ports |-> ports, open |-> open]
MCServiceScan == {Tcp(R(8, 2), {1, 2}, {<<9, 1>>, <<10, 2>>}), Tcp(R(8, 3), {1}, {<<8, 1>>}),
                  [method |-> "udp-probe", range |-> R(12, 3), ports |-> {1}, open |-> {<<12, 1>>}],
                  Tcp(R(12, 2), {1}, {<<14, 1>>})}

DeviceA == <<"mac", "a">>
DeviceB == <<"mac", "b">>
Merge(sources, target) == [kind |-> "merge", sources |-> sources, target |-> target]
Split(source, addresses, target) == [kind |-> "split", source |-> source, addresses |-> addresses, target |-> target]
MCContext ==
    {[settings |-> [x \in {} |-> {}], corrections |-> <<>>],
     [settings |-> [x \in {"eth"} |-> [identity |-> FALSE]], corrections |-> <<Merge({DeviceA, Self}, Self)>>],
     [settings |-> [x \in {"eth", "br"} |-> IF x = "br" THEN [scan |-> TRUE, map |-> TRUE, identity |-> TRUE]
                                            ELSE [map |-> FALSE]],
      corrections |-> <<Merge({DeviceA, DeviceB}, DeviceB), Split(DeviceB, {9}, <<"manual", 9>>)>>]}

\* Ids only tell snapshots apart: states that differ by them are the same.
Content == [i \in 1..Len(snapshots) |-> [snapshots[i] EXCEPT !.id = i]]

MCDeviceId == {Self, <<"node", "n">>, <<"manual", 9>>} \cup {<<"ip", a>> : a \in 0..15} \cup {<<"mac", m>> : m \in Mac}
=============================================================================
