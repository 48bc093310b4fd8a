--------------------------- MODULE MCRouteAllocation ---------------------------
(* Small instances of RouteAllocation for TLC. *)
EXTENDS RouteAllocation, TLC

CONSTANTS lan, guest, mgmt, wg1, wg2, box1, box2, vpn1, vpn2

\* Two IDs hash to the same slot and the third to the slot after it.
MCStart == 1 :> 0 @@ 2 :> 0 @@ 3 :> 1
MCNative == box1 :> NoInterface @@ box2 :> NoInterface @@ vpn1 :> wg1 @@ vpn2 :> wg2
MCCarries == lan :> {1, 2} @@ guest :> {3} @@ mgmt :> {9}

Whole(i) == [kind |-> "interface", interface |-> i]
Subnet(addresses) == [kind |-> "subnet", subnet |-> addresses]
Defined(s, o, p, f) == [source |-> s, outbound |-> o, policy |-> p, fallback |-> f]

\* Sources that overlap, nest, span two interfaces or touch management, and every
\* failure policy with either adapter.
MCDefinitions ==
    {Defined(Whole(lan), box1, "failover", box2), Defined(Subnet({1}), box1, "direct", NoOutbound),
     Defined(Subnet({2}), vpn1, "block", NoOutbound), Defined(Subnet({2, 3}), box2, "block", NoOutbound),
     Defined(Whole(guest), vpn1, "failover", vpn2), Defined(Subnet({9}), box2, "block", NoOutbound),
     Defined(Subnet({3}), box1, "failover", vpn2), Defined(Subnet({1, 2}), vpn1, "direct", NoOutbound)}

===============================================================================
