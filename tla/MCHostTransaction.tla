--------------------------- MODULE MCHostTransaction ---------------------------
(* Small instances of HostTransaction for TLC. *)
EXTENDS HostTransaction, TLC

CONSTANTS singbox, haproxy, xray_relay, conf1, conf2, t1, t2, h1, h2

AdapterOf == [c \in Components |->
    CASE c = singbox -> "singbox" [] c = haproxy -> "haproxy" [] OTHER -> "xray_relay"]

OrderOf == SelectSeq(<<singbox, xray_relay, haproxy>>, LAMBDA c : c \in Components)

\* Ids, contents and handlers are never compared with a particular value.
Symmetry == Permutations(Ids) \cup Permutations(Contents) \cup Permutations(Handlers)
===============================================================================
