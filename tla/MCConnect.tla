----------------------------- MODULE MCConnect -----------------------------
(* Instances of Connect for TLC. *)
EXTENDS Connect, TLC

CONSTANTS p1, p2, a, b

TwoProcs == {p1, p2}
TwoPhones == {a, b}
TwoPorts == 1..2
Gadget == <<[bulk_in |-> 2, bulk_out |-> 1], [bulk_in |-> 1, bulk_out |-> 1]>>

\* A state file that trusts nobody, and one with a record of phone a.
Empty == [st |-> "ok", state |-> [host |-> Old, trust |-> NoTrust]]
TrustsA == [Empty EXCEPT !.state.trust[a] = 1]

Dial(t, u) == [do |-> "connect", by |-> t, to |-> u]
Reset(u, meant) == [do |-> "reset", by |-> "Wifi", to |-> u, expect |-> meant]
RemoveA == [do |-> "remove", by |-> "none", to |-> a]
List == [do |-> "list", by |-> "none", to |-> a]
Discover(ts) == [do |-> "discover", by |-> "none", to |-> a, include |-> ts]
Pairs(S, x, y) == {[ops |-> (p1 :> x) @@ (p2 :> y), store |-> f] : f \in S}

UsbTwice == Pairs({Empty}, Dial("Usb", a), Dial("Usb", a))
StaleEndpoint == Pairs({TrustsA}, Reset(b, a), Dial("Wifi", b))
AllScenarios ==
  Pairs({Empty}, Dial("Adb", a), Dial("Adb", a)) \cup UsbTwice
  \cup Pairs({Absent, Empty, TrustsA}, Dial("Wifi", a), Dial("Wifi", b))
  \cup Pairs({TrustsA}, Dial("Wifi", a), Dial("Wifi", a))
  \cup Pairs({Absent, TrustsA}, Dial("Wifi", b), RemoveA)
  \cup Pairs({TrustsA}, Reset(a, a), Dial("Wifi", a)) \cup StaleEndpoint
  \cup Pairs({Absent}, Discover(Transports), List) \cup Pairs({Empty}, Discover({"Usb"}), List)
====
