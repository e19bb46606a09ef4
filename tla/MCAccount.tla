----------------------------- MODULE MCAccount -----------------------------
(* Instances of Account for TLC.                                           *)
EXTENDS AccountProperties

CONSTANTS p1, p2, f1, f2

AllHome == [f \in Friend |-> IF f = f1 THEN {p1, p2} ELSE {}]

\* One proxy, with everything that can be done to it.
Registering ==
  [ proxies |-> {p1}, friends |-> {}, fails |-> Failure,
    does |-> {"edit", "elsewhere", "disable", "publish", "remove", "pause",
              "presence", "idle"} ]

\* A friend whose proxy comes and goes.
Subscribing ==
  [ proxies |-> {p1}, friends |-> {f1}, fails |-> {"refused"},
    does |-> {"remove", "policy", "drop"} ]

\* Two proxies of the domain of a friend.
Choosing ==
  [ proxies |-> {p1, p2}, friends |-> {f1}, fails |-> {"refused"}, does |-> {"default"} ]

\* A friend of no domain of ours, who belongs to the default proxy.
Foreign ==
  [ proxies |-> {p1}, friends |-> {f2}, fails |-> {"refused"},
    does |-> {"default", "disable", "edit"} ]

AllScopes == {Registering, Subscribing, Choosing, Foreign}
=============================================================================
