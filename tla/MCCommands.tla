----------------------------- MODULE MCCommands -----------------------------
(* Two users, two organizations with three peers, two versions.            *)
EXTENDS Commands

CONSTANTS o1, o2, p1, p2, p3, v1, v2, unknown

MCOrgOf == p1 :> o1 @@ p2 :> o1 @@ p3 :> o2

Line(kind, urls, orgs, version, policy) ==
  [kind |-> kind, urls |-> urls, orgs |-> orgs, version |-> version, policy |-> policy]

MCCommandLines ==
  {Line(k, {}, {}, v1, {}) : k \in Kinds}
  \cup {Line(k, {}, {unknown}, v1, {}) : k \in {"install", "join", "upgrade", "queryinfo", "listen"}}
  \cup {Line(k, {unknown}, {o1}, v1, {}) : k \in {"create", "install"}}
  \cup {Line(k, {p1}, {}, v1, {}) : k \in {"queryinstalled", "querychannels"}}
  \cup {Line("querylocalpeers", {}, {o2}, v1, {}),
        Line("install", {p1, p3}, {}, v2, {}), Line("instantiate", {p3}, {}, v2, {o2}),
        Line("upgrade", {p3}, {o1}, v2, {}), Line("upgrade", {}, {}, v2, {o1}),
        Line("upgrade", {p3}, {unknown}, v2, {})}

Net(js, vs, blocks) ==
  [joined |-> js, installed |-> [p \in Peers |-> vs], chain |-> blocks]

MCNetworks ==
  {Net({}, {}, <<>>), Net({}, {v1}, <<Config>>), Net(Peers, {v1, v2}, <<Config>>),
   Net(Peers, {v1, v2}, <<Config, [version |-> v1, policy |-> Orgs]>>)}

=============================================================================
