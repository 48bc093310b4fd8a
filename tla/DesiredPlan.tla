---------------------------- MODULE DesiredPlan -----------------------------
(***************************************************************************)
(* What the planners make of the rows they are given: the rejections that  *)
(* keep a generated configuration self-contained, and the part of the      *)
(* configuration that refers to other parts.  Rows are given as the        *)
(* functions from identifiers to documents that a load has read; they may  *)
(* come from different moments.                                            *)
(*                                                                         *)
(* Ports, addresses, host listeners and the native interface adapter are   *)
(* planned in NatTransaction, RouteAllocation and InterfaceOutbound.       *)
(***************************************************************************)
EXTENDS Naturals, FiniteSets, Functions

CONSTANTS XrayShapes,  \* the credential shapes of the Xray adapter
          Direct       \* a route's selection when it may leave unproxied

Planned(ok, config) == [ok |-> ok, config |-> config]

Enabled(rows) == {i \in DOMAIN rows : rows[i].enabled}

Adapter(outbound) == IF outbound.shape \in XrayShapes THEN "xray" ELSE "singbox"

(* sing-box: one outbound per enabled definition, each with the credential  *)
(* made for it, and a target for every route that is installed.            *)
singboxOutbounds(outbounds) == {i \in Enabled(outbounds) : Adapter(outbounds[i]) = "singbox"}

CredentialMatches(outbounds, credentials, i) ==
  i \in DOMAIN credentials /\ credentials[i] = outbounds[i].shape

singboxBuildPlan(outbounds, credentials) ==
  LET used == singboxOutbounds(outbounds)
      ok   == \A i \in used : CredentialMatches(outbounds, credentials, i)
  IN  Planned(ok, IF ok THEN Restrict(credentials, used) ELSE <<>>)

\* Faulty variant: a route's target is not looked up among the outbounds.
UncheckedRoutedPlan(outbounds, credentials, intents) == singboxBuildPlan(outbounds, credentials)

BuildRoutedPlan(outbounds, credentials, intents) ==
  LET base == singboxBuildPlan(outbounds, credentials)
  IN  Planned(/\ base.ok
              /\ \A r \in DOMAIN intents :
                   intents[r].selected \in DOMAIN base.config \cup {Direct},
              base.config)

(* Routes: the outbounds a route names must be usable, and the health of   *)
(* the primary decides where the traffic goes.                             *)
Usable(outbounds, i) == i \in Enabled(outbounds) /\ Adapter(outbounds[i]) = "singbox"

RoutePlannable(route, outbounds) ==
  /\ Usable(outbounds, route.outbound)
  /\ route.policy = "failover" => Usable(outbounds, route.fallback)

Selected(route, outbounds) ==
  IF outbounds[route.outbound].health # "unhealthy" THEN route.outbound
  ELSE CASE route.policy = "direct"   -> Direct
         [] route.policy = "failover" ->
              IF outbounds[route.fallback].health # "unhealthy"
              THEN route.fallback ELSE route.outbound
         [] OTHER                     -> route.outbound

routingBuildPlan(routes, outbounds) ==
  LET active == Enabled(routes)
      ok     == \A r \in active : RoutePlannable(routes[r], outbounds)
  IN  Planned(ok, IF ok THEN [r \in active |->
                               [outbound |-> routes[r].outbound,
                                selected |-> Selected(routes[r], outbounds)]]
                  ELSE <<>>)

(* Relays: only the outbounds that enabled relays use are configured. *)
RelayPlannable(relay, outbounds, credentials) ==
  /\ relay.outbound \in Enabled(outbounds)
  /\ Adapter(outbounds[relay.outbound]) = "xray"
  /\ CredentialMatches(outbounds, credentials, relay.outbound)

relayBuildPlan(relays, outbounds, credentials) ==
  LET active == Enabled(relays)
      ok     == \A r \in active : RelayPlannable(relays[r], outbounds, credentials)
  IN  Planned(ok, IF ok THEN [r \in active |->
                               [outbound   |-> relays[r].outbound,
                                shape      |-> outbounds[relays[r].outbound].shape,
                                credential |-> credentials[relays[r].outbound]]]
                  ELSE <<>>)

(* HAProxy: every frontend, a disabled one too, must find its backends. *)
FrontendPlannable(frontend, backends) ==
  /\ frontend.backends \subseteq DOMAIN backends
  /\ frontend.enabled => frontend.backends \cap Enabled(backends) # {}

haproxyBuildPlan(frontends, backends) ==
  LET ok == \A f \in DOMAIN frontends : FrontendPlannable(frontends[f], backends)
  IN  Planned(ok, IF ok THEN [f \in Enabled(frontends) |->
                               Restrict(backends, frontends[f].backends)]
                  ELSE <<>>)

(* NAT rules and Xray routing rules refer to no other row. *)
natBuildPlan(forwards) == Planned(TRUE, Restrict(forwards, Enabled(forwards)))

BuildFragmentPlan(bindings) == Planned(TRUE, Restrict(bindings, Enabled(bindings)))

==============================================================================
