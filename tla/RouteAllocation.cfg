SPECIFICATION Spec
CONSTANTS
  lan = lan
  guest = guest
  mgmt = mgmt
  wg1 = wg1
  wg2 = wg2
  box1 = box1
  box2 = box2
  vpn1 = vpn1
  vpn2 = vpn2
  Routes = {1, 2, 3}
  Outbounds = {box1, box2, vpn1, vpn2}
  Native <- MCNative
  MaximumRoutes = 3
  Start <- MCStart
  Ingress = {lan, guest, mgmt}
  Carries <- MCCarries
  Protected = {9}
  Definitions <- MCDefinitions
  NoRoute = NoRoute
  NoInterface = NoInterface
  NoOutbound = NoOutbound
  MaxChanges = 2
CHECK_DEADLOCK FALSE
INVARIANT TypeOK
INVARIANT AppliedRoutesAreAlone
INVARIANT ReplanIsStable
INVARIANT AppliedCanBeReplayed
