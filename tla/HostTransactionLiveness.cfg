SPECIFICATION Spec
CONSTANTS
  singbox = singbox
  haproxy = haproxy
  xray_relay = xray_relay
  conf1 = conf1
  conf2 = conf2
  t1 = t1
  t2 = t2
  h1 = h1
  h2 = h2
  Components = {singbox}
  Adapter <- AdapterOf
  RecoveryOrder <- OrderOf
  Contents = {conf1, conf2}
  Absent = Absent
  Stopped = Stopped
  Ids = {t1, t2}
  Handlers = {h1}
  Main = Main
  Nobody = Nobody
  NoRequest = NoRequest
  Unknown = Unknown
  MaxFaults = 1
  MaxCrashes = 2
PROPERTY AppliesAreAtomic
PROPERTY LockIsReleased
PROPERTY RecoveryConverges
