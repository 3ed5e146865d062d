SPECIFICATION Spec
CONSTANTS
  Slots = {r1}
  Tenants = {t1}
  Tokens = {k1}
  Licenses = {}
  CredTenant <- MCCredTenant
  Hosts = {h1}
  Uuids = {u1, u2}
  NoUuid = NoUuid
  Assets = {a1}
  Ids = {m1, m2, m3, m4, m5, m6}
  HashId <- MCHashId
  HashIdV2 <- MCHashIdV2
  Seats <- MCSeats
  McaLimit <- MCNoLimit
  Reports <- LegacyToo
  Events = {}
  NoToken = NoToken
  NoId = NoId
  NoReport = NoReport
  NoRow = NoRow
  r1 = r1  t1 = t1  t2 = t2  t3 = t3  k1 = k1  k2 = k2  k3 = k3  l1 = l1  h1 = h1  h2 = h2  u1 = u1  u2 = u2  u3 = u3  u4 = u4
  a1 = a1  a2 = a2  m1 = m1  m2 = m2  m3 = m3  m4 = m4  m5 = m5  m6 = m6

PROPERTY IdentifiedRowKeptByDevice

