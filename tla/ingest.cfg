SPECIFICATION MCSpec
CONSTANTS
  Slots = {r1, r2}
  Tenants = {t1, t2, t3}
  Tokens = {k1, k2, k3}
  Licenses = {l1}
  CredTenant <- MCCredTenant
  Hosts = {h1, h2}
  Uuids = {u1, u2, u3, u4}
  NoUuid = NoUuid
  Assets = {a1, a2}
  Ids = {m1, m2, m3, m4, m5, m6}
  HashId <- MCHashId
  HashIdV2 <- MCHashIdV2
  Seats <- MCSeats
  McaLimit <- MCLimitOne
  Reports <- AllReports
  Events = {"revoke", "expire", "delete_machine", "abort", "delete_token"}
  NoToken = NoToken
  NoId = NoId
  NoReport = NoReport
  NoRow = NoRow
  r1 = r1  t1 = t1  t2 = t2  t3 = t3  k1 = k1  k2 = k2  k3 = k3  l1 = l1  h1 = h1  h2 = h2  u1 = u1  u2 = u2  u3 = u3  u4 = u4
  a1 = a1  a2 = a2  m1 = m1  m2 = m2  m3 = m3  m4 = m4  m5 = m5  m6 = m6
INVARIANT TypeOK
INVARIANT SeatOvershootBounded
INVARIANT OneRowPerUuid
 
INVARIANT CountMatchesInventory
INVARIANT SnapshotCurrent
 
PROPERTY RowTenantFixed
PROPERTY SyncReplacesInventory
PROPERTY RevokedTokenEnrolsNothing
PROPERTY RequestsAnswered
CHECK_DEADLOCK FALSE
