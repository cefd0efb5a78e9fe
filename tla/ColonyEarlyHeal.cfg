CONSTANTS
  sh = sh  dx = dx  dy = dy  dz = dz  dw = dw  ta = ta  tb = tb
  v1 = v1  v2 = v2  w1 = w1  w2 = w2  rd = rd
  Absent = Absent  NoWrite = NoWrite  NoReplica = NoReplica
  Shard <- MCShard  Copies = 3  Doc <- MCDocs  Tenant <- MCTenants  Value <- MCValues
  ShardOf <- MCShardOf  TenantOf <- MCTenantOf
  Writer <- MCWriters  Reader <- MCReaders
  Environments <- MCEarlyHeal
SYMMETRY Interchangeable
SPECIFICATION Spec
INVARIANT UpReplicasCurrent
