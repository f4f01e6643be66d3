CONSTANTS
  r1 = r1  r2 = r2  c1 = c1  c2 = c2  p1 = p1  p2 = p2
  a1 = a1  a2 = a2  t1 = t1  t2 = t2  t3 = t3  t4 = t4
  BadAddr = BadAddr
  NoValue = NoValue
  Rels <- MCClaimableRels
  ClaimIds <- MCClaimIds
  Procs <- MCProcs
  Addresses <- MCAddresses
  Blocked <- MCBlocked
  Txs <- MCValidTxs
  TxOutput <- MCTxOutput
  TxSignedInputs <- MCTxSignedInputs
  BeneficiaryType <- MCBeneficiaryType
  DELAY = 1
  MaxTime = 1
  MaxRev = 3
  MaxUploads = 1
  MaxKeyRotations = 0
  MaxBroadcasts = 2
SPECIFICATION Spec
INVARIANT SweptClaimNotCanceled
