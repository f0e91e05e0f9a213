CONSTANTS
  NonceCount = 3
  MaxTag = 13
SPECIFICATION Spec
INVARIANT TypeOK
INVARIANT GrantedOnce
INVARIANT StandingExact
INVARIANT GrantedWereIssued
