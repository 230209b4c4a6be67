CONSTANTS
  buyer = buyer
  maker = maker
  arbiter = arbiter
  lostKey = lostKey
  rep1 = rep1
  rep2 = rep2
  tracked = tracked
  Zero = Zero
  Keys <- MCKeys
  Holders <- MCHolders
  Pseudonyms <- MCPseudonyms
  Hashes <- MCHashes
  Buyer <- buyer
  Arbiter <- arbiter
  Reward = 3
  Bond = 1
  Deadline = 3
  AutoReleaseDelay = 2
  MaxDaa = 6
SPECIFICATION Spec
INVARIANT
  PseudonymBound
