CONSTANTS
  buyer = buyer
  maker = maker
  arbiter = arbiter
  rep = rep
  tracked = tracked
  Zero = Zero
  Holders <- MCHolders
  Buyer <- buyer
  Maker <- maker
  Arbiter <- arbiter
  Rep <- rep
  Tracking <- tracked
  Reward = 3
  Bond = 1
  Deadline = 2
  AutoReleaseDelay = 1
  MaxDaa = 4
  BackOff = 1
  MaxTx = 5
  Outages = 0
\* The parties may leave an escrow as it is, and the model's clock stops.
CHECK_DEADLOCK FALSE
SPECIFICATION DedicatedSpec
PROPERTY
  ShipmentIsPaidOut
