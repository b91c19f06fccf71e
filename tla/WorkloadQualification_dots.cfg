SPECIFICATION Spec
CONSTANTS
  Budget = 2
  MaxWorkloads = 3
  MinVariants = 2
  MaxVariants = 2
  Campaigns <- MCCampaigns
  Possible <- MCPossible
  Rewrites <- MCRewrites
  Altered <- MCAltered
  Forged <- MCForged
INVARIANT PublishedIsLoadable
CHECK_DEADLOCK FALSE
