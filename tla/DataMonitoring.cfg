SPECIFICATION MSpec
CONSTANTS
  m1 = m1
  None = None
  Monitors = {m1}
  Derivatives = {"FUTURES_DAILY"}
  Varying = {"twse", "industry"}
  Runs <- MCRuns
  MaxChanges = 4
  MaxFaults = 1
INVARIANT OncePerEpisode
PROPERTY Settles
