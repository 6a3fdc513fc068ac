SPECIFICATION Spec
CONSTANTS
  Posts <- Posted
  Factors = {1500}
  NoBlob = NoBlob
  Flashes = {FALSE}
INVARIANTS AcceptedIsNeverLost
