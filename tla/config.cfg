SPECIFICATION Spec
CONSTANTS
  Posts <- Posted
  Factors = {1500}
  NoBlob = NoBlob
  Flashes = {TRUE, FALSE}
INVARIANTS TypeOK AcceptedIsKept InLimits FlashFollowsRam FlashIsLoadable
