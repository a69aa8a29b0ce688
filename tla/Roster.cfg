SPECIFICATION FairSpec
CONSTANTS
  Slots = {0, 1}
  MaxGuests = 2
  MaxLines = 3
  MaxEvents = 1
INVARIANTS RosterMatches KickHitsNoOther
PROPERTY UnwantedLeave
