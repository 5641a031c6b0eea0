SPECIFICATION FairSpec
CONSTANTS
  LatestVersion = 2
  Forced = {2}
  MaxAsks = 1
  MaxOrders = 1
  MaxFaults = 2
INVARIANT UnpacksWhatWasAsked
INVARIANT PinnedKept
INVARIANT SettingsTell
PROPERTY ForcedInstalled
PROPERTY ServerObeyed
