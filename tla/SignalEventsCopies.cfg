SPECIFICATION FairSpec
CONSTANTS
  Keys = {k1}
  Snappers = {api, worker}
  Guarded = {api}
  Users = {}
  Patches = {}
  Wishes = {k1}
  NoKey = NoKey
PROPERTY EventStaysWithSignal
