SPECIFICATION FairSpec
CONSTANTS
  Keys = {k1}
  Snappers = {worker}
  Guarded = {}
  Users = {u1}
  Patches = {"dismissed"}
  Wishes = {}
  NoKey = NoKey
INVARIANT DismissalKept
PROPERTIES EventFollowsSignal EventEndsWithSignal
