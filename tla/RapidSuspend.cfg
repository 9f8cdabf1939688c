\* One user thread.  Gateway revokes and restores the agent, and stops it while
\* it is active; frames of an earlier suspension are still coming in.
SPECIFICATION FairSpec
CONSTANTS
  Users = {u1}
  Lifecycles = {"active", "revoked"}
  Stoppable = {"active"}
  Pushed = {"active", "suspended"}
INVARIANTS
  TypeOK
  RefreshNotLost
  NoSleepOnRequest
  SuspensionAnnounced
PROPERTIES
  AnnouncedOnce
  HintMovesUpward
  FollowsGateway
