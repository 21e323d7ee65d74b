SPECIFICATION FairSpec
CONSTANTS
    a = a
    b = b
    m1 = m1
    t1 = t1
    Unset = Unset
PROPERTIES
    RunEnds
    AcceptedIsTaken
    RpcLive
    FollowUpsRun
CHECK_DEADLOCK FALSE
