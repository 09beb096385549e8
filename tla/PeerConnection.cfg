SPECIFICATION FairSpec
CONSTANTS
    RemoteDescs <- MCRemoteDescs
    StopOnResume = TRUE
INVARIANTS TypeOK ConnectedIsComplete NoDanglingResume AdvertisedRoleIsPlayed
PROPERTIES ImplementsLifecycle AttemptOnlyAdvances ConnectingEnds DescriptionsStartConnect
