SPECIFICATION ProducerSpec
CONSTANTS
    Instances = {1, 2}
    ProducerSetups <- MCClaimSetups
    MaxFetchFaults = 0
INVARIANT
    DeliveredMeansStored
CHECK_DEADLOCK FALSE
