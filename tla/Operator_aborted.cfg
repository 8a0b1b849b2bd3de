CONSTANTS MaxGen = 2
 MaxOperatorFaults = 1
 MaxLag = 2
 Retries = 2
SPECIFICATION FairOperatorSpec
PROPERTY OutcomeRecorded
CHECK_DEADLOCK FALSE
