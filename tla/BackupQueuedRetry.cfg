\* One directory whose slot is taken by another backup of the Agent.
CONSTANTS
    NDirs = 1
    Slots = 1
    Requests = {r1}
    MaxFaults = 1
SPECIFICATION Spec
PROPERTIES QueuedRetryWaits
