\* The matrices and the requests of main: is their safe state called safe?
CONSTANTS
  NumCustomers = 5
  NumResources = 3
  Requests <- MainRequests
  Scenarios <- MainScenarios
SPECIFICATION BankerSpec
INVARIANT SafeStateFound
