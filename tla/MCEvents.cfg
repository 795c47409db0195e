SPECIFICATION MCSpec
CONSTANTS
  Endpoints = {e1}  Deliveries = {d1}  Jobs = {j1, j2}
  MaxAttempts = 2  MaxSecret = 2  MaxCrash = 1
  Apps = {a1}  Flows = {f1}  Events = {"push", "other"}  MaxPush = 2  MaxFaults = 2  MaxAudit = 2
INVARIANTS
  DeliveriesAreTrue
PROPERTIES
  AttemptsAreFair
  WorkGetsThere
CHECK_DEADLOCK FALSE
