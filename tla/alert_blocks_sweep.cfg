SPECIFICATION AlertsSpec
CONSTANTS
  Machines = {"m1", "m2"}
  OrgAdmins = {"o"}
  AlertSupers = {"s"}
  Linked = {}
  Rules = {"r"}
  Callers = {"sweep", "investigation"}
  Orgs = {"top", "sub"}
  OrgOf <- MCOrgOf
PROPERTY AlertNeverBlocksSweep
CHECK_DEADLOCK FALSE
