SPECIFICATION LifecycleSpec
CONSTANTS
  r1 = r1
  operator = operator
  approver = approver
  reader = reader
  Recommendations <- OneRow
  Actors <- MCActors
  Permissions <- MCPermissions
  None = None
PROPERTIES
  TransitionsFollowTable
