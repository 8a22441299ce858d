\* Two calls of one step, two edits, one crash.
SPECIFICATION Spec
CONSTANTS
  c1 = c1
  c2 = c2
  Calls = {c1, c2}
  Roles = {"default", "deployer"}
  Cmds = {"wipe", "flash", "order", "inject"}
  RootDeletes = {"inject"}
  Capability <- MCCapability
  Files <- MCFiles
  Invocations <- MCInvocations
  RulesOf <- MCRulesOf
  Absent = "absent"
  Bad = "bad"
  Edits = 2
  Crashes = 1
INVARIANTS TypeOK RunsArePermitted
PROPERTY DangerousBlocksGetCards
CHECK_DEADLOCK FALSE
