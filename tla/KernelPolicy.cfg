SPECIFICATION MCSpec
CONSTANTS
  p1 = p1
  p2 = p2
  Tasks = {p1, p2}
  Cgroup <- MCCgroup
  Workloads <- MCWorkloads
  StalePorts = {0, 1}
  HookName <- MCHookName
  First16 <- MCFirst16
  Fnv <- MCFnv
  Verdict <- MCVerdict
  Scope = {1}
  RingCap = 2
  MapCap = 1
  LSMEnforce = TRUE
  AuditMode = FALSE
INVARIANTS KernelDenyJustified KillJustified  LayoutsAgree
