CONSTANTS
  Deployments = {"systemd"}
  Faults <- LoopUnderSystemd
SPECIFICATION Spec
PROPERTIES StaysUp
