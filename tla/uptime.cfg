CONSTANTS
  Deployments = {"systemd", "docker", "terminal"}
  Faults <- Survivable
SPECIFICATION Spec
INVARIANTS TypeOK NeverStranded
PROPERTIES StaysUp
