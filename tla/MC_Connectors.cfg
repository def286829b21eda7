SPECIFICATION Spec
CONSTANTS
  wazuh = wazuh t1 = t1 t2 = t2
  NoRow = NoRow Idle = Idle
  Connectors = {wazuh}
  Tasks = {t1, t2}
INVARIANTS SwitchHolds HealthyWasProven
