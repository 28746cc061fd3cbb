\* A map that is switched off, and a load.
SPECIFICATION SchedulerSpec
CONSTANTS
  Models = {m1}
  Providers = {p1, p2}
  Creds = {d1, d2}
  MaxDisturbed = 2
INVARIANT OnlyActiveMaps
