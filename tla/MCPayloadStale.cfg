CONSTANTS
  Callers = {c1}
  Threads = {t1, t2}
  None = None
  Profile = {p1, p2}
  First = p1
  Unknown = Unknown
  BrewTime <- MCBrewTime
  Field = {"temperature"}
  Value = {v1}
  SeqMod = 2

SPECIFICATION PayloadSpec

PROPERTIES
  BrewRunsItsTime
