SPECIFICATION Spec
CONSTANTS
  r1 = r1  r2 = r2  r3 = r3
  f = f  p = p  q = q
  sh = sh  py = py  js = js
  NoFile = NoFile  Torn = Torn  NotFound = NotFound
  Reqs = {r1, r2, r3}
  Flat = {f}
  Paths = {p, q}
  Bodies = {sh, py, js}
  ExtOf <- Detect
  Initial <- OneShell
INVARIANT RunsItsOwnScript
CHECK_DEADLOCK FALSE
