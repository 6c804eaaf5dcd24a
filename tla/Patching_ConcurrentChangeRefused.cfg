SPECIFICATION Spec
CONSTANTS
  p1 = p1
  p2 = p2
  old_py = old_py
  new_py = new_py
  more_py = more_py
  Callers <- TwoCallers
  Files <- ThreeFiles
  Created <- NewFile
  Evidence <- OldFile
  MaxEdits = 3
SYMMETRY CallerSymmetry
INVARIANTS
  ConcurrentChangeRefused
CHECK_DEADLOCK FALSE
