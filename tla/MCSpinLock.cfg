SPECIFICATION Spec
CONSTANTS
  CPU = {c0, c1}
  NoCPU = NoCPU
  Thread = {t1, t2}
INVARIANTS LockInv MutualExclusion LocksMaskInterrupts InterruptsRestored
SYMMETRY Symmetry
