SPECIFICATION Spec
CONSTANTS
  a = a
  b = b
  odd = s3
  Signals = {s1, s2, s3}
  Updates = {}
  Names = {a, b}
  NameOf <- NamedA
  Conditions = {}
  InterceptorYields = FALSE
SYMMETRY Symmetry
INVARIANTS
  
  InOrderPerName
