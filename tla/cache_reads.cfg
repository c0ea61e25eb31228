SPECIFICATION CacheSpec
CONSTANTS
  Caller = {a, b, c}
  Ttl = 2
  FetchMax = 2
  MaxTime = 6
SYMMETRY CallerSymmetry
PROPERTIES HitsAreFresh ResetForgets NeverFarBack
