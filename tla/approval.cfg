SPECIFICATION Spec
CONSTANTS
  None = None
  LatinNames = {"amal", "nour"}
  ArabicNames = {"amal_ar", "nour_ar"}
  Unreadable = "unreadable"
  Keys = {"k1", "k2"}
  Submitted <- MCSubmitted
  Catalogs <- MCCatalogs
  Templates = {t1, t2}
  Selections <- MCSelections
  HandWritten <- MCHandWritten
  MaxApprovals = 2
  MaxTakes = 1
  MaxFaults = 2
INVARIANTS LiveIsReviewed SignedClaimsAreSourced NamesResolve
PROPERTY PreparedSurvives
SYMMETRY TemplatesAlike
