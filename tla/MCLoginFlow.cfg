SPECIFICATION Spec
CONSTANTS
  Session = {s1}
  p1 = p1
  p2 = p2
  Provider = {p1, p2}
  KindOf <- TwoKinds
  Flow = {f1, f2}
  MaxAdmitted = 1
SYMMETRY Symmetric
INVARIANTS
  ExchangedOnce
  StoredMeansSucceeded
  OneLoginAtATime
PROPERTY OutcomeIsFinal
