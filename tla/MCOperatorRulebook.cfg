CONSTANTS
  NumOperators = 2
  MaxAdds = 2
  MaxCalls = 1
  Limits = {1, 4}
  FamilyNames = {"Signed", "WithIdentity", "Anticommuting"}
SPECIFICATION Spec
INVARIANTS
  SameAlgebra
  MethodsAgree
PROPERTY Progress
