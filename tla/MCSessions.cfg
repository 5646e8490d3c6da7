SPECIFICATION Spec
CONSTANTS
  Browsers = {laptop, phone}
  Requests = {q1, q2}
  MaxTokens = 3
  MaxStates = 2
SYMMETRY MCSymmetry
INVARIANTS
  OneLivePerFamily
  QuietBrowsersAreTrusted
PROPERTIES
  LivesAsPromised
