SPECIFICATION ProxiesFairSpec
CONSTANTS
  ProxyIds = {p1}
  Addresses = {a1}
  Tests = {q1}
  NoProxy = NoProxy
CHECK_DEADLOCK FALSE
PROPERTY ChecksAreClassified
