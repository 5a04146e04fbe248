CONSTANTS
  s1 = s1
  s2 = s2
  Session = {s1, s2}
  empty = empty
  hello = hello
  Content = {empty, hello}
  Default = empty
  Missing = Missing
  NoFrame = NoFrame
SPECIFICATION HopSpec
CHECK_DEADLOCK FALSE
INVARIANT
  TextComesBack
