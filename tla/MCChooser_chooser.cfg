SPECIFICATION Spec
CONSTANTS
  Root = Root
  Own = Own
  Frame = Frame
  Term = Term
  Popup = Popup
  OwnFrame = OwnFrame
  Kids <- SomeKids
  Accounts = {"a", "b"}
  Contacts = {"romeo", "juliet"}
  Length <- SomeLength
  MaxTimeouts = 2
  MaxDialogues = 2
  MaxReports = 2
INVARIANT ChooserTypeOK
INVARIANT ContextFreedWhenDone
INVARIANT SharesTheChoice
CHECK_DEADLOCK FALSE
