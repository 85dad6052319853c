SPECIFICATION Spec
CONSTANTS
  good = good
  outOfRange = outOfRange
  t = t
  u = u
  gone = gone
  a = a
  b = b
  Config <- MCConfig
  Valid <- MCValid
  Default <- MCDefault
  Foreign <- MCForeign
  Bad = Bad
  Unreadable = Unreadable
  Absent = Absent
  Nothing = Nothing
  NotANumber = NotANumber
  PortTexts <- MCPortTexts
  Themes <- MCThemes
  NoTheme = NoTheme
  Clickable <- MCClickable
  Apps = {a, b}
  None = None
  Lists <- MCLists
  EventCapacity = 2
  MaxAsked = 1
  MaxActs = 3
  Version <- MCVersion
  Tags <- MCTags
INVARIANTS
  TypeOK
  FileIsWhole
  FileIsInUse
  PreviewFollowsBox
  ListShowsWatched
PROPERTIES
  ChosenIsShown
