SPECIFICATION FairSpec
CONSTANTS
  Header = 2
  Slack = 1
  Profile = "two"
  CommandLines <- MCCommandLines
  StackLimit = 20
PROPERTIES IteratesAllFiles
