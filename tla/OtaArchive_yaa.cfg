SPECIFICATION FairSpec
CONSTANTS
  Header = 2
  Slack = 1
  Profile = "yaa"
  CommandLines <- MCCommandLines
  StackLimit = 20
PROPERTIES CorruptYaaIsSkipped
