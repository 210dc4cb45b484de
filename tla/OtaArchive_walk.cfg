SPECIFICATION FairSpec
CONSTANTS
  Header = 2
  Slack = 1
  Profile = "all"
  CommandLines <- MCCommandLines
  StackLimit = 5
INVARIANTS TypeOK ListedInOrder
PROPERTIES ListingSpec WalkEnds
