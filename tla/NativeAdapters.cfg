SPECIFICATION AdaptersSpec
CONSTANTS
  MaxRequests = 30
  ReportLimit = 7
  MarkerBytes = 2
  LineBytes = {1, 2, 3}
  MaxLines = 4
  MenuViews <- ChosenViews
  MaxMishaps = 2
INVARIANTS
  NoRequestIsForgotten
  ReportedProtectionIsReal
  PolicyFollowsObserver
  NoWarningMeansAgreement
  ClipboardIsGivenBack
  MenuIsWhatItIsTakenFor
PROPERTIES
  ImplementsInhibitor
  MacOsImplementsInhibitor
  LateNotificationsAreIgnored
CHECK_DEADLOCK FALSE
