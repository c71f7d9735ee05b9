SPECIFICATION OAuthSpec
CONSTANTS
    Hubs = {h, i}
    MaxTokens = 2
    MaxLogins = 1
INVARIANTS LockedRefresh IssuerMatches
PROPERTIES NoFailureHidden RequestsEnd LoginsEnd
