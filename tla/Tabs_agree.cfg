SPECIFICATION FairSpec
CONSTANTS
    Users = {ann, bob}
    Admin = ann
    NoOne = NoOne
    Tabs = {1, 2}
    Clients <- TwoClients
    Sittings <- TheSittings
INVARIANTS TypeOK TabsAgree NoReplay 
PROPERTY TabsSettle
CHECK_DEADLOCK FALSE
