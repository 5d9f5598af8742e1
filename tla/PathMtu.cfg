CONSTANTS
    Paths <- MCPaths
    MaxHops = 5
    MaxReports = 3
SPECIFICATION FairSpec
INVARIANTS
    ReportHelps
    NotBelowPath
PROPERTY PacketsArrive
