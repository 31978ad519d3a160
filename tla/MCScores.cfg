SPECIFICATION MCSpec
CONSTANTS
    Codes <- MCCodes
    Lookup <- MCLookup
    Feed <- MCFeed
    Histories <- MCHistories
    Neutral <- MCNeutral
    Initial <- MCInitial
    Stops <- MCStops
    Template <- MCTemplate
    Edits <- MCEdits
    Industries <- MCIndustries
    Market <- MCMarket
    Rules <- MCRules
    MaxEdits = 2
INVARIANT TwoRunsSettle
 
 
PROPERTY LosingAValueNeverHelps
