SPECIFICATION FairSpec
CONSTANTS
    k1 = k1
    k2 = k2
    None = None
    Schemas <- TwoSchemas
    Passwords <- TwoPasswords
    Target = 1
    MaxEvents = 3
INVARIANTS PipelineTypeOK SuccessStands SecretOpens
PROPERTIES ChainHeals
