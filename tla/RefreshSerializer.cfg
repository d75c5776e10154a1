SPECIFICATION FairSpec
CONSTANTS
    codex = codex
    claude = claude
    gemini = gemini
    auth0 = auth0
    anthropic = anthropic
    Calls = {c1, c2, c3, c4}
    Providers = {codex, claude, gemini}
    Groups = {auth0, anthropic}
    RotationGroup <- GroupTable
    NoGroup = NoGroup
    NoCall = NoCall
    Spacing = TRUE
INVARIANTS TypeOK ChainInvariant MutualExclusion
PROPERTIES QueuedSiblingWaitsForGap ImplementsLane
