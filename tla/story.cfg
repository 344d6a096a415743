SPECIFICATION Spec
CONSTANTS
    r1 = r1
    r2 = r2
    Requests <- TwoRequests
    Episodes <- TwoEpisodes
    Unknown = "no_such_episode"
    MaxLevel = 1
    Factions = {"SHE"}
    RequiredLevel <- SmallLevels
    RequiredFactions <- SmallFactions
    RequiredEpisodes <- SmallEpisodes
    Scripted = {"ep1"}
SYMMETRY Symmetry
INVARIANTS
    TypeOK
    CompletionsAreEarned
    LocksAreTrue
    CompletionsAreShown
    CompletionIsRepeatable
