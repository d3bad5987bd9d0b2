SPECIFICATION FairSpec
CONSTANTS Keys <- TypingKeys
          SIZE = 4
INVARIANTS TypeOK NoStuckModifier
PROPERTIES InFlightIntact QueueUntilOverrun LineReturned
