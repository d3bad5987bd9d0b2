SPECIFICATION Spec
CONSTANTS Keys <- TypingKeys
          SIZE = 4
INVARIANT NoOverrun
