\* A loop on the results of a site that changes its answers; the program may ask once more after an error.
CONSTANTS
  Tries = 4
  Replies <- ManyReplies
  MaxErrors = 1
SPECIFICATION FairSpec
INVARIANTS TypeOK AtMostTries GivesReply
PROPERTIES Answers
