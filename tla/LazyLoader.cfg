SPECIFICATION FairSpec
CONSTANTS
  Threads = {t1, t2}
  Names = {new, unref}
  NULL = NULL
INVARIANTS
  OpensOnce
  TypedBeforeCall
  AnswersAgree
PROPERTIES
  CallsReturn
