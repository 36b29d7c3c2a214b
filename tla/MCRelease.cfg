\* Five commits after two tags made by hand: releases, retries and pushes in any order.
CONSTANTS
  FirstTags = {1, 2}
  MaxCommits = 5
  Unreleased = Unreleased
  None = None
SPECIFICATION Spec
INVARIANTS
  TypeOK
  PublishedIsTagged
  TaggedStaysRetriable
  NextReleasePossible
PROPERTY NothingOverwritten
