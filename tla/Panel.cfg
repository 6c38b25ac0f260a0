\* One page; a check, a poll and a request for an event under way at a time.
CONSTANTS
  Checks = {c1}
  Polls = {p1}
  Events = {e1}
  Sources = {s1, s2}
  NoSource = NoSource
  MaxStarting = 2
  MaxDue = 2
SPECIFICATION FairSpec
INVARIANTS TypeOK OneOfEach CardShowsLast GateIsTrue
PROPERTIES SignOutIsSeen LockIsSeen PollsAgain
