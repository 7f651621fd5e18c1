SPECIFICATION WebsiteSpec
CONSTANTS
  home = home  book = book  about = about  robots = robots
  plain = plain  odd = odd  mail = mail  form = form
  None = None
  Enrichers = {e1, e2}
  Sites = {plain, odd}
  Urls = {home, book, about, robots}
  Home = home
  Robots = robots
  Links <- MCLinks
  Rank <- MCRank
  Addresses = {mail}
  Published <- MCPublished
  Facts <- MCFacts
  Signals = {form}
  Channels = {form}
  Answers <- MCAnswers
  RobotsFiles <- MCFiles
  MaxPages = 2
  Quota = 1
  MaxRuns = 3
  MaxCrashes = 1
INVARIANTS
  QuotaOvershootBounded
  OneFirstContact
  RobotsRespected
  OnlyDeathsLeaveRunning
  StateTellsPages
CHECK_DEADLOCK FALSE
