CONSTANTS
  None = None
  SafeName <- MCSafeName
  DayLength = 2
  AccessLife = 1
  RefreshLife = 2
SPECIFICATION PureSpec
INVARIANTS
  VacanciesAreRead
  PromptsAreFaithful
  PagesAreFaithful
  RequestsAreJudged
  UsersAreApart
  StreamsAreFaithful
  ServersStartSound
CHECK_DEADLOCK FALSE
