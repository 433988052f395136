SPECIFICATION ServerSpec
CONSTANTS
  Tasks = {t1}
  NoTask = NoTask
  Users = {alice}
  Admins = {}
  Anonymous = Anonymous
  Requests = {r1, r2}
  NoRequest = NoRequest
PROPERTIES HealthAnswered
