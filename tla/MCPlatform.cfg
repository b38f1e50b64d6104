SPECIFICATION Spec
CONSTANTS
  Parts = {"identity", "companies", "roster", "pump", "pricing", "shop", "access", "process", "taxes", "idempotency", "orders"}
  None = None  Nothing = Nothing
  Request = {1, 2, 3}
  Phone = {p1}  Customer = {p1}  Password = {w1}
  OtpTtl = 2  ResendCooldown <- Cooldowns  MaxSends = 2  MaxSendsPerIp = 2  Hour = 2  MaxAttempts = 1
  MaxTime = 2  MaxChallenges = 2  RefreshLife = 1  SessionLife = 2  MaxSessions = 2
  Company = {c1, c2}  Person = {u1, u2}  Number = {n1}
  Driver = {d1, d2}  Vehicle = {v1, v2}  MaxReading = 1  MaxRows = 3
  MaxMoves = 4
  City = {city}  Pin = {pin}  Rate = {9, 10, 12}  Admin = {a1, a2}  SanityBand = 20  MaxDay = 2  MaxPrices = 3
  Client = {r1, r2, r3}  Key = {k1, k2}  Body = {b1, b2}
  Owner = {o1}  MaxSaved = 2  MaxAddresses = 2
  QuoteTtl = 1  DuplicateWindow = 1  MaxNow = 2  MaxQuotes = 2
  Code = {1, 2}  State = {state}  Place = {place}  Percent = {18}  PerUnit = {3}
  Charge = {45}  Threshold = {7}  Litres = {3, 7}  PerLitre = {89}  MaxRules = 3  MaxCharges = 1  Fine = 10  Whole = 100
  Account = {holder}  AccessLife = 2  Latency = 1  MaxHour = 4
INVARIANTS
  PlatformTypeOK CredentialsSpentOnce HistoryTellsStatus OneCrew PinOpensPumpOnSite
  OneRunCounts QuoteUsedOnce OrderNumbersConsecutive OutboxTellsOrders BreakdownBalances
  StaleAccessIsBounded HandlersKeepTheirPool
  NoClockOnceConfirmed DeliveryPassedEveryStage OutcomeNeverCancelled CancellationRecordAgrees
PROPERTIES RevocationIsFinal AnswersOnce TakeoversAreMeasured
CHECK_DEADLOCK FALSE
