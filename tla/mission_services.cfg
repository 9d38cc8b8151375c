SPECIFICATION Spec
CONSTANTS
  Parts = {"broker", "endpoints", "gate", "turn", "blast", "firebreak"}
  session = session
  grant1 = grant1
  caller1 = caller1
  caller2 = caller2
  caller3 = caller3
  Sessions = {session}
  Grants = {grant1}
  Callers = {caller1, caller2, caller3}
  SessionOf <- MCSessionOf
  NoGrant = NoGrant
  Tickets = {grant1}
  MaxPending = 1
  MaxSlots = 1
  MaxIssues = 1
  room1 = room1
  room2 = room2
  broker1 = broker1
  broker2 = broker2
  Rooms = {room1, room2}
  Brokers = {broker1, broker2}
  HostOf <- MCHostOf
  MaxDeaths = 1
  approval1 = approval1
  approval2 = approval2
  worker = worker
  client = client
  key = key
  host = host
  other = other
  everywhere = everywhere
  Aps = {approval1, approval2}
  Scopes <- MCScopes
  Everywhere = everywhere
  Runner = worker
  Clients = {client}
  Credentials = {key}
  Hosts = {host, other}
  MaxTokens = 3
  MaxOutput = 14
  MaxMessage = 2
  TailSize = 5
  Carry = 2
  MaxSignals = 2
INVARIANTS
  TypeOK
  ValuesAreAccountedFor
  UsedWhileStanding
  WhatRunsWasApproved
  TurnIsReadWhole
  ContainedIsTrue
  SessionIsSafe
PROPERTIES
  PlacesKept
  CallersAreAnswered
  ApprovedMissionRuns
CHECK_DEADLOCK FALSE
