SPECIFICATION LibrarySpec
CONSTANTS
  alice = alice
  bob = bob
  carol = carol
  dave = dave
  None = None
  Uuids = {alice, bob, carol, dave}
  Devices <- MCDevices
  Sender <- A1
  Peers <- MCPeers
  E164Of <- MCE164Of
  RegistrationId <- MCRegistrationId
  ServerCertificates <- MCServerCertificates
  KnownCertificates <- MCKnownCertificates
  RevokedIds = {13}
  TrustRoots = {"root"}
  Destinations <- MCDestinations
  Contacts <- MCContacts
  MaxTime = 1
  MaxChanges = 1
  MaxCerts = 1
  MaxSeals = 2
  KemTypes = {8, 10}
  MaxWireChanges = 2
  Iterations = {1, 2, 5200, 1000001}
  Versions = {0, 2}
  IdentityKeys = 2
  MacBytes = {0, 1}
  MaxFile = 4
  MaxFed = 5
  MaxChunk = 3
  Letters = {"u", "d", "e", "b", "c"}
  UserNames <- MCUserNames
  DeviceNumbers = {1, 11}
  DistributionIds = {"d", "e"}
  Ids = {1, 11}
  Values = {"v", "w"}
  BaseKeys = {"b", "c"}
  Numeral <- MCNumeral
  MaxStoreOps = 3
INVARIANTS
  SenderAuthentic
  OnlyDestinationsOpen
  EveryDestinationReached
  ReadAsMade
  ChangesNoticed
  SafetyNumbers
  MacExact
  StoresAgree
CHECK_DEADLOCK FALSE
