SPECIFICATION Spec
CONSTANTS
  Device = {d1, d2}
  Request = {r1, r2}
  Code = {c1}
  MaxVersion = 2
  None = None
  ChatSocket = {s1, s2, s3}
  AuctionSocket = {t1, t2}
  Auction = {x1, x2}
  Conversation = {d1, d2}
  RoomMessage = {m1}
  Page = {r1, r2}
  NoConversation = NoConversation
  MaxAsked = 0
  Row = {d1, d2}
  Base = {n1, n2}
  Writer = {r1, r2}
  NoName = NoName
  Freed = Freed
  Call = {r1, r2}
  Threshold = 2
  Timeout = 1
  MaxAttempts = 2
  NoToken = NoToken
  Notice = {n1}
  PrefRequest = {r1, r2}
  TokenRequest = {r1, r2}
  Phone = {d1, d2}
  NoPhone = NoPhone
  Seller = Seller
  Buyer = {d1, d2}
  Dedicated = Dedicated
  StaffAdmin = StaffAdmin
  EnvAdministrator = NoOne
  NoOne = NoOne
  Caller = {r1, r2}
  MaxConversations = 2
  MaxMail = 3
SYMMETRY Symmetry
VIEW View
CHECK_DEADLOCK FALSE
INVARIANT TypeOK
INVARIANT OneSession
INVARIANT TokensEndWithSession
INVARIANT Presence
INVARIANT RoomShowsThread
INVARIANT NamesComeFree
INVARIANT OffStaysOff
INVARIANT PushFindsOwner
INVARIANT MailboxAgrees
INVARIANT FilesKept
